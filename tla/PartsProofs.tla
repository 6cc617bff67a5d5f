----------------------------- MODULE PartsProofs -----------------------------
(***************************************************************************)
(* Proofs about the parts of an installation. A behaviour of Parts is one  *)
(* of one part's specification, with the other parts' variables idle: so   *)
(* what is proved of a part's specification, here or in the part's own     *)
(* module of proofs, holds of Parts.                                       *)
(***************************************************************************)
EXTENDS Parts, FiniteSetTheorems, TLAPS

(* No step changes to another part.                                        *)
LEMMA PartStays ==
  ASSUME [Next]_vars
  PROVE  UNCHANGED part
BY DEF Next, vars

(* A behaviour of the part "plugins" is one of the plugins; it stays in that part.*)
LEMMA PluginsPart == Spec => P!Spec \/ []~(part = "plugins")
<1>1. Init /\ part = "plugins" => P!Init
  BY DEF Init
<1>2. part = "plugins" /\ [Next]_vars => [P!Next]_(P!vars)
  BY DEF Next, vars, P!vars
<1>3. [Next]_vars => (part = "plugins" <=> (part = "plugins")')
  BY PartStays
<1> QED
  BY <1>1, <1>2, <1>3, PTL DEF Spec, P!Spec

(* A behaviour of the part "migration" is one of the upgrade; it stays in that part.*)
LEMMA MigrationPart == Spec => M!Spec \/ []~(part = "migration")
<1>1. Init /\ part = "migration" => M!Init
  BY DEF Init
<1>2. part = "migration" /\ [Next]_vars => [M!Next]_(M!vars)
  BY DEF Next, vars, M!vars
<1>3. [Next]_vars => (part = "migration" <=> (part = "migration")')
  BY PartStays
<1> QED
  BY <1>1, <1>2, <1>3, PTL DEF Spec, M!Spec

(* A behaviour of the part "fetch" is one of a download; it stays in that part.*)
LEMMA FetchPart == Spec => F!Spec \/ []~(part = "fetch")
<1>1. Init /\ part = "fetch" => F!Init
  BY DEF Init
<1>2. part = "fetch" /\ [Next]_vars => [F!Next]_(F!vars)
  BY DEF Next, vars, F!vars
<1>3. [Next]_vars => (part = "fetch" <=> (part = "fetch")')
  BY PartStays
<1> QED
  BY <1>1, <1>2, <1>3, PTL DEF Spec, F!Spec

(* A behaviour of the part "scan-all" is one of scan-all; it stays in that part.*)
LEMMA ScanAllPart == Spec => A!Spec \/ []~(part = "scan-all")
<1>1. Init /\ part = "scan-all" => A!Init
  BY DEF Init
<1>2. part = "scan-all" /\ [Next]_vars => [A!Next]_(A!vars)
  BY DEF Next, vars, A!vars
<1>3. [Next]_vars => (part = "scan-all" <=> (part = "scan-all")')
  BY PartStays
<1> QED
  BY <1>1, <1>2, <1>3, PTL DEF Spec, A!Spec

(* A behaviour of the part "feed" is one of the feed; it stays in that part.*)
LEMMA FeedPart == Spec => V!Spec \/ []~(part = "feed")
<1>1. Init /\ part = "feed" => V!Init
  BY DEF Init
<1>2. part = "feed" /\ [Next]_vars => [V!Next]_(V!vars)
  BY DEF Next, vars, V!vars
<1>3. [Next]_vars => (part = "feed" <=> (part = "feed")')
  BY PartStays
<1> QED
  BY <1>1, <1>2, <1>3, PTL DEF Spec, V!Spec

(* A behaviour of the part "policy" is one of the gate; it stays in that part.*)
LEMMA PolicyPart == Spec => G!Spec \/ []~(part = "policy")
<1>1. Init /\ part = "policy" => G!Init
  BY DEF Init
<1>2. part = "policy" /\ [Next]_vars => [G!Next]_(G!vars)
  BY DEF Next, vars, G!vars
<1>3. [Next]_vars => (part = "policy" <=> (part = "policy")')
  BY PartStays
<1> QED
  BY <1>1, <1>2, <1>3, PTL DEF Spec, G!Spec

(* A behaviour of the part "identity" is one of fingerprints; it stays in that part.*)
LEMMA IdentityPart == Spec => I!Spec \/ []~(part = "identity")
<1>1. Init /\ part = "identity" => I!Init
  BY DEF Init
<1>2. part = "identity" /\ [Next]_vars => [I!Next]_(I!vars)
  BY DEF Next, vars, I!vars
<1>3. [Next]_vars => (part = "identity" <=> (part = "identity")')
  BY PartStays
<1> QED
  BY <1>1, <1>2, <1>3, PTL DEF Spec, I!Spec

(* A behaviour of the part "endpoint" is one of an endpoint; it stays in that part.*)
LEMMA EndpointPart == Spec => E!Spec \/ []~(part = "endpoint")
<1>1. Init /\ part = "endpoint" => E!Init
  BY DEF Init
<1>2. part = "endpoint" /\ [Next]_vars => [E!Next]_(E!vars)
  BY DEF Next, vars, E!vars
<1>3. [Next]_vars => (part = "endpoint" <=> (part = "endpoint")')
  BY PartStays
<1> QED
  BY <1>1, <1>2, <1>3, PTL DEF Spec, E!Spec

(* A behaviour of the part "probe" is one of a probe; it stays in that part.*)
LEMMA ProbePart == Spec => B!Spec \/ []~(part = "probe")
<1>1. Init /\ part = "probe" => B!Init
  BY DEF Init
<1>2. part = "probe" /\ [Next]_vars => [B!Next]_(B!vars)
  BY DEF Next, vars, B!vars
<1>3. [Next]_vars => (part = "probe" <=> (part = "probe")')
  BY PartStays
<1> QED
  BY <1>1, <1>2, <1>3, PTL DEF Spec, B!Spec

(* A behaviour of the part "differ" is one of the differ; it stays in that part.*)
LEMMA DifferPart == Spec => D!Spec \/ []~(part = "differ")
<1>1. Init /\ part = "differ" => D!Init
  BY DEF Init
<1>2. part = "differ" /\ [Next]_vars => [D!Next]_(D!vars)
  BY DEF Next, vars, D!vars
<1>3. [Next]_vars => (part = "differ" <=> (part = "differ")')
  BY PartStays
<1> QED
  BY <1>1, <1>2, <1>3, PTL DEF Spec, D!Spec

(* A behaviour of the part "dependencies" is one of a project's dependencies; it stays in that part.*)
LEMMA DependenciesPart == Spec => S!Spec \/ []~(part = "dependencies")
<1>1. Init /\ part = "dependencies" => S!Init
  BY DEF Init
<1>2. part = "dependencies" /\ [Next]_vars => [S!Next]_(S!vars)
  BY DEF Next, vars, S!vars
<1>3. [Next]_vars => (part = "dependencies" <=> (part = "dependencies")')
  BY PartStays
<1> QED
  BY <1>1, <1>2, <1>3, PTL DEF Spec, S!Spec

(* A behaviour of the part "rules" is one of a tool that says more and more; it stays in that part.*)
LEMMA RulesPart == Spec => R!Spec \/ []~(part = "rules")
<1>1. Init /\ part = "rules" => R!Init
  BY DEF Init
<1>2. part = "rules" /\ [Next]_vars => [R!Next]_(R!vars)
  BY DEF Next, vars, R!vars
<1>3. [Next]_vars => (part = "rules" <=> (part = "rules")')
  BY PartStays
<1> QED
  BY <1>1, <1>2, <1>3, PTL DEF Spec, R!Spec

(* A behaviour of the part "context" is one of the analysis of several servers; it stays in that part.*)
LEMMA ContextPart == Spec => C!Spec \/ []~(part = "context")
<1>1. Init /\ part = "context" => C!Init
  BY DEF Init
<1>2. part = "context" /\ [Next]_vars => [C!Next]_(C!vars)
  BY DEF Next, vars, C!vars
<1>3. [Next]_vars => (part = "context" <=> (part = "context")')
  BY PartStays
<1> QED
  BY <1>1, <1>2, <1>3, PTL DEF Spec, C!Spec

(* The module's count of a set is that of the library's theorems.          *)
LEMMA CountedAlike == \A Z : A!Cardinality(Z) = Cardinality(Z)
BY DEF A!Cardinality, Cardinality

(* The servers counted by the semaphore are a finite set.                  *)
LEMMA ScanningIsFinite ==
  ASSUME A!ScanAllAssumption
  PROVE  \A s : IsFiniteSet(A!In(s))
<1>1. IsFiniteSet(1..Count)
  BY FS_Interval DEF A!ScanAllAssumption
<1> QED
  BY <1>1, FS_Subset DEF A!In, A!Configured

(* TypeOK and EveryServerAnswered, with the type of what never changes,    *)
(* and where the scans stand once results are told: in parallel all have   *)
(* ended, in sequence none has begun.                                      *)
Settled == {"report", "error"}
ScanAllInv ==
  /\ limit \in Limits /\ parallel \in BOOLEAN
  /\ ended \in {"no", "yes", "raised"}
  /\ parallel /\ (next # 1 \/ ended # "no") => \A i \in A!Configured : state[i] \in Settled
  /\ ~parallel => \A i \in A!Configured : state[i] = "new"
  /\ ~parallel => ended # "raised"
  /\ A!TypeOK
  /\ A!EveryServerAnswered

(* Initially nobody is scanned and nobody answered.                        *)
LEMMA ScanAllInit ==
  ASSUME A!ScanAllAssumption, A!Init
  PROVE  ScanAllInv
<1>1. A!In("scanning") = {} /\ 1..0 = {}
  BY DEF A!Init, A!In
<1>2. A!Cardinality(A!In("scanning")) = 0
  BY <1>1, CountedAlike, FS_EmptySet
<1>3. A!TypeOK
  BY <1>2 DEF A!Init, A!TypeOK, A!ScanAllAssumption
<1>4. A!EveryServerAnswered
  BY <1>1 DEF A!Init, A!EveryServerAnswered
<1> QED
  BY <1>3, <1>4 DEF A!Init, ScanAllInv

(* While a scan goes on nothing is told yet, so that its end keeps the     *)
(* invariant but for the type.                                             *)
LEMMA StepKeepsResults ==
  ASSUME A!ScanAllAssumption, ScanAllInv, NEW i \in A!Configured,
         state[i] \notin Settled, parallel, NEW s,
         state' = [state EXCEPT ![i] = s],
         UNCHANGED <<parallel, limit, next, saved, told, ended>>,
         A!TypeOK'
  PROVE  ScanAllInv'
<1>1. next = 1 /\ ended = "no" /\ 1..(next - 1) = {}
  BY DEF ScanAllInv
<1>2. saved = {} /\ told = {}
  BY <1>1 DEF ScanAllInv, A!EveryServerAnswered
<1>3. A!EveryServerAnswered'
  BY <1>1, <1>2 DEF A!EveryServerAnswered
<1> QED
  BY <1>1, <1>3 DEF ScanAllInv

(* One more is scanned at most, and only where the semaphore has room.     *)
LEMMA EnterKeepsLimit ==
  ASSUME A!ScanAllAssumption, ScanAllInv, NEW i \in A!Configured, A!Enter(i)
  PROVE  A!TypeOK'
<1>1. A!In("scanning")' = A!In("scanning") \cup {i} /\ i \notin A!In("scanning")
  BY DEF A!Enter, A!In, ScanAllInv, A!TypeOK
<1>2. A!Cardinality(A!In("scanning")') = A!Cardinality(A!In("scanning")) + 1
  BY <1>1, ScanningIsFinite, CountedAlike, FS_AddElement
<1>3. A!Cardinality(A!In("scanning")) \in Nat /\ limit \in Nat
  BY ScanningIsFinite, CountedAlike, FS_CardinalityType DEF ScanAllInv, A!ScanAllAssumption
<1>4. A!Cardinality(A!In("scanning")') <= limit'
  BY <1>2, <1>3 DEF A!Enter
<1> QED
  BY <1>4 DEF A!Enter, ScanAllInv, A!TypeOK

(* A task that is made, and one that ends, take no place.                  *)
LEMMA OthersKeepLimit ==
  ASSUME A!ScanAllAssumption, ScanAllInv, NEW i \in A!Configured,
         A!Create(i) \/ A!Finish(i)
  PROVE  A!TypeOK'
<1>1. A!In("scanning")' \subseteq A!In("scanning")
  BY DEF A!Create, A!Finish, A!In, ScanAllInv, A!TypeOK
<1>2. A!Cardinality(A!In("scanning")') <= A!Cardinality(A!In("scanning"))
  BY <1>1, ScanningIsFinite, CountedAlike, FS_Subset
<1>3. /\ A!Cardinality(A!In("scanning")) \in Nat /\ limit \in Nat
      /\ A!Cardinality(A!In("scanning")') \in Nat
  BY <1>1, ScanningIsFinite, CountedAlike, FS_CardinalityType, FS_Subset
  DEF ScanAllInv, A!ScanAllAssumption
<1>4. UNCHANGED limit /\ A!Cardinality(A!In("scanning")) <= limit
  BY DEF A!Create, A!Finish, ScanAllInv, A!TypeOK
<1>5. A!Cardinality(A!In("scanning")') <= limit'
  BY <1>2, <1>3, <1>4
<1>6. state' \in [A!Configured -> {"new", "waiting", "scanning", "report", "error"}]
  BY DEF A!Create, A!Finish, ScanAllInv, A!TypeOK
<1> QED
  BY <1>5, <1>6 DEF A!Create, A!Finish, ScanAllInv, A!TypeOK

(* Results are told one by one, each to the server it belongs to.          *)
LEMMA TellingKeepsInv ==
  ASSUME A!ScanAllAssumption, ScanAllInv, A!Tell \/ A!TellRaises \/ A!Refuse \/ A!Return
  PROVE  ScanAllInv'
<1>1. UNCHANGED <<parallel, limit, state>>
  BY DEF A!Tell, A!TellRaises, A!Refuse, A!Return
<1>2. \A s : A!In(s)' = A!In(s)
  BY <1>1 DEF A!In
<1>3. next \in 1..(Count + 1) /\ Count \in Nat /\ A!Configured = 1..Count
  BY DEF ScanAllInv, A!TypeOK, A!ScanAllAssumption, A!Configured
<1>4. A!Gathered =>
        /\ \A i \in A!Configured : state[i] \in Settled
        /\ A!In("report") \cup A!In("error") = A!Configured
        /\ A!In("report") \cap A!In("error") = {}
  BY DEF A!Gathered, A!In, Settled
<1>5. A!In("report") \subseteq A!Configured
  BY DEF A!In
<1>6. saved \subseteq A!Configured /\ told \subseteq A!Configured
  BY DEF ScanAllInv, A!TypeOK
<1>7. CASE A!Tell
  <2>1. /\ next \in A!Configured /\ next' = next + 1 /\ A!Gathered
        /\ ended = "no" /\ UNCHANGED ended
    BY <1>7 DEF A!Tell, A!Turn
  <2>2. 1..(next' - 1) = (1..(next - 1)) \cup {next} /\ next' \in 1..(Count + 1)
    BY <1>3, <2>1
  <2>3. A!TypeOK'
    <3>1. saved' \subseteq A!Configured /\ told' \subseteq A!Configured
      BY <1>6, <1>7, <2>1 DEF A!Tell
    <3> QED
      BY <1>1, <1>2, <2>2, <3>1 DEF ScanAllInv, A!TypeOK
  <2>4. A!EveryServerAnswered'
    <3>1. CASE state[next] = "report"
      <4>1. saved' = saved \cup {next} /\ UNCHANGED told
        BY <1>7, <3>1 DEF A!Tell
      <4>2. next \in A!In("report") /\ next \notin A!In("error")
        BY <2>1, <3>1 DEF A!In
      <4> QED
        BY <1>1, <1>2, <2>1, <2>2, <4>1, <4>2 DEF A!Gathered, ScanAllInv, A!EveryServerAnswered
    <3>2. CASE state[next] # "report"
      <4>1. told' = told \cup {next} /\ UNCHANGED saved
        BY <1>7, <3>2 DEF A!Tell
      <4>2. next \notin A!In("report") /\ next \in A!In("error")
        BY <1>4, <2>1, <3>2 DEF A!In
      <4> QED
        BY <1>1, <1>2, <2>1, <2>2, <4>1, <4>2 DEF A!Gathered, ScanAllInv, A!EveryServerAnswered
    <3> QED
      BY <3>1, <3>2
  <2> QED
    BY <1>1, <1>4, <2>1, <2>3, <2>4 DEF A!Gathered, ScanAllInv
<1>8. CASE A!TellRaises
  <2>1. /\ next \in A!Configured /\ UNCHANGED <<next, told>> /\ A!Gathered
        /\ ended = "no" /\ ended' = "raised"
        /\ UNCHANGED saved \/ (state[next] = "report" /\ saved' = saved \cup {next})
    BY <1>8 DEF A!TellRaises, A!Turn
  <2>2. A!TypeOK'
    BY <1>1, <1>2, <2>1 DEF ScanAllInv, A!TypeOK
  <2>3. state[next] = "report" => next \in A!In("report")
    BY <2>1 DEF A!In
  <2>4. A!EveryServerAnswered'
    BY <1>1, <1>2, <2>1, <2>3 DEF ScanAllInv, A!EveryServerAnswered
  <2> QED
    BY <1>1, <1>4, <2>1, <2>2, <2>4 DEF A!Gathered, ScanAllInv
<1>9. CASE A!Refuse
  <2>1. /\ next \in A!Configured /\ next' = next + 1 /\ ~parallel
        /\ ended = "no" /\ UNCHANGED <<ended, saved>> /\ told' = told \cup {next}
    BY <1>9 DEF A!Refuse, A!Turn
  <2>2. 1..(next' - 1) = (1..(next - 1)) \cup {next} /\ next' \in 1..(Count + 1)
    BY <1>3, <2>1
  <2>3. A!TypeOK'
    BY <1>1, <1>2, <1>6, <2>1, <2>2 DEF ScanAllInv, A!TypeOK
  <2>4. A!In("report") = {}
    BY <2>1 DEF A!In, ScanAllInv
  <2>5. A!EveryServerAnswered'
    BY <1>1, <1>2, <2>1, <2>2, <2>4 DEF ScanAllInv, A!EveryServerAnswered
  <2> QED
    BY <1>1, <2>1, <2>3, <2>5 DEF ScanAllInv
<1>10. CASE A!Return
  <2>1. /\ ended = "no" /\ ended' = "yes" /\ next = Count + 1
        /\ UNCHANGED <<next, saved, told>>
    BY <1>10 DEF A!Return
  <2>2. 1..(next - 1) = A!Configured
    BY <1>3, <2>1
  <2>3. A!TypeOK'
    BY <1>1, <1>2, <2>1 DEF ScanAllInv, A!TypeOK
  <2>4. parallel => \A i \in A!Configured : state[i] \in Settled
    <3>1. Count = 0 => A!Configured = {}
      BY <1>3
    <3>2. Count # 0 => next # 1
      BY <1>3, <2>1
    <3> QED
      BY <3>1, <3>2 DEF ScanAllInv
  <2>5. parallel => A!In("report") \cup A!In("error") = A!Configured
    BY <2>4 DEF A!In, Settled
  <2>6. saved \cup told = A!Configured
    BY <1>5, <2>1, <2>2, <2>5, <1>6 DEF ScanAllInv, A!EveryServerAnswered
  <2>7. A!EveryServerAnswered'
    BY <1>1, <1>2, <2>1, <2>6 DEF ScanAllInv, A!EveryServerAnswered
  <2> QED
    BY <1>1, <2>1, <2>3, <2>4, <2>7 DEF ScanAllInv
<1> QED
  BY <1>7, <1>8, <1>9, <1>10

(* The inductive invariant of scan-all: however the scans and the answers  *)
(* interleave, results are told only when all scans have ended, each to    *)
(* its server (engine.py:525-566, cli.py:1123-1166).                       *)
THEOREM ScanAllInvariant ==
  ASSUME A!ScanAllAssumption
  PROVE  A!Spec => []ScanAllInv
<1>1. A!Init => ScanAllInv
  BY ScanAllInit
<1>2. ScanAllInv /\ [A!Next]_(A!vars) => ScanAllInv'
  <2> SUFFICES ASSUME ScanAllInv, [A!Next]_(A!vars) PROVE ScanAllInv'
    OBVIOUS
  <2>1. ASSUME NEW i \in A!Configured, A!Create(i) PROVE ScanAllInv'
    BY <2>1, OthersKeepLimit, StepKeepsResults DEF A!Create, Settled
  <2>2. ASSUME NEW i \in A!Configured, A!Enter(i) PROVE ScanAllInv'
    BY <2>2, EnterKeepsLimit, StepKeepsResults DEF A!Enter, Settled, ScanAllInv
  <2>3. ASSUME NEW i \in A!Configured, A!Finish(i) PROVE ScanAllInv'
    <3>1. PICK s : state' = [state EXCEPT ![i] = s]
      BY <2>3 DEF A!Finish
    <3>2. parallel
      BY <2>3 DEF A!Finish, ScanAllInv
    <3> QED
      BY <2>3, <3>1, <3>2, OthersKeepLimit, StepKeepsResults DEF A!Finish, Settled
  <2>4. CASE A!Tell \/ A!TellRaises \/ A!Refuse \/ A!Return
    BY <2>4, TellingKeepsInv
  <2>5. CASE UNCHANGED A!vars
    BY <2>5 DEF A!vars, ScanAllInv, A!TypeOK, A!EveryServerAnswered, A!In
  <2> QED
    BY <2>1, <2>2, <2>3, <2>4, <2>5 DEF A!Next
<1> QED
  BY <1>1, <1>2, PTL DEF A!Spec

(* At most --max-concurrency servers are scanned at once                   *)
(* (engine.py:522-541), and the rest is of its type.                       *)
THEOREM ScanAllTypes ==
  ASSUME A!ScanAllAssumption
  PROVE  A!Spec => []A!TypeOK
<1>1. ScanAllInv => A!TypeOK
  BY DEF ScanAllInv
<1> QED
  BY <1>1, ScanAllInvariant, PTL

(* However the scans end and whatever saves fail, no server gets the       *)
(* result of another and none is left out (engine.py:525-566).             *)
THEOREM ResultsMeetServers ==
  ASSUME A!ScanAllAssumption
  PROVE  A!Spec => []A!EveryServerAnswered
<1>1. ScanAllInv => A!EveryServerAnswered
  BY DEF ScanAllInv
<1> QED
  BY <1>1, ScanAllInvariant, PTL

(* However plugins are installed, removed and disturbed, the manifest      *)
(* lists none whose directory was not filled and validated                 *)
(* (plugin/manager.py:46-126).                                             *)
THEOREM PluginsListed == Spec => []ListedIsWhole
<1>1. P!Spec => []P!ListedIsWhole
  BY PartsAssumption, P!EntriesAreWhole
<1>2. P!ListedIsWhole \/ ~(part = "plugins") => ListedIsWhole
  BY DEF ListedIsWhole
<1> QED
  BY <1>1, <1>2, PluginsPart, PTL

(* What a plugin command said stays true until another command changes it  *)
(* (plugin/manager.py:128-184).                                            *)
THEOREM PluginsTold == Spec => []AnswersHold
<1>1. P!Spec => []P!AnswersHold
  BY PartsAssumption, P!AnswersAreTrue
<1>2. P!AnswersHold \/ ~(part = "plugins") => AnswersHold
  BY DEF AnswersHold
<1> QED
  BY <1>1, <1>2, PluginsPart, PTL

(* A command never works on a half-upgraded database, whatever crashed     *)
(* before it (storage/store.py:124-184).                                   *)
THEOREM UpgradeOpens == Spec => []OpenHasAll
<1>1. M!Spec => []M!OpenHasAll
  BY PartsAssumption, M!UpgradesAreWhole
<1>2. M!OpenHasAll \/ ~(part = "migration") => OpenHasAll
  BY DEF OpenHasAll
<1> QED
  BY <1>1, <1>2, MigrationPart, PTL

(* The database that an upgrade replaces can be had back                   *)
(* (storage/store.py:128-135).                                             *)
THEOREM UpgradeKeepsBackup == Spec => []WayBack
<1>1. M!Spec => []M!WayBack
  BY PartsAssumption, M!BackupIsKept
<1>2. M!WayBack \/ ~(part = "migration") => WayBack
  BY DEF WayBack
<1> QED
  BY <1>1, <1>2, MigrationPart, PTL

(* A sync that claims to be whole has asked for every severity of every    *)
(* period since the last one (cvefeed/syncer.py:97-187).                   *)
THEOREM FeedIsThorough == Spec => []SyncIsThorough
<1>1. V!Spec => []V!SyncIsThorough
  BY PartsAssumption, V!SyncAsksForAll
<1>2. V!SyncIsThorough \/ ~(part = "feed") => SyncIsThorough
  BY DEF SyncIsThorough
<1> QED
  BY <1>1, <1>2, FeedPart, PTL

(* What one process at a time has synced stays in the feed                 *)
(* (cvefeed/syncer.py:119-146).                                            *)
THEOREM FeedKeepsAll == Spec => []NeverForgets
<1>1. V!Spec => []V!NeverForgets
  BY PartsAssumption, V!NothingForgotten
<1>2. V!NeverForgets \/ ~(part = "feed") => NeverForgets
  BY DEF NeverForgets
<1> QED
  BY <1>1, <1>2, FeedPart, PTL

(* Whatever scans end first and whatever saves fail, no server gets the    *)
(* result of another and none is left out (engine.py:525-566).             *)
THEOREM ScansMeetServers == Spec => []EveryServerAnswered
<1>1. A!EveryServerAnswered \/ ~(part = "scan-all") => EveryServerAnswered
  BY DEF EveryServerAnswered
<1>2. A!ScanAllAssumption
  BY PartsAssumption
<1> QED
  BY <1>1, <1>2, ResultsMeetServers, ScanAllPart, PTL

(* Appending makes a sequence one longer and keeps what was there.         *)
LEMMA Appended ==
  ASSUME NEW s, F!IsSequence(s), NEW x
  PROVE  /\ Append(s, x) # <<>>
         /\ F!IsSequence(Append(s, x))
         /\ Len(s) \in Nat /\ Len(Append(s, x)) = Len(s) + 1
         /\ DOMAIN s = 1..Len(s) /\ DOMAIN Append(s, x) = 1..(Len(s) + 1)
         /\ \A i \in 1..Len(s) : Append(s, x)[i] = s[i]
         /\ Append(s, x)[Len(s) + 1] = x
<1> DEFINE Elems == {s[i] : i \in DOMAIN s}
<1>1. s \in Seq(Elems \cup {x})
  BY DEF F!IsSequence
<1>2. Append(s, x) \in Seq(Elems \cup {x})
  BY <1>1
<1>3. /\ Append(s, x) # <<>>
      /\ Len(s) \in Nat /\ Len(Append(s, x)) = Len(s) + 1
      /\ DOMAIN s = 1..Len(s) /\ DOMAIN Append(s, x) = 1..(Len(s) + 1)
      /\ \A i \in 1..Len(s) : Append(s, x)[i] = s[i]
      /\ Append(s, x)[Len(s) + 1] = x
  BY <1>1
<1>4. F!IsSequence(Append(s, x))
  <2>1. \A i \in 1..(Len(s) + 1) : Append(s, x)[i] \in {Append(s, x)[j] : j \in DOMAIN Append(s, x)}
    BY <1>3
  <2> QED
    BY <1>2, <1>3, <2>1 DEF F!IsSequence
<1> QED
  BY <1>3, <1>4

(* The places of a sequence are numbered.                                  *)
LEMMA Numbered ==
  ASSUME NEW s, F!IsSequence(s)
  PROVE  Len(s) \in Nat /\ DOMAIN s = 1..Len(s)
BY DEF F!IsSequence

(* A sequence without elements has no prefix but itself.                   *)
LEMMA Empty ==
  /\ F!IsSequence(<<>>) /\ Len(<<>>) = 0
BY DEF F!IsSequence

(* A beginning of a sequence grows by the next element into a beginning.   *)
LEMMA PrefixGrows ==
  ASSUME NEW s, F!IsSequence(s), NEW t, F!IsSequence(t),
         t = SubSeq(s, 1, Len(t)), Len(t) < Len(s)
  PROVE  Append(t, s[Len(t) + 1]) = SubSeq(s, 1, Len(t) + 1)
<1> DEFINE Elems == {s[i] : i \in DOMAIN s}
<1>1. s \in Seq(Elems) /\ Len(t) \in Nat /\ Len(t) + 1 \in 1..Len(s)
  BY DEF F!IsSequence
<1>2. SubSeq(s, 1, Len(t) + 1) \in Seq(Elems) /\ t \in Seq(Elems)
  <2> HIDE DEF Elems
  <2>1. \A n \in 0..Len(s) : SubSeq(s, 1, n) \in Seq(Elems)
    BY <1>1
  <2>2. Len(t) \in 0..Len(s) /\ Len(t) + 1 \in 0..Len(s)
    BY <1>1
  <2>3. t = SubSeq(s, 1, Len(t))
    OBVIOUS
  <2> QED
    BY <2>1, <2>2, <2>3, Zenon
<1>3. s[Len(t) + 1] \in Elems
  BY <1>1
<1> HIDE DEF Elems
<1>4. Append(t, s[Len(t) + 1]) \in Seq(Elems)
  BY <1>2, <1>3
<1>5. Len(SubSeq(s, 1, Len(t) + 1)) = Len(t) + 1 /\ Len(Append(t, s[Len(t) + 1])) = Len(t) + 1
  BY <1>1, <1>2, <1>3
<1>6. \A i \in 1..(Len(t) + 1) : Append(t, s[Len(t) + 1])[i] = SubSeq(s, 1, Len(t) + 1)[i]
  <2> SUFFICES ASSUME NEW i \in 1..(Len(t) + 1)
               PROVE  Append(t, s[Len(t) + 1])[i] = SubSeq(s, 1, Len(t) + 1)[i]
    OBVIOUS
  <2>1. SubSeq(s, 1, Len(t) + 1)[i] = s[i]
    BY <1>1
  <2>2. CASE i = Len(t) + 1
    BY <1>1, <1>2, <1>3, <2>1, <2>2
  <2>3. CASE i \in 1..Len(t)
    <3>1. SubSeq(s, 1, Len(t))[i] = s[i]
      BY <1>1, <2>3
    <3> QED
      BY <1>1, <1>2, <1>3, <2>1, <2>3, <3>1
  <2> QED
    BY <1>1, <2>2, <2>3
<1> QED
  BY <1>2, <1>4, <1>5, <1>6

(* How many URLs may have been asked for by now.                           *)
Budget ==
  CASE pc[1] \in {"none", "git"} -> 0
    [] pc[1] = "metadata" -> hop + IF pc[2] = "validating" THEN 0 ELSE 1
    [] pc[1] = "package" -> MaxRedirects + 1 + hop + IF pc[2] = "validating" THEN 0 ELSE 1

(* What is asked for was looked at, and stays within the bounds.           *)
FetchBounds ==
  /\ \A i \in DOMAIN asked : F!MayPass(asked[i])
  /\ Len(asked) <= Budget
  /\ body <= F!Limit + IF pc[2] = "failed" THEN 1 ELSE 0

(* Members of a whole archive that passed every check.                     *)
VettedFetch ==
  /\ checked = Len(artifact.members)
  /\ \A i \in DOMAIN artifact.members : F!SafeMember(artifact.members[i])
  /\ artifact.members # <<>> => F!SizeOf(artifact.members) <= MaxExpanded
  /\ F!SizeOf(artifact.members) <= body * MaxRatio

(* What is on disk when a fetch is somewhere: nothing before all of the    *)
(* archive has passed, then a beginning of it.                             *)
DiskOfFetch ==
  LET verified == /\ artifact.digest = answer.holds.digest
                  /\ F!IsSequence(artifact.members)
      begun == /\ VettedFetch
               /\ disk = SubSeq(artifact.members, 1, Len(disk)) /\ Len(disk) <= checked
      nothing == disk = <<>> /\ provenance = NONE
  IN CASE pc[2] \in {"idle", "validating", "answered", "reading"} ->
            nothing /\ checked = 0
       [] pc[2] = "checking" ->
            /\ nothing /\ verified
            /\ checked <= Len(artifact.members)
            /\ \A i \in 1..checked : F!SafeMember(artifact.members[i])
            /\ checked # 0 => F!SizeOf(SubSeq(artifact.members, 1, checked)) <= MaxExpanded
       [] pc[2] = "extracting" ->
            verified /\ begun /\ provenance = NONE
       [] pc[2] = "done" /\ pc[1] # "git" ->
            /\ verified /\ begun /\ Len(disk) = checked
            /\ provenance.digest = answer.holds.digest
       [] pc[2] = "failed" /\ pc[1] # "git" -> provenance = NONE /\ (disk = <<>> \/ begun)
       [] OTHER -> TRUE

(* What is being read is an answer that the URL may give.                  *)
FetchHears ==
  pc[2] \in {"answered", "reading"} => url \in DOMAIN Web /\ answer \in Web[url]

FetchInv == F!TypeOK /\ FetchBounds /\ FetchHears /\ DiskOfFetch

(* The beginning: nothing is asked for, nothing on disk.                   *)
LEMMA FetchInit ==
  ASSUME F!Init
  PROVE  FetchInv
<1>1. F!TypeOK
  BY PartsAssumption, Empty DEF F!Init, F!TypeOK, F!Places, F!FetchAssumption
<1>2. FetchBounds
  BY PartsAssumption, Empty
  DEF F!Init, FetchBounds, Budget, F!Limit, F!FetchAssumption
<1>3. DiskOfFetch
  BY DEF F!Init, DiskOfFetch
<1>5. FetchHears
  BY DEF F!Init, FetchHears
<1> QED
  BY <1>1, <1>2, <1>3, <1>5 DEF FetchInv

(* The bounds are numbers.                                                 *)
LEMMA FetchNumbers ==
  /\ MaxRedirects \in Nat /\ JsonBytes \in Nat /\ PackageBytes \in Nat
  /\ MaxExpanded \in Nat /\ MaxRatio \in Nat
  /\ F!Limit \in Nat
BY PartsAssumption DEF F!FetchAssumption, F!Limit

(* A fetch that fails leaves everything as it is.                          *)
LEMMA FetchFails ==
  ASSUME FetchInv, F!Fail, pc[2] # "done"
  PROVE  FetchInv'
<1>1. pc' = <<pc[1], "failed">> /\ pc \in F!Places
      /\ UNCHANGED <<ref, url, hop, body, answer, asked, artifact, checked, disk, provenance>>
  BY DEF FetchInv, F!TypeOK, F!Fail, F!web, F!tree
<1>2. F!TypeOK'
  BY <1>1 DEF FetchInv, F!TypeOK, F!Places
<1>3. FetchBounds'
  <2>1. F!Limit' = F!Limit /\ F!Limit \in Nat /\ body \in Nat
    BY <1>1, FetchNumbers DEF F!Limit, FetchInv, F!TypeOK
  <2>2. Budget <= Budget' /\ Len(asked) <= Budget'
    BY <1>1, FetchNumbers DEF FetchInv, F!TypeOK, F!Places, FetchBounds, Budget, F!IsSequence
  <2> QED
    BY <1>1, <2>1, <2>2 DEF FetchInv, FetchBounds, F!MayPass, F!Validate
<1>4. DiskOfFetch'
  BY <1>1 DEF FetchInv, DiskOfFetch, VettedFetch, F!Places
<1>5. FetchHears'
  BY <1>1 DEF FetchHears
<1> QED
  BY <1>2, <1>3, <1>4, <1>5 DEF FetchInv

(* The next thing asked for is within the budget; nothing is on disk yet.  *)
LEMMA FetchStarts ==
  ASSUME FetchInv, F!Start
  PROVE  FetchInv'
<1>1. pc = <<"none", "idle">> /\ disk = <<>> /\ checked = 0 /\ provenance = NONE
      /\ Len(asked) = 0
  BY FetchNumbers
  DEF FetchInv, F!TypeOK, F!Places, F!Start, F!Doing, DiskOfFetch, FetchBounds, Budget, F!IsSequence
<1>2. /\ UNCHANGED <<ref, asked, artifact, checked, disk, provenance>>
      /\ hop' \in {hop, 0} /\ body' \in {body, 0}
      /\ \/ pc' = <<"metadata", "validating">> /\ hop' = 0 /\ body' = 0
         \/ pc' = <<"git", "running">>
  BY DEF F!Start, F!Get, F!web, F!tree
<1>3. F!TypeOK'
  BY <1>1, <1>2, FetchNumbers DEF FetchInv, F!TypeOK, F!Places
<1>4. FetchBounds'
  <2>1. body' <= F!Limit'
    <3>1. CASE pc' = <<"metadata", "validating">>
      BY <1>2, <3>1, FetchNumbers DEF F!Limit
    <3>2. CASE pc' = <<"git", "running">>
      BY <1>1, <1>2, <3>2, FetchNumbers DEF FetchInv, F!TypeOK, FetchBounds, F!Limit
    <3> QED
      BY <1>2, <3>1, <3>2
  <2>2. Len(asked') <= Budget' /\ pc'[2] # "failed"
    BY <1>1, <1>2 DEF Budget
  <2>3. F!Limit' \in Nat
    BY FetchNumbers DEF F!Limit
  <2> QED
    BY <1>2, <2>1, <2>2, <2>3 DEF FetchInv, FetchBounds
<1>5. DiskOfFetch'
  BY <1>1, <1>2 DEF DiskOfFetch
<1>6. FetchHears'
  BY <1>2 DEF FetchHears
<1> QED
  BY <1>3, <1>4, <1>5, <1>6 DEF FetchInv

(* A URL that may pass is asked for, once for each hop.                    *)
LEMMA FetchAsks ==
  ASSUME FetchInv, F!Ask
  PROVE  FetchInv'
<1>1. /\ pc[2] = "validating" /\ pc' = <<pc[1], "answered">> /\ F!MayPass(url)
      /\ asked' = Append(asked, url) /\ url \in DOMAIN Web /\ answer' \in Web[url]
      /\ UNCHANGED <<ref, url, hop, body, artifact, checked, disk, provenance>>
  BY DEF F!Ask, F!Doing, F!Then, F!tree
<1>2. F!TypeOK'
  BY <1>1, Appended DEF FetchInv, F!TypeOK, F!Places
<1>3. FetchBounds'
  <2>1. F!IsSequence(asked)
    BY DEF FetchInv, F!TypeOK
  <2>2. \A i \in DOMAIN asked' : F!MayPass(asked'[i])
    BY <1>1, <2>1, Appended DEF FetchInv, FetchBounds
  <2>3. Len(asked') <= Budget'
    BY <1>1, <2>1, Appended, FetchNumbers
    DEF FetchInv, F!TypeOK, F!Places, FetchBounds, Budget
  <2>4. body' <= F!Limit' + IF pc'[2] = "failed" THEN 1 ELSE 0
    BY <1>1, FetchNumbers DEF FetchInv, F!TypeOK, F!Places, FetchBounds, F!Limit
  <2> QED
    BY <2>2, <2>3, <2>4 DEF FetchBounds
<1>4. DiskOfFetch'
  BY <1>1 DEF FetchInv, DiskOfFetch
<1>5. FetchHears'
  BY <1>1 DEF FetchHears
<1> QED
  BY <1>2, <1>3, <1>4, <1>5 DEF FetchInv

(* Of a redirect, a response that is accepted and a chunk of it.           *)
LEMMA FetchReads ==
  ASSUME FetchInv, F!Redirect \/ F!Accept \/ F!ReadChunk
  PROVE  FetchInv'
<1> SUFFICES ASSUME ~F!Fail PROVE FetchInv'
  BY FetchFails DEF F!Redirect, F!Accept, F!ReadChunk, F!Doing
<1>1. /\ UNCHANGED <<ref, asked, artifact, checked, disk, provenance>>
      /\ hop' \in 0..MaxRedirects /\ body' \in Nat
      /\ pc[2] \in {"answered", "reading"} /\ pc[1] \in {"metadata", "package"}
      /\ pc'[1] = pc[1] /\ pc' \in F!Places
      /\ pc'[2] \in {"validating", "reading", "failed"}
      /\ pc'[2] = "reading" => UNCHANGED <<url, answer>>
      /\ hop' = hop + IF pc'[2] = "validating" THEN 1 ELSE 0
      /\ body' <= F!Limit' + IF pc'[2] = "failed" THEN 1 ELSE 0
  <2>1. CASE F!Redirect
    BY <2>1, FetchNumbers
    DEF F!Redirect, F!Doing, F!Then, F!tree, FetchInv, F!TypeOK, F!Places, FetchBounds, F!Limit
  <2>2. CASE F!Accept
    BY <2>2, FetchNumbers
    DEF F!Accept, F!Doing, F!Then, F!tree, F!web, FetchInv, F!TypeOK, F!Places, FetchBounds, F!Limit
  <2>3. CASE F!ReadChunk
    BY <2>3, FetchNumbers
    DEF F!ReadChunk, F!Doing, F!Then, F!tree, FetchInv, F!TypeOK, F!Places, FetchBounds, F!Limit
  <2> QED
    BY <2>1, <2>2, <2>3
<1>2. F!TypeOK'
  BY <1>1 DEF FetchInv, F!TypeOK
<1>3. FetchBounds'
  <2>1. Len(asked') <= Budget'
    <3>4. hop \in 0..MaxRedirects /\ F!IsSequence(asked) /\ Len(asked) <= Budget
      BY DEF FetchInv, F!TypeOK, FetchBounds
    <3>0. /\ hop \in Nat /\ hop' \in Nat /\ Len(asked) \in Nat /\ Len(asked) <= Budget
      BY <1>1, <3>4, FetchNumbers, Numbered
    <3>1. CASE pc[1] = "metadata"
      <4>1. Budget = hop + 1
        BY <1>1, <3>1, <3>0 DEF Budget
      <4>2. Budget' = hop' + IF pc'[2] = "validating" THEN 0 ELSE 1
        BY <1>1, <3>1, <3>0 DEF Budget
      <4> QED
        BY <1>1, <3>0, <4>1, <4>2
    <3>2. CASE pc[1] = "package"
      <4>1. Budget = MaxRedirects + 1 + hop + 1
        BY <1>1, <3>2, <3>0, FetchNumbers DEF Budget
      <4>2. Budget' = MaxRedirects + 1 + hop' + IF pc'[2] = "validating" THEN 0 ELSE 1
        BY <1>1, <3>2, <3>0, FetchNumbers DEF Budget
      <4> QED
        BY <1>1, <3>0, <4>1, <4>2, FetchNumbers
    <3> QED
      BY <1>1, <3>1, <3>2
  <2> QED
    BY <1>1, <2>1 DEF FetchInv, FetchBounds
<1>4. DiskOfFetch'
  BY <1>1 DEF FetchInv, DiskOfFetch
<1>5. FetchHears'
  BY <1>1 DEF FetchInv, FetchHears
<1> QED
  BY <1>2, <1>3, <1>4, <1>5 DEF FetchInv

(* What asks for nothing and reads nothing keeps the bounds.               *)
LEMMA FetchBoundsStay ==
  ASSUME FetchInv, UNCHANGED <<asked, hop, body>>, pc'[1] = pc[1],
         pc[2] \notin {"validating", "failed"}, pc'[2] # "validating"
  PROVE  FetchBounds'
<1>1. F!Limit' = F!Limit /\ body \in Nat /\ F!Limit \in Nat
  BY FetchNumbers DEF F!Limit, FetchInv, F!TypeOK
<1>2. Budget' = Budget
  BY DEF Budget
<1> QED
  BY <1>1, <1>2 DEF FetchInv, FetchBounds

(* The metadata leads to an artifact and its digest.                       *)
LEMMA FetchTurns ==
  ASSUME FetchInv, F!ReadMetadata
  PROVE  FetchInv'
<1> SUFFICES ASSUME ~F!Fail PROVE FetchInv'
  BY FetchFails DEF F!ReadMetadata, F!Doing
<1>1. /\ pc = <<"metadata", "reading">> /\ pc' = <<"package", "validating">>
      /\ hop' = 0 /\ body' = 0 /\ UNCHANGED <<ref, asked, checked, disk, provenance>>
      /\ DOMAIN artifact' = {"digest", "members", "version"}
  BY DEF F!ReadMetadata, F!Get, F!Doing, FetchInv, F!TypeOK, F!Places
<1>2. F!TypeOK'
  BY <1>1, FetchNumbers DEF FetchInv, F!TypeOK, F!Places
<1>3. FetchBounds'
  <2>1. hop \in 0..MaxRedirects /\ Len(asked) \in Nat /\ Len(asked) <= hop + 1
    BY <1>1, Numbered DEF FetchInv, F!TypeOK, FetchBounds, Budget
  <2>2. Budget' = MaxRedirects + 1
    BY <1>1, FetchNumbers DEF Budget
  <2>3. body' <= F!Limit' + IF pc'[2] = "failed" THEN 1 ELSE 0
    BY <1>1, FetchNumbers DEF F!Limit
  <2> QED
    BY <1>1, <2>1, <2>2, <2>3, FetchNumbers DEF FetchInv, FetchBounds
<1>4. DiskOfFetch'
  BY <1>1 DEF FetchInv, DiskOfFetch
<1>5. FetchHears'
  BY <1>1 DEF FetchHears
<1> QED
  BY <1>2, <1>3, <1>4, <1>5 DEF FetchInv

(* A verified artifact is a sequence of members none of which is checked.  *)
LEMMA FetchVerifies ==
  ASSUME FetchInv, F!Verify
  PROVE  FetchInv'
<1> SUFFICES ASSUME ~F!Fail PROVE FetchInv'
  BY FetchFails DEF F!Verify, F!Doing
<1>1. /\ pc = <<"package", "reading">> /\ pc' = <<"package", "checking">>
      /\ UNCHANGED <<ref, url, hop, body, answer, asked, checked, disk, provenance>>
      /\ answer.holds.digest = artifact.digest /\ F!IsArchive(answer)
      /\ artifact' = [artifact EXCEPT !.members = answer.holds.members]
  BY DEF F!Verify, F!Then, F!Doing, F!web, FetchInv, F!TypeOK, F!Places
<1>2. F!TypeOK'
  BY <1>1, FetchNumbers DEF FetchInv, F!TypeOK, F!Places
<1>3. FetchBounds'
  BY <1>1, FetchBoundsStay
<1>4. DiskOfFetch'
  <2>1. F!IsSequence(answer.holds.members)
    BY <1>1, PartsAssumption DEF F!FetchAssumption, FetchInv, FetchHears
  <2> QED
    BY <1>1, <2>1, Numbered DEF FetchInv, DiskOfFetch
<1>5. FetchHears'
  BY <1>1 DEF FetchHears
<1> QED
  BY <1>2, <1>3, <1>4, <1>5 DEF FetchInv

(* One more member is looked at.                                           *)
LEMMA FetchChecks ==
  ASSUME FetchInv, F!CheckMember
  PROVE  FetchInv'
<1> SUFFICES ASSUME ~F!Fail PROVE FetchInv'
  BY FetchFails DEF F!CheckMember, F!Doing
<1>1. /\ pc = <<"package", "checking">> /\ checked < Len(artifact.members)
      /\ checked' = checked + 1 /\ F!SafeMember(artifact.members[checked + 1])
      /\ F!SizeOf(SubSeq(artifact.members, 1, checked + 1)) <= MaxExpanded
      /\ UNCHANGED <<pc, ref, url, hop, body, answer, asked, artifact, disk, provenance>>
  BY DEF F!CheckMember, F!Doing, F!web, FetchInv, F!TypeOK, F!Places
<1>2. /\ checked \in Nat /\ Len(artifact.members) \in Nat /\ disk = <<>>
      /\ \A i \in 1..checked : F!SafeMember(artifact.members[i])
  BY <1>1, Numbered DEF FetchInv, F!TypeOK, DiskOfFetch
<1>3. F!TypeOK'
  BY <1>1, <1>2, Empty DEF FetchInv, F!TypeOK
<1>4. FetchBounds'
  BY <1>1, FetchBoundsStay
<1>5. FetchHears'
  BY <1>1 DEF FetchHears
<1>6. DiskOfFetch'
  <2>1. \A i \in 1..(checked + 1) : F!SafeMember(artifact.members[i])
    BY <1>1, <1>2
  <2> QED
    BY <1>1, <1>2, <2>1 DEF FetchInv, DiskOfFetch
<1> QED
  BY <1>3, <1>4, <1>5, <1>6 DEF FetchInv

(* All members have passed, and extraction begins.                         *)
LEMMA FetchPasses ==
  ASSUME FetchInv, F!CheckRatio
  PROVE  FetchInv'
<1> SUFFICES ASSUME ~F!Fail PROVE FetchInv'
  BY FetchFails DEF F!CheckRatio, F!Doing
<1>1. /\ pc = <<"package", "checking">> /\ pc' = <<"package", "extracting">>
      /\ checked = Len(artifact.members)
      /\ F!SizeOf(artifact.members) <= body * MaxRatio
      /\ UNCHANGED <<ref, url, hop, body, answer, asked, artifact, checked, disk, provenance>>
  BY DEF F!CheckRatio, F!Doing, F!Then, F!web, F!tree, FetchInv, F!TypeOK, F!Places
<1>2. F!TypeOK'
  BY <1>1 DEF FetchInv, F!TypeOK, F!Places
<1>3. FetchBounds'
  BY <1>1, FetchBoundsStay
<1>4. FetchHears'
  BY <1>1 DEF FetchHears
<1>5. DiskOfFetch'
  <2>1. /\ F!IsSequence(artifact.members) /\ disk = <<>>
        /\ \A i \in 1..checked : F!SafeMember(artifact.members[i])
        /\ checked # 0 => F!SizeOf(SubSeq(artifact.members, 1, checked)) <= MaxExpanded
    BY <1>1 DEF FetchInv, DiskOfFetch
  <2>2. /\ SubSeq(artifact.members, 1, Len(artifact.members)) = artifact.members
        /\ SubSeq(artifact.members, 1, 0) = <<>>
        /\ artifact.members # <<>> => Len(artifact.members) # 0
    BY <2>1 DEF F!IsSequence
  <2>3. VettedFetch /\ disk = SubSeq(artifact.members, 1, Len(disk)) /\ Len(disk) = 0
    BY <1>1, <2>1, <2>2, Numbered, Empty DEF VettedFetch
  <2> QED
    BY <1>1, <2>3, <2>1, Numbered DEF FetchInv, DiskOfFetch, VettedFetch
<1> QED
  BY <1>2, <1>3, <1>4, <1>5 DEF FetchInv

(* One more member is written.                                             *)
LEMMA FetchExtracts ==
  ASSUME FetchInv, F!ExtractMember
  PROVE  FetchInv'
<1>1. /\ pc = <<"package", "extracting">> /\ Len(disk) < checked
      /\ disk' = Append(disk, artifact.members[Len(disk) + 1])
      /\ UNCHANGED <<pc, ref, url, hop, body, answer, asked, artifact, checked, provenance>>
  BY DEF F!ExtractMember, F!Doing, F!web, FetchInv, F!TypeOK, F!Places
<1>2. /\ F!IsSequence(disk) /\ F!IsSequence(artifact.members) /\ VettedFetch
      /\ disk = SubSeq(artifact.members, 1, Len(disk))
      /\ checked = Len(artifact.members)
  BY <1>1 DEF FetchInv, F!TypeOK, DiskOfFetch, VettedFetch
<1>3. /\ F!IsSequence(disk') /\ Len(disk') = Len(disk) + 1 /\ Len(disk) \in Nat
      /\ checked \in Nat
  BY <1>1, <1>2, Appended DEF FetchInv, F!TypeOK
<1>4. disk' = SubSeq(artifact.members, 1, Len(disk'))
  BY <1>1, <1>2, <1>3, PrefixGrows
<1>5. F!TypeOK'
  BY <1>1, <1>3 DEF FetchInv, F!TypeOK
<1>6. FetchBounds'
  BY <1>1, FetchBoundsStay
<1>7. FetchHears'
  BY <1>1 DEF FetchHears
<1>8. DiskOfFetch'
  BY <1>1, <1>2, <1>3, <1>4 DEF FetchInv, DiskOfFetch, VettedFetch
<1> QED
  BY <1>5, <1>6, <1>7, <1>8 DEF FetchInv

(* A step of git.                                                          *)
LEMMA FetchClones ==
  ASSUME FetchInv, F!Git
  PROVE  FetchInv'
<1>1. /\ pc = <<"git", "running">> /\ Len(disk) < Len(F!GitSteps)
      /\ disk' = Append(disk, F!GitSteps[Len(disk) + 1])
      /\ UNCHANGED <<pc, ref, url, hop, body, answer, asked, artifact, checked, provenance>>
  BY DEF F!Git, F!web
<1>2. /\ F!IsSequence(disk') /\ Len(disk') = Len(disk) + 1 /\ Len(disk) \in Nat
      /\ Len(F!GitSteps) = 4
  BY <1>1, Appended DEF FetchInv, F!TypeOK, F!GitSteps
<1>3. F!TypeOK'
  BY <1>1, <1>2 DEF FetchInv, F!TypeOK
<1>4. FetchBounds'
  BY <1>1, FetchBoundsStay
<1>5. FetchHears' /\ DiskOfFetch'
  BY <1>1 DEF FetchHears, DiskOfFetch
<1> QED
  BY <1>3, <1>4, <1>5 DEF FetchInv

(* The provenance of a whole extraction.                                   *)
LEMMA FetchRecords ==
  ASSUME FetchInv, F!WriteProvenance
  PROVE  FetchInv'
<1>1. /\ UNCHANGED <<ref, url, hop, body, answer, asked, artifact, checked, disk>>
      /\ \/ /\ pc = <<"git", "running">> /\ pc' = <<"git", "done">>
         \/ /\ pc = <<"package", "extracting">> /\ pc' = <<"package", "done">>
            /\ Len(disk) = checked /\ provenance'.digest = artifact.digest
  BY DEF F!WriteProvenance, F!Doing, F!Then, F!web, FetchInv, F!TypeOK, F!Places
<1>2. F!TypeOK'
  BY <1>1 DEF FetchInv, F!TypeOK, F!Places
<1>3. FetchBounds'
  BY <1>1, FetchBoundsStay
<1>4. FetchHears'
  BY <1>1 DEF FetchHears
<1>5. DiskOfFetch'
  BY <1>1 DEF FetchInv, DiskOfFetch, VettedFetch
<1> QED
  BY <1>2, <1>3, <1>4, <1>5 DEF FetchInv

(* Every step of a fetch keeps the invariant.                              *)
LEMMA FetchStep ==
  ASSUME FetchInv, [F!Next]_(F!vars)
  PROVE  FetchInv'
<1>1. CASE UNCHANGED F!vars
  BY <1>1
  DEF F!vars, FetchInv, F!TypeOK, FetchBounds, Budget, F!Limit, F!MayPass, F!Validate,
      FetchHears, DiskOfFetch, VettedFetch
<1>2. CASE F!Refuse \/ F!Unsuccessful \/ F!Break
  BY <1>2, FetchFails DEF F!Refuse, F!Unsuccessful, F!Break, F!Doing
<1> QED
  BY <1>1, <1>2, FetchStarts, FetchAsks, FetchReads, FetchTurns, FetchVerifies,
     FetchChecks, FetchPasses, FetchExtracts, FetchClones, FetchRecords
  DEF F!Next

(* Of two numbers.                                                         *)
LEMMA MaxOfTwo ==
  ASSUME NEW a \in Nat, NEW b \in Nat
  PROVE  F!Max({a, b}) \in Nat /\ a <= F!Max({a, b}) /\ b <= F!Max({a, b})
<1>1. \E x \in {a, b} : \A y \in {a, b} : x >= y
  OBVIOUS
<1> QED
  BY <1>1 DEF F!Max

(* Of two numbers.                                                         *)
LEMMA MinOfTwo ==
  ASSUME NEW a \in Nat, NEW b \in Nat
  PROVE  F!Min({a, b}) \in {a, b}
<1>1. \E x \in {a, b} : \A y \in {a, b} : x <= y
  OBVIOUS
<1> QED
  BY <1>1 DEF F!Min

(* The invariant bounds what is asked for.                                 *)
LEMMA FetchIsVetted ==
  ASSUME FetchInv
  PROVE  F!RequestsVetted
<1>1. hop \in 0..MaxRedirects /\ Len(asked) \in Nat /\ Len(asked) <= Budget
  BY Numbered DEF FetchInv, F!TypeOK, FetchBounds
<1>2. Len(asked) <= 2 * (MaxRedirects + 1)
  <2>1. CASE pc[1] \in {"none", "git"}
    BY <1>1, <2>1, FetchNumbers DEF Budget
  <2>2. CASE pc[1] = "metadata"
    BY <1>1, <2>2, FetchNumbers DEF Budget
  <2>3. CASE pc[1] = "package"
    BY <1>1, <2>3, FetchNumbers DEF Budget
  <2> QED
    BY <2>1, <2>2, <2>3 DEF FetchInv, F!TypeOK, F!Places
<1>3. body <= 1 + F!Max({JsonBytes, PackageBytes})
  <2>1. F!Limit \in Nat /\ F!Limit <= F!Max({JsonBytes, PackageBytes})
        /\ F!Max({JsonBytes, PackageBytes}) \in Nat
    BY FetchNumbers, MaxOfTwo DEF F!Limit
  <2>2. body \in Nat /\ body <= F!Limit + 1
    BY <2>1 DEF FetchInv, F!TypeOK, FetchBounds
  <2> HIDE DEF F!Limit
  <2> QED
    BY <2>1, <2>2
<1> QED
  BY <1>2, <1>3 DEF F!RequestsVetted, FetchInv, FetchBounds

(* The invariant keeps the destination clean.                              *)
LEMMA FetchIsWhole ==
  ASSUME FetchInv
  PROVE  F!DestinationIsVetted
<1> SUFFICES ASSUME pc[1] # "git" PROVE F!DestinationIsVetted
  BY DEF F!DestinationIsVetted
<1>1. ASSUME disk # <<>>
      PROVE  /\ disk = SubSeq(artifact.members, 1, Len(disk))
             /\ \A i \in DOMAIN artifact.members : F!SafeMember(artifact.members[i])
             /\ F!SizeOf(artifact.members) <= F!Min({MaxExpanded, body * MaxRatio})
  <2>1. VettedFetch /\ disk = SubSeq(artifact.members, 1, Len(disk)) /\ Len(disk) <= checked
    BY <1>1 DEF FetchInv, F!TypeOK, F!Places, DiskOfFetch
  <2>2. Len(disk) \in Nat /\ Len(disk) # 0 /\ checked \in Nat /\ body \in Nat
    BY <1>1, Numbered DEF FetchInv, F!TypeOK, F!IsSequence
  <2>3. artifact.members # <<>>
    BY <2>1, <2>2, Empty DEF VettedFetch
  <2>4. body * MaxRatio \in Nat
    BY <2>2, FetchNumbers
  <2>5. F!Min({MaxExpanded, body * MaxRatio}) \in {MaxExpanded, body * MaxRatio}
    BY <2>4, FetchNumbers, MinOfTwo
  <2> QED
    BY <2>1, <2>3, <2>5 DEF VettedFetch
<1>2. ASSUME provenance # NONE
      PROVE  disk = artifact.members /\ provenance.digest = answer.holds.digest
  <2>1. /\ VettedFetch /\ disk = SubSeq(artifact.members, 1, Len(disk)) /\ Len(disk) = checked
        /\ F!IsSequence(artifact.members) /\ artifact.digest = answer.holds.digest
        /\ provenance.digest = answer.holds.digest
    BY <1>2 DEF FetchInv, F!TypeOK, F!Places, DiskOfFetch
  <2>2. disk = SubSeq(artifact.members, 1, Len(artifact.members))
    BY <2>1 DEF VettedFetch
  <2>3. SubSeq(artifact.members, 1, Len(artifact.members)) = artifact.members
    BY <2>1 DEF F!IsSequence
  <2> QED
    BY <2>1, <2>2, <2>3
<1> QED
  BY <1>1, <1>2 DEF F!DestinationIsVetted

(* A fetch keeps its invariant.                                            *)
LEMMA FetchInvariant == F!Spec => []FetchInv
BY FetchInit, FetchStep, PTL DEF F!Spec

(* Whatever the servers answer, every URL that is asked for could pass the *)
(* policy, and there are no more of them, and no more bytes read, than the *)
(* limits allow (safe_http.py:90-141).                                     *)
THEOREM FetchAsksWithin == Spec => []RequestsVetted
<1>1. FetchInv => F!RequestsVetted
  BY FetchIsVetted
<1>2. F!RequestsVetted \/ ~(part = "fetch") => RequestsVetted
  BY DEF RequestsVetted
<1> QED
  BY <1>1, <1>2, FetchInvariant, FetchPart, PTL

(* Nothing is written of an archive any member of which is refused, and    *)
(* what has a provenance file is whole and verified (fetcher.py:98-324).   *)
THEOREM FetchWritesVetted == Spec => []DestinationIsVetted
<1>1. FetchInv => F!DestinationIsVetted
  BY FetchIsWhole
<1>2. F!DestinationIsVetted \/ ~(part = "fetch") => DestinationIsVetted
  BY DEF DestinationIsVetted
<1> QED
  BY <1>1, <1>2, FetchInvariant, FetchPart, PTL

(* In every part each variable has its type, and the semaphore of scan-all *)
(* holds (engine.py:522-541).                                              *)
THEOREM PartsTypes == Spec => []TypeOK
<1>1. P!Spec => []P!TypeOK
  BY PartsAssumption, P!PluginTypes
<1>2. M!Spec => []M!TypeOK
  BY PartsAssumption, M!MigrationTypes
<1>3. V!Spec => []V!TypeOK
  BY PartsAssumption, V!FeedTypes
<1>4. A!Spec => []A!TypeOK
  BY PartsAssumption, ScanAllTypes
<1>5. FetchInv => F!TypeOK
  BY DEF FetchInv
<1>6. /\ P!TypeOK \/ ~(part = "plugins")
      /\ M!TypeOK \/ ~(part = "migration")
      /\ F!TypeOK \/ ~(part = "fetch")
      /\ A!TypeOK \/ ~(part = "scan-all")
      /\ V!TypeOK \/ ~(part = "feed")
      => TypeOK
  BY DEF TypeOK
<1> QED
  BY <1>1, <1>2, <1>3, <1>4, <1>5, <1>6, FetchInvariant, PluginsPart, MigrationPart, FetchPart,
     ScanAllPart, FeedPart, PTL

-----------------------------------------------------------------------------
(* A scan of an endpoint. What its findings say is what the document that  *)
(* was read lacks, and how the connection ended, where the floor lets what *)
(* is high through. A challenge counts as a document that names no server. *)
Lacking == {x \in {"iss", "pkce"} : server # NONE /\ server[x] # TRUE}
AboutRule(rule) == {f.what : f \in {g \in findings : g.rule = rule}}
Heard == E!Rank("high") >= E!Rank(floor)

EndpointInv ==
  /\ pc \in {"probe", "metadata", "judge", "transport", "done"}
  /\ server # NONE =>
       /\ server \in AuthServers /\ resource # NONE /\ resource.servers # <<>>
       /\ pc \in {"judge", "transport", "done"}
  /\ pc # "done" => tlsInfo = NONE
  /\ pc \in {"probe", "metadata", "judge"} => findings = {}
  /\ pc = "metadata" => resource # NONE \/ resource.servers = <<>>
  /\ pc \in {"transport", "done"} =>
       AboutRule("R112") \ {"session"} = (IF Heard THEN Lacking ELSE {})
  /\ pc = "transport" => AboutRule("R111") = {}
  /\ pc = "done" => (AboutRule("R111") \subseteq {"hsts"} <=> ~Heard \/ E!Secure)

(* Nothing is known or found at first.                                     *)
LEMMA EndpointInit ==
  ASSUME E!Init
  PROVE  EndpointInv
BY DEF E!Init, EndpointInv

(* Asking for documents finds nothing yet.                                 *)
LEMMA EndpointAsks ==
  ASSUME EndpointInv, E!NoDiscovery \/ E!AskResource \/ E!AskChallenge \/ E!AskServer
  PROVE  EndpointInv'
<1>0. NONE \notin Resources /\ NONE \notin AuthServers
  BY PartsAssumption DEF E!EndpointAssumption
<1>1. CASE E!NoDiscovery
  BY <1>1 DEF E!NoDiscovery, EndpointInv
<1>2. CASE E!AskResource
  BY <1>0, <1>2 DEF E!AskResource, EndpointInv
<1>3. CASE E!AskChallenge
  BY <1>3 DEF E!AskChallenge, EndpointInv
<1>4. CASE E!AskServer
  BY <1>0, <1>4 DEF E!AskServer, EndpointInv
<1> QED
  BY <1>1, <1>2, <1>3, <1>4

(* The judgement is by what was read, and by all of it.                    *)
LEMMA EndpointJudges ==
  ASSUME EndpointInv, E!Judge
  PROVE  EndpointInv'
<1>0. /\ pc = "judge" /\ pc' = "transport" /\ findings = {}
      /\ UNCHANGED <<target, floor, tries, resource, server, tlsInfo>>
  BY DEF EndpointInv, E!Judge
<1>1. findings' = {f \in E!AuthFindings : E!Rank(f.severity) >= E!Rank(floor)}
  <2>1. findings' = {} \cup {f \in E!AuthFindings : E!Rank(f.severity) >= E!Rank(floor)}
    BY <1>0 DEF E!Judge, E!Report
  <2> QED
    BY <2>1
<1>2. ASSUME NEW f \in E!AuthFindings
      PROVE  /\ f.rule = "R112"
             /\ f.what = "session" \/ (f.severity = "high" /\ f.what \in Lacking)
  <2> DEFINE judged == {E!Finding("R112", "high", x) : x \in Lacking}
             session == IF target.session /\ target.stateless
                        THEN {E!Finding("R112", "medium", "session")} ELSE {}
  <2>1. f \in judged \/ f \in session
    BY DEF E!AuthFindings, Lacking
  <2>2. CASE f \in judged
    BY <2>2 DEF E!Finding
  <2>3. CASE f \in session
    BY <2>3 DEF E!Finding
  <2> QED
    BY <2>1, <2>2, <2>3
<1>3. ASSUME NEW x \in Lacking, Heard PROVE x \in AboutRule("R112")'
  <2> DEFINE f == [rule |-> "R112", severity |-> "high", what |-> x]
  <2>1. f \in E!AuthFindings
    BY <1>3 DEF E!AuthFindings, E!Finding, Lacking
  <2>2. f \in findings'
    BY <1>1, <1>3, <2>1 DEF Heard
  <2> QED
    BY <2>2 DEF AboutRule
<1>4. ASSUME NEW x \in AboutRule("R112")', x # "session" PROVE x \in Lacking /\ Heard
  <2>1. PICK f \in findings' : f.what = x
    BY <1>4 DEF AboutRule
  <2>2. f \in E!AuthFindings /\ E!Rank(f.severity) >= E!Rank(floor)
    BY <1>1, <2>1
  <2> QED
    BY <1>2, <1>4, <2>1, <2>2 DEF Heard
<1>5. "session" \notin Lacking
  BY DEF Lacking
<1>6. AboutRule("R112")' \ {"session"} = (IF Heard THEN Lacking ELSE {})
  BY <1>3, <1>4, <1>5
<1>7. AboutRule("R111")' = {}
  BY <1>1, <1>2 DEF AboutRule
<1>8. Lacking' = Lacking /\ Heard' = Heard
  BY <1>0 DEF Lacking, Heard
<1> QED
  BY <1>0, <1>6, <1>7, <1>8 DEF EndpointInv

(* What the transport check adds is about the transport.                   *)
LEMMA EndpointChecks ==
  ASSUME EndpointInv, E!CheckTransport
  PROVE  EndpointInv'
<1>0. /\ pc = "transport" /\ pc' = "done"
      /\ UNCHANGED <<target, floor, tries, resource, server>>
  BY DEF E!CheckTransport
<1>1. PICK hsts \in BOOLEAN : E!Report(E!TransportFindings(tlsInfo', hsts))
  BY DEF E!CheckTransport
<1> DEFINE more == {f \in E!TransportFindings(tlsInfo', hsts) : E!Rank(f.severity) >= E!Rank(floor)}
<1>2. findings' = findings \cup more
  BY <1>1 DEF E!Report
<1>3. ASSUME NEW f \in E!TransportFindings(tlsInfo', hsts)
      PROVE  /\ f.rule = "R111" /\ tlsInfo' # NONE
             /\ f.what = "hsts" \/ (f.severity = "high" /\ f.what \in E!Flaws(tlsInfo'))
  <2>1. \/ \E x \in E!Flaws(tlsInfo') : f = E!Finding("R111", "high", x)
        \/ f = E!Finding("R111", "medium", "hsts")
    BY DEF E!TransportFindings
  <2>2. tlsInfo' # NONE
    BY DEF E!TransportFindings
  <2> QED
    BY <2>1, <2>2 DEF E!Finding
<1> DEFINE flawed == tlsInfo' # NONE /\ E!Flaws(tlsInfo') # {}
<1>4. AboutRule("R112")' = AboutRule("R112")
  BY <1>2, <1>3 DEF AboutRule
<1>5. \A g \in findings : g.rule # "R111"
  BY <1>0 DEF EndpointInv, AboutRule
<1>6. ASSUME flawed, Heard PROVE ~(AboutRule("R111")' \subseteq {"hsts"})
  <2>1. PICK x \in E!Flaws(tlsInfo') : x # "hsts"
    BY <1>6 DEF E!Flaws
  <2> DEFINE f == [rule |-> "R111", severity |-> "high", what |-> x]
  <2>2. f \in E!TransportFindings(tlsInfo', hsts)
    BY <1>6, <2>1 DEF E!TransportFindings, E!Finding
  <2>3. f \in findings'
    BY <1>2, <1>6, <2>2 DEF Heard
  <2> QED
    BY <2>1, <2>3 DEF AboutRule
<1>7. ASSUME ~flawed \/ ~Heard PROVE AboutRule("R111")' \subseteq {"hsts"}
  <2> SUFFICES ASSUME NEW f \in findings', f.rule = "R111" PROVE f.what = "hsts"
    BY DEF AboutRule
  <2>1. f \in more
    BY <1>2, <1>5
  <2> QED
    BY <1>3, <1>7, <2>1 DEF Heard
<1>8. flawed <=> ~E!Secure'
  <2>0. /\ NONE \notin Handshakes
        /\ \A h \in Handshakes : h.version \notin {"plain", "error"} /\ h.dated \in BOOLEAN
    BY PartsAssumption DEF E!EndpointAssumption
  <2>1. tlsInfo' \in E!Checked
    BY DEF E!CheckTransport
  <2>2. CASE target.transport = "stdio"
    BY <1>0, <2>1, <2>2 DEF E!Checked, E!Secure
  <2>3. CASE target.transport # "stdio" /\ tlsInfo' \in Handshakes /\ target.scheme = "https"
    BY <1>0, <2>0, <2>3 DEF E!Flaws, E!Secure
  <2>4. CASE target.transport # "stdio" /\ tlsInfo' \in {E!Plain, E!Failed}
    <3>1. tlsInfo'.version \in {"plain", "error"} /\ tlsInfo' # NONE
      BY <2>4, PartsAssumption DEF E!Plain, E!Failed, E!EndpointAssumption
    <3>2. tlsInfo' \notin Handshakes
      BY <2>0, <3>1
    <3> QED
      BY <1>0, <2>4, <3>1, <3>2 DEF E!Flaws, E!Secure
  <2> QED
    BY <2>1, <2>2, <2>3, <2>4 DEF E!Checked
<1>9. Lacking' = Lacking /\ Heard' = Heard
  BY <1>0 DEF Lacking, Heard
<1> HIDE DEF flawed
<1>10. AboutRule("R111")' \subseteq {"hsts"} <=> ~Heard \/ E!Secure'
  BY <1>6, <1>7, <1>8
<1>11. AboutRule("R112")' \ {"session"} = (IF Heard THEN Lacking ELSE {})
  BY <1>0, <1>4 DEF EndpointInv
<1> QED
  BY <1>0, <1>9, <1>10, <1>11 DEF EndpointInv

(* A scan of an endpoint keeps the invariant.                              *)
LEMMA EndpointInvariant == E!Spec => []EndpointInv
<1>1. EndpointInv /\ UNCHANGED E!vars => EndpointInv'
  BY DEF E!vars, EndpointInv, AboutRule, Lacking, Heard, E!Secure
<1> QED
  BY <1>1, EndpointInit, EndpointAsks, EndpointJudges, EndpointChecks, PTL DEF E!Spec, E!Next

(* Unless the floor is above what is high, a finished scan holds against   *)
(* an authorization server exactly what its document lacks, and passes the *)
(* transport just when there is none or a connection verified              *)
(* (probe/oauth.py:83-161, fingerprint/transport_check.py:24-120).         *)
THEOREM FindingsAreDocumented == Spec => []Documented
<1>1. EndpointInv => E!Documented
  BY DEF EndpointInv, E!Documented, AboutRule, Lacking, Heard
<1>2. E!Documented \/ ~(part = "endpoint") => Documented
  BY DEF Documented
<1> QED
  BY <1>1, <1>2, EndpointInvariant, EndpointPart, PTL

-----------------------------------------------------------------------------
(* The arguments of a probe: values within values.                         *)

(* Sequences of the same elements are the same.                            *)
LEMMA SameSequence ==
  ASSUME NEW Z, NEW s \in Seq(Z), NEW t \in Seq(Z), Len(s) = Len(t),
         \A i \in 1..Len(s) : s[i] = t[i]
  PROVE  s = t
OBVIOUS

(* A path into a value that lies under a key.                              *)
LEMMA PathUnderAny ==
  ASSUME NEW Z, NEW k \in Z, NEW q \in Seq(Z)
  PROVE  /\ <<k>> \o q \in Seq(Z) /\ <<k>> \o q # <<>>
         /\ Head(<<k>> \o q) = k /\ Tail(<<k>> \o q) = q
         /\ q = <<>> => B!Parent(<<k>> \o q) = <<>>
         /\ q # <<>> => B!Parent(<<k>> \o q) = <<k>> \o B!Parent(q)
<1> DEFINE p == <<k>> \o q
<1>1. p \in Seq(Z) /\ Len(p) = Len(q) + 1 /\ Len(q) \in Nat /\ p[1] = k
      /\ \A i \in 1..Len(q) : p[i + 1] = q[i]
  OBVIOUS
<1>2. p # <<>> /\ Head(p) = k /\ Tail(p) \in Seq(Z) /\ Len(Tail(p)) = Len(q)
      /\ \A i \in 1..Len(q) : Tail(p)[i] = q[i]
  BY <1>1
<1>3. Tail(p) = q
  BY <1>1, <1>2
<1>4. ASSUME q = <<>> PROVE B!Parent(p) = <<>>
  BY <1>1, <1>4 DEF B!Parent
<1>5. ASSUME q # <<>> PROVE B!Parent(p) = <<k>> \o B!Parent(q)
  <2>1. Len(q) >= 1
    BY <1>5, <1>1
  <2>2. B!Parent(q) \in Seq(Z) /\ Len(B!Parent(q)) = Len(q) - 1
        /\ \A i \in 1..(Len(q) - 1) : B!Parent(q)[i] = q[i]
    BY <1>1, <2>1 DEF B!Parent
  <2>3. B!Parent(p) \in Seq(Z) /\ Len(B!Parent(p)) = Len(q)
        /\ \A i \in 1..Len(q) : B!Parent(p)[i] = p[i]
    BY <1>1, <2>1 DEF B!Parent
  <2> DEFINE r == <<k>> \o B!Parent(q)
  <2>4. r \in Seq(Z) /\ Len(r) = Len(q) /\ r[1] = k
        /\ \A i \in 1..(Len(q) - 1) : r[i + 1] = B!Parent(q)[i]
    BY <1>1, <2>2
  <2>5. \A i \in 1..Len(q) : r[i] = p[i]
    <3> SUFFICES ASSUME NEW i \in 1..Len(q) PROVE r[i] = p[i]
      OBVIOUS
    <3>1. CASE i = 1
      BY <1>1, <2>4, <3>1
    <3>2. CASE i # 1
      <4>1. i - 1 \in 1..(Len(q) - 1) /\ i - 1 \in 1..Len(q) /\ (i - 1) + 1 = i
        BY <1>1, <3>2
      <4> HIDE DEF p, r
      <4>2. r[(i - 1) + 1] = B!Parent(q)[i - 1] /\ p[(i - 1) + 1] = q[i - 1]
            /\ B!Parent(q)[i - 1] = q[i - 1]
        BY <1>1, <2>2, <2>4, <4>1
      <4> QED
        BY <4>1, <4>2
    <3> QED
      BY <3>1, <3>2
  <2> HIDE DEF p, r
  <2>6. \A i \in 1..Len(q) : B!Parent(p)[i] = r[i]
    BY <2>3, <2>5
  <2>7. B!Parent(p) = r
    BY <2>3, <2>4, <2>6, SameSequence
  <2> QED
    BY <2>7 DEF r
<1> QED
  BY <1>1, <1>2, <1>3, <1>4, <1>5

(* The same of any path.                                                   *)
LEMMA PathUnder ==
  ASSUME NEW k, NEW q, B!IsPath(q)
  PROVE  /\ B!IsPath(<<k>> \o q) /\ <<k>> \o q # <<>>
         /\ Head(<<k>> \o q) = k /\ Tail(<<k>> \o q) = q
         /\ q = <<>> => B!Parent(<<k>> \o q) = <<>>
         /\ q # <<>> => B!Parent(<<k>> \o q) = <<k>> \o B!Parent(q)
<1> DEFINE Z == {q[i] : i \in DOMAIN q} \cup {k}
           p == <<k>> \o q
<1>1. k \in Z /\ q \in Seq(Z)
  BY DEF B!IsPath
<1> HIDE DEF Z
<1>2. B!IsPath(p)
  <2>1. p \in Seq(Z)
    BY <1>1
  <2> HIDE DEF p
  <2> QED
    BY <2>1 DEF B!IsPath
<1>3. /\ p # <<>> /\ Head(p) = k /\ Tail(p) = q
      /\ q = <<>> => B!Parent(p) = <<>>
      /\ q # <<>> => B!Parent(p) = <<k>> \o B!Parent(q)
  BY <1>1, PathUnderAny
<1> QED
  BY <1>2, <1>3

(* The path around a path is shorter by one.                               *)
LEMMA ParentShorter ==
  ASSUME NEW p, B!IsPath(p), p # <<>>
  PROVE  Len(p) \in Nat /\ Len(B!Parent(p)) = Len(p) - 1
<1> DEFINE Z == {p[i] : i \in DOMAIN p}
<1>1. p \in Seq(Z)
  BY DEF B!IsPath
<1> HIDE DEF Z
<1> QED
  BY <1>1 DEF B!Parent

(* The tree of trees is a tree.                                            *)
LEMMA NestedIsTree ==
  ASSUME NEW kind \in B!Containers, NEW at,
         \A k \in DOMAIN at : B!IsTree(at[k])
  PROVE  B!IsTree(B!Nested(kind, at))
<1> DEFINE N == B!Nested(kind, at)
           under == UNION {{<<k>> \o q : q \in DOMAIN at[k]} : k \in DOMAIN at}
<1>1. DOMAIN N = {<<>>} \cup under
  BY DEF B!Nested
<1>2. ASSUME NEW p \in under
      PROVE  \E k \in DOMAIN at : \E q \in DOMAIN at[k] : p = <<k>> \o q
  BY <1>2
<1>3. ASSUME NEW k \in DOMAIN at, NEW q \in DOMAIN at[k]
      PROVE  /\ B!IsPath(q)
             /\ <<k>> \o q \in under /\ <<k>> \o q # <<>> /\ N[<<k>> \o q] = at[k][q]
  <2>1. B!IsPath(q)
    BY DEF B!IsTree
  <2>2. <<k>> \o q \in under
    BY <1>3
  <2>3. <<k>> \o q # <<>> /\ Head(<<k>> \o q) = k /\ Tail(<<k>> \o q) = q
    BY <2>1, PathUnder
  <2> QED
    BY <1>1, <2>1, <2>2, <2>3 DEF B!Nested
<1>4. N[<<>>] = kind
  BY DEF B!Nested
<1> HIDE DEF N, under
<1>5. \A p \in DOMAIN N : B!IsPath(p)
  <2>1. ASSUME NEW p \in under PROVE B!IsPath(p)
    <3>1. PICK k \in DOMAIN at : \E q \in DOMAIN at[k] : p = <<k>> \o q
      BY <1>2, <2>1
    <3> QED
      BY <1>3, <3>1, PathUnder
  <2>2. B!IsPath(<<>>)
    BY DEF B!IsPath
  <2> QED
    BY <1>1, <2>1, <2>2
<1>6. ASSUME NEW p \in DOMAIN N \ {<<>>}
      PROVE  B!Parent(p) \in DOMAIN N /\ N[B!Parent(p)] \in B!Containers
  <2>0. PICK k \in DOMAIN at : \E q \in DOMAIN at[k] : p = <<k>> \o q
    BY <1>1, <1>2
  <2>1. PICK q \in DOMAIN at[k] : p = <<k>> \o q
    BY <2>0
  <2>2. CASE q = <<>>
    <3>1. B!Parent(p) = <<>>
      BY <1>3, <2>1, <2>2, PathUnder
    <3> QED
      BY <1>1, <1>4, <3>1
  <2>3. CASE q # <<>>
    <3>1. B!Parent(q) \in DOMAIN at[k] /\ at[k][B!Parent(q)] \in B!Containers
      BY <2>3 DEF B!IsTree
    <3>2. B!Parent(p) = <<k>> \o B!Parent(q)
      BY <1>3, <2>1, <2>3, PathUnder
    <3> QED
      BY <1>1, <1>3, <3>1, <3>2
  <2> QED
    BY <2>2, <2>3
<1> QED
  BY <1>1, <1>5, <1>6 DEF B!IsTree, N

(* A value without any within it is a tree.                                *)
LEMMA LeafIsTree ==
  ASSUME NEW x
  PROVE  B!IsTree(B!Leaf(x))
<1>1. B!IsPath(<<>>)
  BY DEF B!IsPath
<1>2. DOMAIN B!Leaf(x) = {<<>>}
  BY DEF B!Leaf
<1> QED
  BY <1>1, <1>2 DEF B!IsTree

(* What is made up for a schema is a tree.                                 *)
LEMMA MinimalIsTree ==
  ASSUME NEW s \in Schemas
  PROVE  B!IsTree(B!MinimalArgs(s))
<1>1. ASSUME NEW n \in DOMAIN s PROVE B!IsTree(B!MinimalValue(s[n]))
  <2>1. /\ s[n].default # NONE => B!IsTree(s[n].default)
        /\ s[n].items # NONE => B!IsTree(s[n].items)
    BY PartsAssumption DEF B!ProbeAssumption
  <2> DEFINE items == [i \in {"0"} |-> s[n].items]
  <2>3. \A i \in DOMAIN items : items[i] = s[n].items
    OBVIOUS
  <2>2. s[n].items # NONE => B!IsTree(B!Nested("list", items))
    BY <2>1, <2>3, NestedIsTree DEF B!Containers
  <2> QED
    BY <2>1, <2>2, LeafIsTree DEF B!MinimalValue
<1> DEFINE made == [n \in {m \in DOMAIN s : s[m].required} |-> B!MinimalValue(s[n])]
<1>2. \A n \in DOMAIN made : B!IsTree(made[n])
  BY <1>1
<1> QED
  BY <1>2, NestedIsTree DEF B!MinimalArgs, B!Containers

(* Sanitized arguments hold no list or dict that is too deep, and no long  *)
(* or forbidden string but one right in a dict at the limit.               *)
LEMMA SanitizedIsSafe ==
  ASSUME NEW v, B!IsTree(v), NEW p \in DOMAIN B!Sanitize(v)
  PROVE  LET W == B!Sanitize(v)
         IN /\ W[p] \in B!Containers => Len(p) <= MaxArgsDepth
            /\ W[p] \in {"long", "forbidden"} =>
                 Len(p) = MaxArgsDepth + 1 /\ W[B!Parent(p)] = "dict"
<1> DEFINE W == B!Sanitize(v)
           within(q) == Len(q) <= MaxArgsDepth
<1>0. MaxArgsDepth \in Nat
  BY PartsAssumption DEF B!ProbeAssumption
<1>1. CASE within(p)
  BY <1>1 DEF B!Sanitize, B!Depth
<1>2. CASE ~within(p)
  <2>1. p \in DOMAIN v /\ within(B!Parent(p))
        /\ (v[B!Parent(p)] = "dict" => v[p] \notin B!Containers)
        /\ W[p] = IF v[B!Parent(p)] = "list" THEN "none" ELSE v[p]
    BY <1>2 DEF B!Sanitize, B!Depth
  <2>2. B!IsPath(p) /\ Len(p) \in Nat /\ p # <<>>
    BY <1>0, <1>2, <2>1 DEF B!IsTree, B!IsPath
  <2>3. Len(B!Parent(p)) = Len(p) - 1
    BY <2>2, ParentShorter
  <2>4. B!Parent(p) \in DOMAIN v /\ v[B!Parent(p)] \in {"dict", "list"}
    BY <2>1, <2>2 DEF B!IsTree, B!Containers
  <2>5. v[B!Parent(p)] = "dict" => W[B!Parent(p)] = "dict"
    BY <2>1, <2>4 DEF B!Sanitize, B!Depth
  <2> HIDE DEF W
  <2>6. W[p] \notin B!Containers
    BY <2>1, <2>4 DEF B!Containers
  <2>7. W[p] \in {"long", "forbidden"} => v[B!Parent(p)] = "dict"
    BY <2>1, <2>4
  <2>8. Len(p) = MaxArgsDepth + 1
    BY <1>0, <1>2, <2>1, <2>2, <2>3
  <2> QED
    BY <2>5, <2>6, <2>7, <2>8 DEF W
<1> QED
  BY <1>1, <1>2

(* Arguments that wait for the check are trees; those that are sent passed.*)
ProbeInv ==
  /\ pc \in {"generate", "check", "call", "done"}
  /\ schema \in Schemas
  /\ pc = "check" => B!IsTree(args)
  /\ pc \in {"generate", "check"} => checked = "unchecked"
  /\ B!SentIsSafe

(* With a sandbox, no call is made with a dict that is too deep, nor with  *)
(* a long or forbidden string, but for the one place where a sanitized     *)
(* dict keeps a string (probe/prober.py:211-217, probe/sandbox.py:71-168). *)
THEOREM CallsAreSafe == Spec => []SentIsSafe
<1>0. MaxArgsDepth \in Nat
  BY PartsAssumption DEF B!ProbeAssumption
<1>1. B!Init => ProbeInv
  BY DEF B!Init, ProbeInv, B!SentIsSafe
<1>2. ProbeInv /\ [B!Next]_(B!vars) => ProbeInv'
  <2> SUFFICES ASSUME ProbeInv, [B!Next]_(B!vars) PROVE ProbeInv'
    OBVIOUS
  <2>1. CASE B!Generate
    <3>1. B!IsTree(args') /\ checked' = "unchecked" /\ pc' \in {"check", "call"}
      BY <2>1, MinimalIsTree DEF B!Generate, ProbeInv
    <3>2. sandboxed' /\ pc' = "call" => args' = B!NoArgs
      BY <2>1 DEF B!Generate
    <3>3. \A p \in DOMAIN B!NoArgs : B!NoArgs[p] = "dict" /\ Len(p) <= MaxArgsDepth
      BY <1>0 DEF B!NoArgs, B!Leaf
    <3> QED
      BY <2>1, <3>1, <3>2, <3>3 DEF B!Generate, ProbeInv, B!SentIsSafe
  <2>2. CASE B!Check
    <3>1. B!IsTree(args) /\ pc' = "call" /\ schema' = schema
          /\ \/ B!ValidArgs(args) /\ checked' = "valid" /\ args' = args
             \/ checked' = "sanitized" /\ args' = B!Sanitize(args)
      BY <2>2 DEF B!Check, ProbeInv
    <3>2. CASE B!ValidArgs(args) /\ checked' = "valid" /\ args' = args
      BY <3>1, <3>2 DEF ProbeInv, B!SentIsSafe, B!ValidArgs
    <3>3. CASE checked' = "sanitized" /\ args' = B!Sanitize(args)
      BY <3>1, <3>3, SanitizedIsSafe DEF ProbeInv, B!SentIsSafe, B!KeptAsItWas, B!Containers
    <3> QED
      BY <3>1, <3>2, <3>3
  <2>3. CASE B!Call
    BY <2>3 DEF B!Call, ProbeInv, B!SentIsSafe, B!KeptAsItWas
  <2>4. CASE UNCHANGED B!vars
    BY <2>4 DEF B!vars, ProbeInv, B!SentIsSafe, B!KeptAsItWas
  <2> QED
    BY <2>1, <2>2, <2>3, <2>4 DEF B!Next
<1>3. ProbeInv => B!SentIsSafe
  BY DEF ProbeInv
<1>4. B!SentIsSafe \/ ~(part = "probe") => SentIsSafe
  BY DEF SentIsSafe
<1> QED
  BY <1>1, <1>2, <1>3, <1>4, ProbePart, PTL DEF B!Spec

-----------------------------------------------------------------------------
(* Fingerprints: of every endpoint that was looked at there is a row with  *)
(* what was seen, later than all its other rows.                           *)
Shows(r, look) ==
  /\ r.version = look.version /\ r.protocol = look.protocol
  /\ r.capabilities = look.capabilities
  /\ r.names = I!Joined(look.tools) /\ r.tls = look.tls
IsLast(r, e) == r.endpoint = e /\ \A q \in rows : q.endpoint = e => q.last <= r.last

IdentityInv ==
  /\ now \in Nat
  /\ server \in [Endpoints -> Looks] /\ taken \in [Endpoints -> Looks \cup {NONE}]
  /\ \A r \in rows :
       /\ r.last \in Nat /\ r.last < now /\ r.id = <<r.endpoint, r.names>>
       /\ r.endpoint \in Endpoints /\ taken[r.endpoint] # NONE
  /\ \A r, q \in rows : r.last = q.last => r = q
  /\ \A e \in Endpoints :
       taken[e] # NONE => \E r \in rows : IsLast(r, e) /\ Shows(r, taken[e])
  /\ I!ComparesWithLast

(* A version is not lower than itself.                                     *)
LEMMA NotLess ==
  ASSUME NEW a \in Seq(Int)
  PROVE  ~I!Less(a, a)
<1>1. ~I!IsStrictPrefix(a, a)
  BY DEF I!IsStrictPrefix
<1>2. \A i \in DOMAIN a : ~(a[i] < a[i])
  BY DEF I!Less
<1> QED
  BY <1>1, <1>2 DEF I!Less

(* What comparing a row with a look tells.                                 *)
LEMMA ComparisonIsExact ==
  ASSUME NEW e \in Endpoints, NEW look \in Looks, NEW is \in Looks, NEW r,
         r.endpoint = e, Shows(r, look)
  PROVE  LET changes == I!Changes(r, I!Fingerprint(e, is))
         IN /\ changes = {} <=> I!Same(look, is)
            /\ /\ I!Numbered(look.version) /\ I!Numbered(is.version)
               /\ I!Less(is.version.numbers, look.version.numbers)
               => "rollback" \in changes
<1> DEFINE fp == I!Fingerprint(e, is)
           versions == IF r.version = fp.version THEN {} ELSE {I!VersionChange(r.version, fp.version)}
           fields == {f \in {"names", "protocol", "capabilities", "endpoint"} : r[f] # fp[f]}
           tls == I!TlsChanges(r.tls, fp.tls)
<1>1. I!Changes(r, fp) = versions \cup fields \cup tls
  BY DEF I!Changes
<1>2. /\ fp.version = is.version /\ fp.protocol = is.protocol
      /\ fp.capabilities = is.capabilities /\ fp.names = I!Joined(is.tools)
      /\ fp.tls = is.tls /\ fp.endpoint = e
  BY DEF I!Fingerprint
<1> HIDE DEF fp
<1>3. versions = {} <=> look.version = is.version
  BY <1>2 DEF Shows
<1>4. fields = {} <=> /\ I!Joined(look.tools) = I!Joined(is.tools)
                      /\ look.protocol = is.protocol /\ look.capabilities = is.capabilities
  BY <1>2 DEF Shows
<1>5. tls = {} <=> look.tls = is.tls \/ NONE \in {look.tls, is.tls}
  BY <1>2 DEF Shows, I!TlsChanges
<1>6. ASSUME I!Numbered(look.version), I!Numbered(is.version),
             I!Less(is.version.numbers, look.version.numbers)
      PROVE  "rollback" \in versions
  <2>1. look.version.numbers \in Seq(Int)
    BY PartsAssumption DEF I!IdentityAssumption
  <2>2. look.version # is.version
    BY <1>6, <2>1, NotLess
  <2> QED
    BY <1>2, <1>6, <2>2 DEF Shows, I!VersionChange
<1> HIDE DEF versions, fields, tls
<1>7. I!Changes(r, fp) = {} <=> I!Same(look, is)
  BY <1>1, <1>3, <1>4, <1>5 DEF I!Same
<1> QED
  BY <1>1, <1>6, <1>7 DEF fp

(* The row that is loaded is that of the last look.                        *)
LEMMA LoadsLast ==
  ASSUME IdentityInv, NEW e \in Endpoints, I!LoadFingerprint(e) # NONE
  PROVE  LET r == I!LoadFingerprint(e)
         IN r.endpoint = e /\ taken[e] \in Looks /\ Shows(r, taken[e])
<1> DEFINE its == {r \in rows : r.endpoint = e}
           r == I!LoadFingerprint(e)
<1>1. its # {} /\ r = CHOOSE x \in its : \A q \in its : q.last <= x.last
  BY DEF I!LoadFingerprint
<1> HIDE DEF r
<1>2. taken[e] # NONE /\ taken[e] \in Looks
  BY <1>1 DEF IdentityInv
<1>3. PICK l \in rows : IsLast(l, e) /\ Shows(l, taken[e])
  BY <1>2 DEF IdentityInv
<1>4. l \in its /\ \A q \in its : q.last <= l.last
  BY <1>3 DEF IsLast
<1>5. r \in its /\ \A q \in its : q.last <= r.last
  BY <1>1, <1>4
<1>6. r.last = l.last
  BY <1>4, <1>5 DEF IdentityInv
<1>7. r = l
  BY <1>4, <1>5, <1>6 DEF IdentityInv
<1> QED
  BY <1>2, <1>3, <1>5, <1>7 DEF r

(* Taking a fingerprint makes it the last of its endpoint's, and takes     *)
(* away no other endpoint's.                                               *)
LEMMA IdentityCreates ==
  ASSUME IdentityInv, NEW e \in Endpoints, I!Create(e)
  PROVE  IdentityInv'
<1> DEFINE fp == I!Fingerprint(e, server[e])
<1>1. /\ now' = now + 1 /\ answer' = NONE /\ server' = server
      /\ taken' = [taken EXCEPT ![e] = server[e]]
      /\ rows' = {r \in rows : r.id # fp.id} \cup {fp}
  BY DEF I!Create, I!SaveFingerprint
<1>2. /\ fp.id = <<e, fp.names>> /\ fp.last = now /\ fp.endpoint = e
      /\ Shows(fp, server[e])
  BY DEF I!Fingerprint, Shows
<1>3. now \in Nat /\ server[e] \in Looks /\ NONE \notin Looks
  BY PartsAssumption DEF IdentityInv, I!IdentityAssumption
<1> HIDE DEF fp
<1>4. taken' \in [Endpoints -> Looks \cup {NONE}] /\ taken'[e] = server[e]
      /\ \A x \in Endpoints \ {e} : taken'[x] = taken[x]
  BY <1>1, <1>3 DEF IdentityInv
<1>5. \A r \in rows' : r = fp \/ (r \in rows /\ r.last < now)
  BY <1>1 DEF IdentityInv
<1>6. ASSUME NEW r \in rows'
      PROVE  /\ r.last \in Nat /\ r.last < now' /\ r.id = <<r.endpoint, r.names>>
             /\ r.endpoint \in Endpoints /\ taken'[r.endpoint] # NONE
  <2>1. CASE r = fp
    BY <1>1, <1>2, <1>3, <1>4, <2>1
  <2>2. CASE r \in rows
    <3>1. /\ r.last \in Nat /\ r.last < now /\ r.id = <<r.endpoint, r.names>>
          /\ r.endpoint \in Endpoints /\ taken[r.endpoint] # NONE
      BY <2>2 DEF IdentityInv
    <3> QED
      BY <1>1, <1>3, <1>4, <3>1
  <2> QED
    BY <1>5, <2>1, <2>2
<1>7. ASSUME NEW r \in rows', NEW q \in rows', r.last = q.last PROVE r = q
  BY <1>2, <1>3, <1>5, <1>7 DEF IdentityInv
<1>8. ASSUME NEW x \in Endpoints, taken'[x] # NONE
      PROVE  \E r \in rows' : IsLast(r, x)' /\ Shows(r, taken'[x])
  <2>1. CASE x = e
    <3>1. fp \in rows' /\ fp.endpoint = x
      BY <1>1, <1>2, <2>1
    <3>2. \A q \in rows' : q.last <= fp.last
      BY <1>2, <1>3, <1>5 DEF IdentityInv
    <3> QED
      BY <1>2, <1>4, <2>1, <3>1, <3>2 DEF IsLast
  <2>2. CASE x # e
    <3>1. PICK r \in rows : IsLast(r, x) /\ Shows(r, taken[x])
      BY <1>4, <1>8, <2>2 DEF IdentityInv
    <3>2. r.id # fp.id
      BY <1>2, <2>2, <3>1 DEF IsLast, IdentityInv
    <3>3. r \in rows' /\ \A q \in rows' : q.endpoint = x => q \in rows
      BY <1>1, <1>2, <2>2, <3>2
    <3> QED
      BY <1>4, <2>2, <3>1, <3>3 DEF IsLast
  <2> QED
    BY <2>1, <2>2
<1> QED
  BY <1>1, <1>3, <1>4, <1>6, <1>7, <1>8 DEF IdentityInv, I!ComparesWithLast

(* A comparison tells of the changes since the last look.                  *)
LEMMA IdentityCompares ==
  ASSUME IdentityInv, NEW e \in Endpoints, I!Compare(e)
  PROVE  IdentityInv'
<1>1. UNCHANGED <<server, rows, now, taken>>
  BY DEF I!Compare
<1>2. I!ComparesWithLast'
  <2> DEFINE base == I!LoadFingerprint(e)
  <2>1. CASE base = NONE
    BY <2>1 DEF I!Compare, I!ComparesWithLast
  <2>2. CASE base # NONE
    <3>1. base.endpoint = e /\ taken[e] \in Looks /\ Shows(base, taken[e])
      BY <2>2, LoadsLast
    <3>2. answer' = [endpoint |-> e, changes |-> I!Changes(base, I!Fingerprint(e, server[e]))]
      BY <2>2 DEF I!Compare
    <3>3. server[e] \in Looks /\ taken[e] # NONE
      BY <3>1, PartsAssumption DEF IdentityInv, I!IdentityAssumption
    <3> HIDE DEF base
    <3>4. /\ answer'.changes = {} <=> I!Same(taken[e], server[e])
          /\ /\ I!Numbered(taken[e].version) /\ I!Numbered(server[e].version)
             /\ I!Less(server[e].version.numbers, taken[e].version.numbers)
             => "rollback" \in answer'.changes
      BY <3>1, <3>2, <3>3, ComparisonIsExact
    <3>5. answer'.endpoint = e
      BY <3>2
    <3> QED
      BY <1>1, <3>3, <3>4, <3>5 DEF I!ComparesWithLast
  <2> QED
    BY <2>1, <2>2
<1> QED
  BY <1>1, <1>2 DEF IdentityInv, IsLast

(* However often a server changed and fingerprints were taken, a           *)
(* comparison is with the last one of that server                          *)
(* (cli.py:1715-1860, storage/store.py:539-610).                           *)
THEOREM ComparisonsAreWithLast == Spec => []ComparesWithLast
<1>1. I!Init => IdentityInv
  BY DEF I!Init, IdentityInv, I!ComparesWithLast
<1>2. IdentityInv /\ [I!Next]_(I!vars) => IdentityInv'
  <2> SUFFICES ASSUME IdentityInv, [I!Next]_(I!vars) PROVE IdentityInv'
    OBVIOUS
  <2>1. ASSUME NEW e \in Endpoints, NEW look \in Looks, I!Drift(e, look) PROVE IdentityInv'
    BY <2>1 DEF I!Drift, IdentityInv, IsLast, I!ComparesWithLast
  <2>2. CASE UNCHANGED I!vars
    BY <2>2 DEF I!vars, IdentityInv, IsLast, I!ComparesWithLast
  <2> QED
    BY <2>1, <2>2, IdentityCreates, IdentityCompares DEF I!Next
<1>3. IdentityInv => I!ComparesWithLast
  BY DEF IdentityInv
<1>4. I!ComparesWithLast \/ ~(part = "identity") => ComparesWithLast
  BY DEF ComparesWithLast
<1> QED
  BY <1>1, <1>2, <1>3, <1>4, IdentityPart, PTL DEF I!Spec

-----------------------------------------------------------------------------
(* Arithmetic of the scores.                                               *)

(* A product is at least its factor times less.                            *)
LEMMA ProductGrows ==
  ASSUME NEW b \in Nat, NEW q \in Nat, NEW k \in Nat, q < k
  PROVE  b * q \in Nat /\ b * k \in Nat /\ b * k >= b * q + b
<1>1. k - q - 1 \in Nat /\ b * (k - q - 1) \in Nat
  OBVIOUS
<1>2. b * (k - q - 1) = b * k - b * q - b
  OBVIOUS
<1> QED
  BY <1>1, <1>2

(* Quotient and remainder.                                                 *)
LEMMA Division ==
  ASSUME NEW a \in Nat, NEW b \in Nat \ {0}
  PROVE  /\ a \div b \in Nat /\ a % b \in 0..(b - 1)
         /\ b * (a \div b) \in Nat /\ a % b = a - b * (a \div b)
<1>1. b > 0 /\ b \in Int /\ a \in Int
  OBVIOUS
<1>2. a \div b \in Nat
  BY <1>1
<1>3. a % b \in 0..(b - 1)
  BY <1>1
<1>4. a % b = a - b * (a \div b)
  BY <1>1
<1>5. b * (a \div b) \in Nat
  BY <1>2
<1> QED
  BY <1>2, <1>3, <1>4, <1>5

(* More divided by the same is rounded to no less.                         *)
LEMMA RoundGrows ==
  ASSUME NEW a \in Nat, NEW c \in Nat, a <= c, NEW b \in Nat \ {0}
  PROVE  /\ G!Round(a, b) \in Nat /\ G!Round(c, b) \in Nat
         /\ G!Round(a, b) <= G!Round(c, b)
<1> DEFINE q == a \div b
           r == a % b
           k == c \div b
           s == c % b
<1>1. q \in Nat /\ r \in 0..(b - 1) /\ b * q \in Nat /\ r = a - b * q
  BY Division
<1>2. k \in Nat /\ s \in 0..(b - 1) /\ b * k \in Nat /\ s = c - b * k
  BY Division
<1>3. /\ G!Round(a, b) = IF 2 * r < b \/ (2 * r = b /\ q % 2 = 0) THEN q ELSE q + 1
      /\ G!Round(c, b) = IF 2 * s < b \/ (2 * s = b /\ k % 2 = 0) THEN k ELSE k + 1
  BY DEF G!Round
<1> HIDE DEF q, r, k, s
<1>4. ~(k < q)
  <2> SUFFICES ASSUME k < q PROVE FALSE
    OBVIOUS
  <2>1. b * q >= b * k + b
    BY <1>1, <1>2, ProductGrows
  <2> QED
    BY <1>1, <1>2, <2>1
<1>5. CASE q = k
  <2>1. b * q = b * k
    BY <1>5
  <2>2. r <= s
    BY <1>1, <1>2, <2>1
  <2> QED
    BY <1>1, <1>2, <1>3, <1>5, <2>2
<1>6. CASE q < k
  BY <1>1, <1>2, <1>3, <1>6
<1> QED
  BY <1>1, <1>2, <1>4, <1>5, <1>6

(* A multiple is rounded to itself.                                        *)
LEMMA RoundExact ==
  ASSUME NEW k \in Nat, NEW b \in Nat \ {0}
  PROVE  G!Round(b * k, b) = k
<1> DEFINE a == b * k
           q == a \div b
           r == a % b
<1>0. a \in Nat
  OBVIOUS
<1>1. q \in Nat /\ r \in 0..(b - 1) /\ b * q \in Nat /\ r = a - b * q
  BY <1>0, Division
<1>2. G!Round(a, b) = IF 2 * r < b \/ (2 * r = b /\ q % 2 = 0) THEN q ELSE q + 1
  BY DEF G!Round
<1> HIDE DEF q, r
<1>3. ~(q < k)
  <2> SUFFICES ASSUME q < k PROVE FALSE
    OBVIOUS
  <2>1. b * k >= b * q + b
    BY <1>1, ProductGrows
  <2> QED
    BY <1>1, <2>1
<1>4. ~(k < q)
  <2> SUFFICES ASSUME k < q PROVE FALSE
    OBVIOUS
  <2>1. b * q >= b * k + b
    BY <1>1, ProductGrows
  <2> QED
    BY <1>1, <1>0, <2>1
<1>5. q = k
  BY <1>1, <1>3, <1>4
<1>6. r = 0
  BY <1>0, <1>1, <1>5
<1> QED
  BY <1>2, <1>5, <1>6

(* The modules' counts are those of the library.                           *)
LEMMA ScoresCountAlike ==
  /\ \A Z : G!Cardinality(Z) = Cardinality(Z)
  /\ \A Z : G!IsFiniteSet(Z) <=> IsFiniteSet(Z)
<1>1. \A Z : G!Cardinality(Z) = Cardinality(Z)
  BY DEF G!Cardinality, Cardinality
<1>2. \A Z : G!IsFiniteSet(Z) <=> IsFiniteSet(Z)
  BY DEF G!IsFiniteSet, IsFiniteSet
<1> QED
  BY <1>1, <1>2

(* There are finitely many capability classes.                             *)
LEMMA ClassesAreFinite == IsFiniteSet(G!Classes)
<1>1. \A a, b : IsFiniteSet({a} \cup {b})
  BY FS_Singleton, FS_AddElement
<1>2. \A a, b, c, d : IsFiniteSet(({a} \cup {b}) \cup ({c} \cup {d}))
  BY <1>1, FS_Union
<1>3. \A a, b, c, d, e, f, g, h :
        IsFiniteSet((({a} \cup {b}) \cup ({c} \cup {d})) \cup (({e} \cup {f}) \cup ({g} \cup {h})))
  BY <1>2, FS_Union
<1>4. G!Classes = (({"code_exec"} \cup {"browser_control"}) \cup ({"db_write"} \cup {"fs_write"}))
                  \cup (({"secret_access"} \cup {"net_egress"})
                        \cup ({"fs_read"} \cup {"pure_compute"}))
  BY DEF G!Classes, G!Weight
<1> QED
  BY <1>3, <1>4

(* The greatest of some weights and zero.                                  *)
LEMMA GreatestWeight ==
  ASSUME NEW T, T \subseteq {0, 2, 4, 6, 8, 10, 12, 16}, 0 \in T
  PROVE  G!Max(T) \in Nat
<1>1. \E x \in T : \A y \in T : x >= y
  <2>1. CASE 16 \in T
    BY <2>1
  <2>2. CASE 16 \notin T /\ 12 \in T
    BY <2>2
  <2>3. CASE 16 \notin T /\ 12 \notin T /\ 10 \in T
    BY <2>3
  <2>4. CASE T \cap {16, 12, 10} = {} /\ 8 \in T
    BY <2>4
  <2>5. CASE T \cap {16, 12, 10, 8} = {} /\ 6 \in T
    BY <2>5
  <2>6. CASE T \cap {16, 12, 10, 8, 6} = {} /\ 4 \in T
    BY <2>6
  <2>7. CASE T \cap {16, 12, 10, 8, 6, 4} = {} /\ 2 \in T
    BY <2>7
  <2>8. CASE T \cap {16, 12, 10, 8, 6, 4, 2} = {}
    BY <2>8
  <2> QED
    BY <2>1, <2>2, <2>3, <2>4, <2>5, <2>6, <2>7, <2>8
<1>2. G!Max(T) \in T
  BY <1>1 DEF G!Max
<1>3. \A x \in T : x \in Nat
  OBVIOUS
<1> QED
  BY <1>2, <1>3

(* The capability score is a number, and none without tools.               *)
LEMMA AarsIsNumber ==
  ASSUME NEW T, \A t \in T : t \subseteq G!Classes
  PROVE  G!Aars(T) \in Nat
<1> DEFINE present == UNION {G!TagTool(t) : t \in T}
           top == G!Max({G!Weight[c] : c \in present} \cup {0})
           others == {c \in present : G!Weight[c] >= 4 /\ G!Weight[c] < top}
<1>1. \A t \in T : G!TagTool(t) \subseteq G!Classes
  BY DEF G!TagTool, G!Classes, G!Weight
<1>2. present \subseteq G!Classes
  BY <1>1
<1>3. \A c \in G!Classes : G!Weight[c] \in {0, 2, 4, 6, 8, 10, 12, 16}
  BY DEF G!Classes, G!Weight
<1>4. top \in Nat
  BY <1>2, <1>3, GreatestWeight
<1>5. G!Cardinality(others) \in Nat
  <2>1. others \subseteq G!Classes
    BY <1>2
  <2> QED
    BY <2>1, ClassesAreFinite, ScoresCountAlike, FS_Subset, FS_CardinalityType
<1>6. G!Aars(T) = G!Least(20, top + G!Cardinality(others))
  BY DEF G!Aars
<1> QED
  BY <1>4, <1>5, <1>6 DEF G!Least

(* No tools can do nothing.                                                *)
LEMMA AarsOfNone == G!Aars({}) = 0
<1> DEFINE present == UNION {G!TagTool(t) : t \in {}}
           top == G!Max({G!Weight[c] : c \in present} \cup {0})
           others == {c \in present : G!Weight[c] >= 4 /\ G!Weight[c] < top}
<1>1. present = {}
  OBVIOUS
<1>2. {G!Weight[c] : c \in present} \cup {0} = {0} /\ others = {}
  BY <1>1
<1>3. top = 0
  BY <1>2 DEF G!Max
<1>4. G!Cardinality(others) = 0
  BY <1>2, ScoresCountAlike, FS_EmptySet
<1>5. G!Aars({}) = G!Least(20, top + G!Cardinality(others))
  BY DEF G!Aars
<1> QED
  BY <1>3, <1>4, <1>5 DEF G!Least

(* More findings are no fewer of any severity.                             *)
LEMMA CountsGrow ==
  ASSUME NEW Y, IsFiniteSet(Y), NEW X, X \subseteq Y, NEW s
  PROVE  /\ G!CountWith(X, s) \in Nat /\ G!CountWith(Y, s) \in Nat
         /\ G!CountWith(X, s) <= G!CountWith(Y, s)
         /\ G!WithSeverity(Y, s) # {} => G!CountWith(Y, s) > 0
<1>1. G!WithSeverity(X, s) \subseteq G!WithSeverity(Y, s)
      /\ G!WithSeverity(Y, s) \subseteq Y
  BY DEF G!WithSeverity
<1>2. IsFiniteSet(G!WithSeverity(Y, s)) /\ IsFiniteSet(G!WithSeverity(X, s))
  BY <1>1, FS_Subset
<1>3. Cardinality(G!WithSeverity(X, s)) <= Cardinality(G!WithSeverity(Y, s))
  BY <1>1, <1>2, FS_Subset
<1>4. Cardinality(G!WithSeverity(X, s)) \in Nat /\ Cardinality(G!WithSeverity(Y, s)) \in Nat
  BY <1>2, FS_CardinalityType
<1>5. G!WithSeverity(Y, s) # {} => Cardinality(G!WithSeverity(Y, s)) # 0
  BY <1>2, FS_EmptySet
<1> QED
  BY <1>3, <1>4, <1>5, ScoresCountAlike DEF G!CountWith

(* The load of more findings is no lower, and has its floors.              *)
LEMMA BaseGrows ==
  ASSUME NEW Y, IsFiniteSet(Y), NEW X, X \subseteq Y, NEW n \in Nat
  PROVE  /\ G!Base(X, n) \in Nat /\ G!Base(Y, n) \in Nat
         /\ G!Base(X, n) <= G!Base(Y, n)
         /\ G!CountWith(Y, "critical") > 0 => G!Base(Y, n) >= 40 * n
         /\ G!CountWith(Y, "high") > 0 => G!Base(Y, n) >= 24 * n
<1> DEFINE c == G!CountWith(X, "critical")  C1 == G!CountWith(Y, "critical")
           h == G!CountWith(X, "high")      H1 == G!CountWith(Y, "high")
           m == G!CountWith(X, "medium")    M1 == G!CountWith(Y, "medium")
           l == 8 * (c * 10 + h * 7 + m * 4)
           L1 == 8 * (C1 * 10 + H1 * 7 + M1 * 4)
           b == IF c > 0 THEN G!Greatest(l, 8 * n * 5)
                ELSE IF h > 0 THEN G!Greatest(l, 8 * n * 3) ELSE l
           B1 == IF C1 > 0 THEN G!Greatest(L1, 8 * n * 5)
                 ELSE IF H1 > 0 THEN G!Greatest(L1, 8 * n * 3) ELSE L1
<1>1. /\ c \in Nat /\ C1 \in Nat /\ c <= C1
      /\ h \in Nat /\ H1 \in Nat /\ h <= H1
      /\ m \in Nat /\ M1 \in Nat /\ m <= M1
  BY CountsGrow
<1>2. G!Base(X, n) = b /\ G!Base(Y, n) = B1
  BY <1>1 DEF G!Base
<1> HIDE DEF c, C1, h, H1, m, M1
<1>3. l \in Nat /\ L1 \in Nat /\ l <= L1
  BY <1>1
<1> HIDE DEF l, L1
<1>4. b \in Nat /\ B1 \in Nat /\ b <= B1
  BY <1>1, <1>3 DEF G!Greatest
<1>5. (C1 > 0 => B1 >= 40 * n) /\ (H1 > 0 => B1 >= 24 * n)
  BY <1>1, <1>3 DEF G!Greatest
<1> QED
  BY <1>2, <1>4, <1>5 DEF C1, H1

(* The score of more findings, or of more capable tools, is no lower; and  *)
(* a critical finding costs half of it, a high one three tenths.           *)
LEMMA ScoreGrows ==
  ASSUME NEW Y, IsFiniteSet(Y), NEW X, X \subseteq Y, NEW T, NEW U, NEW count \in Nat,
         G!Aars(T) \in Nat, G!Aars(U) \in Nat, G!Aars(T) <= G!Aars(U)
  PROVE  /\ G!MrsCapability(X, T, count) <= G!MrsCapability(Y, U, count)
         /\ G!MrsCapability(X, T, count) \in 0..100 /\ G!MrsCapability(Y, U, count) \in 0..100
         /\ G!CountWith(Y, "critical") > 0 => G!MrsCapability(Y, U, count) >= 50
         /\ G!CountWith(Y, "high") > 0 => G!MrsCapability(Y, U, count) >= 30
<1> DEFINE n == G!Greatest(count, 3)
           x == G!Base(X, n)                    y == G!Base(Y, n)
           sx == x + 4 * n * G!Aars(T)          sy == y + 4 * n * G!Aars(U)
           tx == IF \E f \in X : f.rule = "R111" THEN 23 ELSE 20
           ty == IF \E f \in Y : f.rule = "R111" THEN 23 ELSE 20
           gx == G!Greatest(40 * x, sx * tx)    gy == G!Greatest(40 * y, sy * ty)
<1>1. n \in Nat /\ n >= 3
  BY DEF G!Greatest
<1>2. /\ G!MrsCapability(X, T, count) = G!Least(100, G!Round(gx, 32 * n))
      /\ G!MrsCapability(Y, U, count) = G!Least(100, G!Round(gy, 32 * n))
  BY DEF G!MrsCapability
<1> HIDE DEF n
<1>3. /\ x \in Nat /\ y \in Nat /\ x <= y
      /\ G!CountWith(Y, "critical") > 0 => y >= 40 * n
      /\ G!CountWith(Y, "high") > 0 => y >= 24 * n
  BY <1>1, BaseGrows
<1> HIDE DEF x, y
<1>4. sx \in Nat /\ sy \in Nat /\ sx <= sy
  <2> DEFINE w == 4 * n
  <2>1. w \in Nat
    BY <1>1
  <2>2. w * G!Aars(T) \in Nat /\ w * G!Aars(U) \in Nat /\ w * G!Aars(T) <= w * G!Aars(U)
    <3> HIDE DEF w
    <3>1. CASE G!Aars(T) = G!Aars(U)
      BY <2>1, <3>1
    <3>2. CASE G!Aars(T) < G!Aars(U)
      BY <2>1, <3>2, ProductGrows
    <3> QED
      BY <3>1, <3>2
  <2> QED
    BY <1>3, <2>2
<1> HIDE DEF sx, sy
<1>5. tx \in {20, 23} /\ ty \in {20, 23} /\ tx <= ty
  OBVIOUS
<1> HIDE DEF tx, ty
<1>6. gx \in Nat /\ gy \in Nat /\ gx <= gy /\ gy >= 40 * y
  <2>1. sx * tx \in Nat /\ sy * ty \in Nat /\ sx * tx <= sy * ty
    <3>1. CASE tx = 20 /\ ty = 20
      BY <1>4, <3>1
    <3>2. CASE tx = 20 /\ ty = 23
      BY <1>4, <3>2
    <3>3. CASE tx = 23 /\ ty = 23
      BY <1>4, <3>3
    <3> QED
      BY <1>5, <3>1, <3>2, <3>3
  <2> QED
    BY <1>3, <2>1 DEF G!Greatest
<1> HIDE DEF gx, gy
<1>7. 32 * n \in Nat \ {0}
  BY <1>1
<1>8. /\ G!Round(gx, 32 * n) \in Nat /\ G!Round(gy, 32 * n) \in Nat
      /\ G!Round(gx, 32 * n) <= G!Round(gy, 32 * n)
  BY <1>6, <1>7, RoundGrows
<1>9. ASSUME NEW k \in {30, 50}, gy >= (32 * n) * k PROVE G!Round(gy, 32 * n) >= k
  <2>1. (32 * n) * k \in Nat /\ k \in Nat
    BY <1>1
  <2>2. G!Round((32 * n) * k, 32 * n) = k
    BY <1>7, <2>1, RoundExact
  <2> QED
    BY <1>6, <1>7, <1>9, <2>1, <2>2, RoundGrows
<1>10. G!CountWith(Y, "critical") > 0 => gy >= (32 * n) * 50
  BY <1>1, <1>3, <1>6
<1>11. G!CountWith(Y, "high") > 0 => gy >= (32 * n) * 30
  BY <1>1, <1>3, <1>6
<1>12. /\ G!CountWith(Y, "critical") > 0 => G!Round(gy, 32 * n) >= 50
       /\ G!CountWith(Y, "high") > 0 => G!Round(gy, 32 * n) >= 30
  BY <1>9, <1>10, <1>11
<1> QED
  BY <1>2, <1>8, <1>12 DEF G!Least

-----------------------------------------------------------------------------
(* The gate.                                                               *)
PolicyInv ==
  /\ day \in Nat
  /\ policy \in PolicyFiles
  /\ reported \subseteq Findings
  /\ tools \subseteq DOMAIN Matched

(* The score of a report is a number, and that of more is no lower.        *)
LEMMA ReportScored ==
  ASSUME PolicyInv, NEW X, NEW Y, X \subseteq Y, Y \subseteq Findings
  PROVE  LET classes == {Matched[t] : t \in tools}
             count == G!Cardinality(tools)
         IN /\ IsFiniteSet(Y) /\ count \in Nat
            /\ G!Aars(classes) \in Nat
            /\ G!MrsCapability(X, classes, count) \in 0..100
            /\ G!MrsCapability(Y, classes, count) \in 0..100
            /\ G!MrsCapability(X, classes, count) <= G!MrsCapability(Y, classes, count)
<1> DEFINE classes == {Matched[t] : t \in tools}
           count == G!Cardinality(tools)
<1>1. /\ IsFiniteSet(Findings) /\ IsFiniteSet(DOMAIN Matched)
      /\ \A t \in DOMAIN Matched : Matched[t] \subseteq G!Classes
  BY PartsAssumption, ScoresCountAlike DEF G!PolicyAssumption
<1>2. IsFiniteSet(Y)
  BY <1>1, FS_Subset
<1>3. count \in Nat
  BY <1>1, ScoresCountAlike, FS_Subset, FS_CardinalityType DEF PolicyInv
<1>4. G!Aars(classes) \in Nat
  BY <1>1, AarsIsNumber DEF PolicyInv
<1> HIDE DEF classes, count
<1>5. /\ G!MrsCapability(X, classes, count) \in 0..100
      /\ G!MrsCapability(Y, classes, count) \in 0..100
      /\ G!MrsCapability(X, classes, count) <= G!MrsCapability(Y, classes, count)
  BY <1>2, <1>3, <1>4, ScoreGrows
<1> QED
  BY <1>2, <1>3, <1>4, <1>5 DEF classes, count

(* Reports stay what they are.                                             *)
LEMMA PolicyInvariant == G!Spec => []PolicyInv
<1>1. G!Init => PolicyInv
  BY DEF G!Init, PolicyInv
<1>2. PolicyInv /\ [G!Next]_(G!vars) => PolicyInv'
  BY DEF G!Next, G!Tomorrow, G!FindMore, G!FallShort, G!vars, PolicyInv
<1> QED
  BY <1>1, <1>2, PTL DEF G!Spec

(* As days pass and findings come no active finding goes.                  *)
LEMMA ActiveGrows ==
  ASSUME PolicyInv, [G!Next]_(G!vars)
  PROVE  /\ UNCHANGED <<policy, tools>> /\ (incomplete => incomplete')
         /\ G!Active(day) \subseteq G!Active(day)'
         /\ G!Active(day)' \subseteq Findings
         /\ G!Expired(day) \subseteq G!Expired(day)'
<1>1. /\ UNCHANGED <<policy, tools>> /\ (incomplete => incomplete')
      /\ day \in Nat /\ day' \in Nat /\ day <= day'
      /\ reported \subseteq reported' /\ reported' \subseteq Findings
  BY DEF G!Next, G!Tomorrow, G!FindMore, G!FallShort, G!vars, PolicyInv
<1>2. \A s \in policy.suppressions : s.expires \in Int
  BY PartsAssumption DEF G!PolicyAssumption, PolicyInv
<1>3. ASSUME NEW f \in reported, f \in G!Suppressed(day)' PROVE f \in G!Suppressed(day)
  <2>1. PICK s \in policy.suppressions : G!Matches(s, f, day')
    BY <1>1, <1>3 DEF G!Suppressed
  <2>2. G!Matches(s, f, day)
    BY <1>1, <1>2, <2>1 DEF G!Matches
  <2> QED
    BY <2>1, <2>2 DEF G!Suppressed
<1>4. G!Active(day) \subseteq G!Active(day)'
  BY <1>1, <1>3 DEF G!Active
<1>5. G!Active(day)' \subseteq Findings
  BY <1>1 DEF G!Active
<1>6. G!Expired(day) \subseteq G!Expired(day)'
  BY <1>1, <1>2 DEF G!Expired
<1> QED
  BY <1>1, <1>4, <1>5, <1>6

(* What a report was refused for stays.                                    *)
LEMMA GateStep ==
  ASSUME PolicyInv, [G!Next]_(G!vars)
  PROVE  G!GateOnlyCloses
<1>1. PICK X : X = G!Active(day)
  OBVIOUS
<1>2. PICK Y : Y = G!Active(day)'
  OBVIOUS
<1>3. /\ policy' = policy /\ tools' = tools /\ (incomplete => incomplete')
      /\ X \subseteq Y /\ Y \subseteq Findings /\ G!Expired(day) \subseteq G!Expired(day)'
  BY <1>1, <1>2, ActiveGrows
<1>4. G!Loads(policy)' <=> G!Loads(policy)
  BY <1>3 DEF G!Loads
<1>5. ASSUME G!Loads(policy), ~G!Passed(day) PROVE ~G!Passed(day)'
  <2> DEFINE denied == {f \in X : f.rule \in policy.deny}
             severe == {f \in X \ denied : G!AtLeast(f.severity, policy.failOn)}
             deniedNow == {f \in Y : f.rule \in policy.deny}
             severeNow == {f \in Y \ deniedNow : G!AtLeast(f.severity, policy.failOn)}
  <2>1. G!Passed(day) <=> /\ ~(policy.complete /\ incomplete) /\ denied = {} /\ severe = {}
                          /\ ~(G!Score(day) > policy.maxRisk) /\ G!Expired(day) = {}
    BY <1>1 DEF G!Passed, G!Violations
  <2>2. G!Passed(day)' <=> /\ ~(policy.complete /\ incomplete') /\ deniedNow = {} /\ severeNow = {}
                           /\ ~(G!Score(day)' > policy.maxRisk) /\ G!Expired(day)' = {}
    BY <1>2, <1>3 DEF G!Passed, G!Violations, G!AtLeast
  <2>3. denied \subseteq deniedNow /\ severe \subseteq severeNow
    BY <1>3
  <2>4. G!Score(day) > policy.maxRisk => G!Score(day)' > policy.maxRisk
    <3>1. PICK s, t : s = G!Score(day) /\ t = G!Score(day)'
      OBVIOUS
    <3>2. /\ s = G!MrsCapability(X, {Matched[k] : k \in tools}, G!Cardinality(tools))
          /\ t = G!MrsCapability(Y, {Matched[k] : k \in tools}, G!Cardinality(tools))
      BY <1>1, <1>2, <1>3, <3>1 DEF G!Score
    <3>3. s \in 0..100 /\ t \in 0..100 /\ s <= t
      BY <1>3, <3>2, ReportScored
    <3>4. policy.maxRisk \in Int
      BY <1>5 DEF G!Loads
    <3> QED
      BY <3>1, <3>3, <3>4
  <2> HIDE DEF denied, severe, deniedNow, severeNow
  <2> QED
    BY <1>3, <1>5, <2>1, <2>2, <2>3, <2>4
<1> QED
  BY <1>4, <1>5 DEF G!GateOnlyCloses, G!ExitCode

(* Neither time nor further findings nor an incomplete scan opens the gate *)
(* for a report that did not pass (policy/engine.py:134-194).              *)
THEOREM GateStaysClosed == Spec => GateOnlyCloses
<1>1. PolicyInv \/ ~(part = "policy") => (part = "policy" => PolicyInv)
  OBVIOUS
<1>2. [Next]_vars /\ (part = "policy" => PolicyInv) =>
        [part = "policy" => G!GateOnlyCloses]_vars
  <2>1. part = "policy" /\ [Next]_vars => [G!Next]_(G!vars)
    BY DEF Next, vars, G!vars
  <2> QED
    BY <2>1, GateStep
<1> QED
  BY <1>1, <1>2, PolicyInvariant, PolicyPart, PTL DEF Spec, GateOnlyCloses

(* A grade tells of the worst finding that is active, whatever the tools   *)
(* can do and however many they are (scoring/engine.py:87-139).            *)
THEOREM GradesReflectWorst == Spec => []GradeReflectsWorst
<1>1. PolicyInv => G!GradeReflectsWorst
  <2> SUFFICES ASSUME PolicyInv PROVE G!GradeReflectsWorst
    OBVIOUS
  <2> DEFINE Y == G!Active(day)
             classes == {Matched[t] : t \in tools}
             count == G!Cardinality(tools)
             score == G!MrsCapability(Y, classes, count)
             bare == G!MrsCapability(Y, {}, count)
  <2>1. Y \subseteq Findings /\ G!Score(day) = score
    BY DEF G!Active, G!Score, PolicyInv
  <2>2. IsFiniteSet(Y) /\ count \in Nat /\ G!Aars(classes) \in Nat
    BY <2>1, ReportScored
  <2> HIDE DEF Y, classes, count
  <2>3. /\ score \in 0..100
        /\ G!CountWith(Y, "critical") > 0 => score >= 50
        /\ G!CountWith(Y, "high") > 0 => score >= 30
    BY <2>2, ScoreGrows
  <2>4. bare <= score
    BY <2>2, AarsOfNone, ScoreGrows
  <2> HIDE DEF score, bare
  <2>5. /\ G!WithSeverity(Y, "critical") # {} => score >= 50
        /\ G!WithSeverity(Y, "high") # {} => score >= 30
    BY <2>2, <2>3, CountsGrow
  <2>6. score >= 50 => G!Grade(score) \in {"D", "F"}
    BY <2>3 DEF G!Grade
  <2>7. score >= 30 => G!Grade(score) \in {"C", "D", "F"}
    BY <2>3 DEF G!Grade
  <2>8. bare \in 0..100
    BY <2>2, AarsOfNone, ScoreGrows DEF bare
  <2> QED
    BY <2>1, <2>3, <2>4, <2>5, <2>6, <2>7, <2>8 DEF G!GradeReflectsWorst, G!Has, Y, bare, count
<1>2. G!GradeReflectsWorst \/ ~(part = "policy") => GradeReflectsWorst
  BY DEF GradeReflectsWorst
<1> QED
  BY <1>1, <1>2, PolicyInvariant, PolicyPart, PTL

-----------------------------------------------------------------------------
(* A set of places of a sequence that is not empty has a last one.         *)
LEMMA LastPlace ==
  ASSUME NEW n \in Nat, NEW at, at \subseteq 0..n, at # {}
  PROVE  \E i \in at : \A j \in at : j <= i
<1> DEFINE Less == {p \in Nat \X Nat : p[1] < p[2]}
           Left == {n - i : i \in at}
<1>1. IsWellFoundedOn(Less, Nat)
  BY NatLessThanWellFounded DEF OpToRel
<1>2. \A x, y \in Nat : x < y => <<x, y>> \in Less
  OBVIOUS
<1>3. \A i \in at : n - i \in Left /\ i \in Nat /\ n - i \in Nat
  OBVIOUS
<1>4. Left \subseteq Nat
  BY <1>3
<1>5. PICK least \in at : \A y \in Left : ~(<<y, n - least>> \in Less)
  <2>1. Left # {}
    BY <1>3
  <2> HIDE DEF Less
  <2>2. \E x \in Left : \A y \in Left : ~(<<y, x>> \in Less)
    <3> HIDE DEF Left
    <3> QED
      BY <1>1, <1>4, <2>1, WFMin
  <2> QED
    BY <2>2
<1>6. ASSUME NEW j \in at
      PROVE  j <= least
  <2>1. n - j \in Left /\ n - j \in Nat /\ n - least \in Nat /\ j \in Nat /\ least \in Nat
    BY <1>3
  <2> HIDE DEF Left, Less
  <2>2. ~(n - j < n - least)
    BY <2>1, <1>2, <1>5
  <2> QED
    BY <2>1, <2>2
<1> QED
  BY <1>6

(* The tool a report has under a name is one it lists, of that name.       *)
LEMMA ToolIsListed ==
  ASSUME D!DifferAssumption, NEW r \in Histories, NEW n \in D!ToolNames(r)
  PROVE  /\ D!Tool(r, n).name = n
         /\ \E i \in DOMAIN r.tools : D!Tool(r, n) = r.tools[i]
<1> DEFINE at == {i \in DOMAIN r.tools : r.tools[i].name = n}
<1>1. Len(r.tools) \in Nat /\ DOMAIN r.tools = 1..Len(r.tools)
  BY DEF D!DifferAssumption
<1>2. at # {}
  BY DEF D!ToolNames
<1>3. \E i \in at : \A j \in at : j <= i
  <2>1. at \subseteq 0..Len(r.tools)
    BY <1>1
  <2> HIDE DEF at
  <2> QED
    BY <1>1, <1>2, <2>1, LastPlace
<1>4. \E i \in DOMAIN r.tools :
        /\ r.tools[i].name = n
        /\ \A j \in DOMAIN r.tools : r.tools[j].name = n => j <= i
  BY <1>3
<1> QED
  BY <1>4 DEF D!Tool

(* A tool as the differ sees it.                                           *)
Listed(t) == t = [name |-> t.name, description |-> t.description,
                  input |-> t.input, output |-> t.output]

(* The tool a report has under a name is such a record.                    *)
LEMMA ToolIsRecord ==
  ASSUME D!DifferAssumption, NEW r \in Histories, NEW n \in D!ToolNames(r)
  PROVE  Listed(D!Tool(r, n)) /\ D!Tool(r, n).name = n
<1>1. \A t \in D!Range(r.tools) : Listed(t)
  BY DEF D!DifferAssumption, Listed
<1>2. \E i \in DOMAIN r.tools : D!Tool(r, n) = r.tools[i]
  BY ToolIsListed
<1>3. D!Tool(r, n) \in D!Range(r.tools)
  BY <1>2 DEF D!Range
<1> QED
  BY <1>1, <1>3, ToolIsListed

(* Two tools of a name have a change between them just if they differ.     *)
LEMMA ToolChangesExact ==
  ASSUME NEW s, NEW t, Listed(s), Listed(t), s.name = t.name
  PROVE  D!ToolChanges(s, t) = {} <=> s = t
<1>1. D!ToolChanges(s, t) = {} <=>
        s.description = t.description /\ s.input = t.input /\ s.output = t.output
  BY DEF D!ToolChanges
<1> QED
  BY <1>1 DEF Listed

(* No tool is added, removed or changed just if every name has the same    *)
(* tool in both reports.                                                   *)
LEMMA ToolDiffsExact ==
  ASSUME D!DifferAssumption, NEW a \in Histories, NEW b \in Histories
  PROVE  LET d == D!ToolDiffs(a, b)
         IN d.added = {} /\ d.removed = {} /\ d.changed = {} <=>
              [n \in D!ToolNames(a) |-> D!Tool(a, n)] = [n \in D!ToolNames(b) |-> D!Tool(b, n)]
<1> DEFINE d == D!ToolDiffs(a, b)
           Both == D!ToolNames(a) \cap D!ToolNames(b)
           OfA == [n \in D!ToolNames(a) |-> D!Tool(a, n)]
           OfB == [n \in D!ToolNames(b) |-> D!Tool(b, n)]
<1>1. d.added = {} /\ d.removed = {} <=> D!ToolNames(a) = D!ToolNames(b)
  BY DEF D!ToolDiffs
<1>2. d.changed = {} <=> \A n \in Both : D!ToolChanges(D!Tool(a, n), D!Tool(b, n)) = {}
  <2> DEFINE Of(n) == {n} \X D!ToolChanges(D!Tool(a, n), D!Tool(b, n))
  <2>1. d.changed = UNION {Of(n) : n \in Both}
    BY DEF D!ToolDiffs
  <2>2. \A n : Of(n) = {} <=> D!ToolChanges(D!Tool(a, n), D!Tool(b, n)) = {}
    <3>1. \A n, Z : {n} \X Z = {} <=> Z = {}
      <4>1. \A n, Z : \A z \in Z : <<n, z>> \in {n} \X Z
        OBVIOUS
      <4> QED
        BY <4>1
    <3> QED
      BY <3>1
  <2> HIDE DEF Of, d
  <2>3. UNION {Of(n) : n \in Both} = {} <=> \A n \in Both : Of(n) = {}
    OBVIOUS
  <2> QED
    BY <2>1, <2>2, <2>3
<1>3. \A n \in Both :
        D!ToolChanges(D!Tool(a, n), D!Tool(b, n)) = {} <=> D!Tool(a, n) = D!Tool(b, n)
  BY ToolIsRecord, ToolChangesExact
<1>4. OfA = OfB => D!ToolNames(a) = D!ToolNames(b) /\ \A n \in Both : D!Tool(a, n) = D!Tool(b, n)
  <2>1. DOMAIN OfA = D!ToolNames(a) /\ DOMAIN OfB = D!ToolNames(b)
    OBVIOUS
  <2>2. \A n \in Both : OfA[n] = D!Tool(a, n) /\ OfB[n] = D!Tool(b, n)
    OBVIOUS
  <2> HIDE DEF OfA, OfB
  <2> QED
    BY <2>1, <2>2
<1>5. D!ToolNames(a) = D!ToolNames(b) /\ (\A n \in Both : D!Tool(a, n) = D!Tool(b, n)) => OfA = OfB
  OBVIOUS
<1> HIDE DEF d, OfA, OfB
<1>6. d.added = {} /\ d.removed = {} /\ d.changed = {} <=> OfA = OfB
  BY <1>1, <1>2, <1>3, <1>4, <1>5
<1> QED
  BY <1>6 DEF d, OfA, OfB

(* Functions of one domain are equal just if their values are.             *)
LEMMA SameFunction ==
  ASSUME NEW f, NEW g, D!IsFunction(f), D!IsFunction(g), DOMAIN f = DOMAIN g
  PROVE  (\A x \in DOMAIN f : f[x] = g[x]) <=> f = g
BY DEF D!IsFunction

(* Tools of one name in two reports have schemas of the same properties.   *)
LEMMA SchemasAlike ==
  ASSUME D!DifferAssumption, NEW a \in Histories, NEW b \in Histories,
         NEW n \in D!ToolNames(a) \cap D!ToolNames(b)
  PROVE  /\ DOMAIN D!Tool(a, n).input.props = DOMAIN D!Tool(b, n).input.props
         /\ DOMAIN D!Tool(a, n).output.props = DOMAIN D!Tool(b, n).output.props
<1>1. \A r \in Histories : \A m \in D!ToolNames(r) : D!Tool(r, m) \in D!Range(r.tools)
  BY ToolIsListed DEF D!Range
<1>2. D!Tool(a, n) \in D!Range(a.tools) /\ D!Tool(b, n) \in D!Range(b.tools)
  BY <1>1
<1> QED
  BY <1>2 DEF D!DifferAssumption

(* Two reports name the same surfaces, items and features.                 *)
LEMMA ReportsAlike ==
  ASSUME D!DifferAssumption, NEW a \in Histories, NEW b \in Histories
  PROVE  /\ D!IsFunction(a.status) /\ D!IsFunction(b.status) /\ DOMAIN a.status = DOMAIN b.status
         /\ D!IsFunction(a.fingerprint) /\ D!IsFunction(b.fingerprint)
         /\ DOMAIN a.fingerprint = DOMAIN b.fingerprint
         /\ D!IsFunction(a.items) /\ D!IsFunction(b.items)
         /\ DOMAIN a.items = D!Kinds /\ DOMAIN b.items = D!Kinds
         /\ \A k \in D!Kinds : /\ D!IsFunction(a.items[k]) /\ D!IsFunction(b.items[k])
                               /\ DOMAIN a.items[k] = DOMAIN b.items[k]
BY DEF D!DifferAssumption

(* The descriptions of the items a report has.                             *)
Described(items) == [i \in D!Present(items) |-> items[i].description]

(* No item appears, goes or has another description just if the reports    *)
(* have the same items with the same descriptions.                         *)
LEMMA ItemsExact ==
  ASSUME D!DifferAssumption, NEW a \in Histories, NEW b \in Histories
  PROVE  (\A k \in D!Kinds :
            /\ D!Present(b.items[k]) \ D!Present(a.items[k]) = {}
            /\ D!Present(a.items[k]) \ D!Present(b.items[k]) = {}
            /\ D!DescriptionChanges(k, a.items[k], b.items[k]) = {})
         <=> \A k \in D!Kinds : Described(a.items[k]) = Described(b.items[k])
<1>1. ASSUME NEW x, NEW y, NEW k
      PROVE  /\ D!Present(y) \ D!Present(x) = {} /\ D!Present(x) \ D!Present(y) = {}
             /\ D!DescriptionChanges(k, x, y) = {}
             <=> Described(x) = Described(y)
  <2>1. D!DescriptionChanges(k, x, y) = {} <=>
          \A i \in D!Present(x) \cap D!Present(y) : x[i].description = y[i].description
    BY DEF D!DescriptionChanges
  <2>2. /\ DOMAIN Described(x) = D!Present(x) /\ DOMAIN Described(y) = D!Present(y)
        /\ \A i \in D!Present(x) : Described(x)[i] = x[i].description
        /\ \A i \in D!Present(y) : Described(y)[i] = y[i].description
    BY DEF Described
  <2>3. ASSUME D!Present(x) = D!Present(y),
               \A i \in D!Present(x) : x[i].description = y[i].description
        PROVE  Described(x) = Described(y)
    BY <2>3 DEF Described
  <2> QED
    BY <2>1, <2>2, <2>3
<1> QED
  BY <1>1

(* A status is reported to have changed just if that of a surface did, or  *)
(* whether the scan was complete.                                          *)
LEMMA StatusExact ==
  ASSUME D!DifferAssumption, NEW a \in Histories, NEW b \in Histories
  PROVE  D!StatusChanges(a, b) = {} <=> a.status = b.status /\ a.incomplete = b.incomplete
<1>1. D!StatusChanges(a, b) = {} <=>
        (\A s \in DOMAIN a.status : a.status[s] = b.status[s]) /\ a.incomplete = b.incomplete
  BY DEF D!StatusChanges
<1>2. (\A s \in DOMAIN a.status : a.status[s] = b.status[s]) <=> a.status = b.status
  BY ReportsAlike, SameFunction
<1> QED
  BY <1>1, <1>2

(* The fingerprint is reported to have changed just if a feature of it or  *)
(* the number of tools did.                                                *)
LEMMA FingerprintExact ==
  ASSUME D!DifferAssumption, NEW a \in Histories, NEW b \in Histories
  PROVE  D!FingerprintChanges(a, b) = {} <=>
           a.fingerprint = b.fingerprint /\ Len(a.tools) = Len(b.tools)
<1>1. D!FingerprintChanges(a, b) = {} <=>
        /\ \A f \in DOMAIN a.fingerprint : a.fingerprint[f] = b.fingerprint[f]
        /\ Len(a.tools) = Len(b.tools)
  BY DEF D!FingerprintChanges
<1>2. (\A f \in DOMAIN a.fingerprint : a.fingerprint[f] = b.fingerprint[f])
        <=> a.fingerprint = b.fingerprint
  BY ReportsAlike, SameFunction
<1> QED
  BY <1>1, <1>2

(* A delta reports changes just if the two reports can be told apart.      *)
LEMMA HasChangesExact ==
  ASSUME D!DifferAssumption, NEW a \in Histories, NEW b \in Histories
  PROVE  D!HasChanges(D!Compare(a, b)) <=> D!View(a) # D!View(b)
<1> DEFINE d == D!ToolDiffs(a, b)
           ToolsOf(r) == [n \in D!ToolNames(r) |-> D!Tool(r, n)]
           NoItems == \A k \in D!Kinds : /\ D!Present(b.items[k]) \ D!Present(a.items[k]) = {}
                                        /\ D!Present(a.items[k]) \ D!Present(b.items[k]) = {}
           NoTexts == \A k \in D!Kinds : D!DescriptionChanges(k, a.items[k], b.items[k]) = {}
<1>1. ~D!HasChanges(D!Compare(a, b)) <=>
        /\ d.added = {} /\ d.removed = {} /\ d.changed = {}
        /\ D!Keys(b) \ D!Keys(a) = {} /\ D!Keys(a) \ D!Keys(b) = {}
        /\ NoItems /\ D!SurfaceChanges(a, b) = {} /\ D!FingerprintChanges(a, b) = {}
  BY DEF D!HasChanges, D!Compare
<1>2. D!SurfaceChanges(a, b) = {} <=>
        NoTexts /\ D!InstructionChanges(a, b) = {} /\ D!StatusChanges(a, b) = {}
  <2> DEFINE Of(k) == D!DescriptionChanges(k, a.items[k], b.items[k])
             Texts == UNION {Of(k) : k \in D!Kinds}
  <2>1. D!SurfaceChanges(a, b) =
          Texts \cup D!InstructionChanges(a, b) \cup D!StatusChanges(a, b)
    BY DEF D!SurfaceChanges
  <2>2. NoTexts <=> \A k \in D!Kinds : Of(k) = {}
    OBVIOUS
  <2> HIDE DEF Of, NoTexts
  <2>3. Texts = {} <=> \A k \in D!Kinds : Of(k) = {}
    OBVIOUS
  <2> HIDE DEF Texts
  <2>4. \A x, y, z : x \cup y \cup z = {} <=> x = {} /\ y = {} /\ z = {}
    OBVIOUS
  <2> QED
    BY <2>1, <2>2, <2>3, <2>4
<1>3. D!InstructionChanges(a, b) = {} <=> a.instructions = b.instructions
  BY DEF D!InstructionChanges
<1>4. NoItems /\ NoTexts <=> \A k \in D!Kinds : Described(a.items[k]) = Described(b.items[k])
  BY ItemsExact
<1>5. d.added = {} /\ d.removed = {} /\ d.changed = {} <=> ToolsOf(a) = ToolsOf(b)
  BY ToolDiffsExact
<1>6. D!View(a) = D!View(b) <=>
        /\ ToolsOf(a) = ToolsOf(b) /\ Len(a.tools) = Len(b.tools)
        /\ D!Keys(a) = D!Keys(b) /\ a.instructions = b.instructions
        /\ \A k \in D!Kinds : Described(a.items[k]) = Described(b.items[k])
        /\ a.status = b.status /\ a.incomplete = b.incomplete /\ a.fingerprint = b.fingerprint
  <2> DEFINE Texts(r) == [k \in D!Kinds |-> Described(r.items[k])]
  <2> HIDE DEF ToolsOf
  <2>1. \A r : D!View(r) =
          [tools |-> ToolsOf(r), count |-> Len(r.tools), findings |-> D!Keys(r),
           instructions |-> r.instructions, items |-> Texts(r), status |-> r.status,
           incomplete |-> r.incomplete, fingerprint |-> r.fingerprint]
    BY DEF D!View, ToolsOf, Texts, Described
  <2>2. Texts(a) = Texts(b) <=>
          \A k \in D!Kinds : Described(a.items[k]) = Described(b.items[k])
    <3>1. \A r : DOMAIN Texts(r) = D!Kinds /\ \A k \in D!Kinds : Texts(r)[k] = Described(r.items[k])
      BY DEF Texts
    <3> QED
      BY <3>1 DEF Texts
  <2> HIDE DEF Texts
  <2> QED
    BY <2>1, <2>2
<1> HIDE DEF d, ToolsOf, NoItems, NoTexts
<1> QED
  BY <1>1, <1>2, <1>3, <1>4, <1>5, <1>6, StatusExact, FingerprintExact

-----------------------------------------------------------------------------
(* The module's finite sets and counts are those of the library's theorems.*)
LEMMA DifferCountsAlike ==
  /\ \A Z : D!IsFiniteSet(Z) <=> IsFiniteSet(Z)
  /\ \A Z : D!Cardinality(Z) = Cardinality(Z)
<1>1. \A Z : D!IsFiniteSet(Z) <=> IsFiniteSet(Z)
  BY DEF D!IsFiniteSet, IsFiniteSet
<1>2. \A Z : D!Cardinality(Z) = Cardinality(Z)
  BY DEF D!Cardinality, Cardinality
<1> QED
  BY <1>1, <1>2

(* How severe a change is has three levels.                                *)
ChangeLevels == {"cosmetic", "behavioral", "security"}

(* The worst of some severities is security if that is one of them.        *)
LEMMA WorstIsSecurity ==
  ASSUME NEW Z, Z \subseteq ChangeLevels, "security" \in Z
  PROVE  D!Worst(Z) = "security"
<1>1. DOMAIN D!Severities = 1..3
  BY DEF D!Severities
<1>2. /\ D!Severities[1] = "cosmetic" /\ D!Severities[2] = "behavioral"
      /\ D!Severities[3] = "security"
  BY DEF D!Severities
<1>3. D!Rank("cosmetic") = 1 /\ D!Rank("behavioral") = 2 /\ D!Rank("security") = 3
  BY <1>1, <1>2 DEF D!Rank
<1>4. D!Worst(Z) = CHOOSE s \in Z : \A t \in Z : D!Rank(s) >= D!Rank(t)
  BY DEF D!Worst
<1>5. \A t \in Z : D!Rank("security") >= D!Rank(t)
  BY <1>3 DEF ChangeLevels
<1>6. \A s \in Z : s # "security" => ~(D!Rank(s) >= D!Rank("security"))
  BY <1>3 DEF ChangeLevels
<1> QED
  BY <1>4, <1>5, <1>6

(* It is not if that is none of them.                                      *)
LEMMA WorstIsSevere ==
  ASSUME NEW Z, Z \subseteq ChangeLevels, Z # {}, "security" \notin Z
  PROVE  D!Worst(Z) # "security"
<1>1. DOMAIN D!Severities = 1..3
  BY DEF D!Severities
<1>2. /\ D!Severities[1] = "cosmetic" /\ D!Severities[2] = "behavioral"
      /\ D!Severities[3] = "security"
  BY DEF D!Severities
<1>3. D!Rank("cosmetic") = 1 /\ D!Rank("behavioral") = 2
  BY <1>1, <1>2 DEF D!Rank
<1>4. \E s \in Z : \A t \in Z : D!Rank(s) >= D!Rank(t)
  <2>1. CASE "behavioral" \in Z
    BY <1>3, <2>1 DEF ChangeLevels
  <2>2. CASE "behavioral" \notin Z
    <3>1. PICK s \in Z : s = "cosmetic"
      BY <2>2 DEF ChangeLevels
    <3>2. \A t \in Z : t = "cosmetic"
      BY <2>2 DEF ChangeLevels
    <3> QED
      BY <1>3, <3>1, <3>2
  <2> QED
    BY <2>1, <2>2
<1>5. D!Worst(Z) \in Z
  BY <1>4 DEF D!Worst
<1> QED
  BY <1>5

(* Every change of a tool has a level.                                     *)
LEMMA ChangeHasLevel ==
  ASSUME NEW s, NEW t, NEW c \in D!ToolChanges(s, t)
  PROVE  c.severity \in ChangeLevels
<1>1. D!TextChange(t.description) \in ChangeLevels
  BY DEF D!TextChange, ChangeLevels
<1>2. \A x, y : D!SchemaChange(x, y) \in ChangeLevels
  BY DEF D!SchemaChange, ChangeLevels
<1> QED
  BY <1>1, <1>2 DEF D!ToolChanges, D!Change

(* The tools that have changes are some of the report's, a finite set.     *)
LEMMA ChangedIsFinite ==
  ASSUME D!DifferAssumption, NEW a \in Histories, NEW b \in Histories
  PROVE  IsFiniteSet({x[1] : x \in D!ToolDiffs(a, b).changed})
<1> DEFINE names == [i \in 1..Len(a.tools) |-> a.tools[i].name]
           Some == {x[1] : x \in D!ToolDiffs(a, b).changed}
<1>1. Len(a.tools) \in Nat /\ DOMAIN a.tools = 1..Len(a.tools)
  BY DEF D!DifferAssumption
<1>2. names \in Surjection(1..Len(a.tools), D!ToolNames(a))
  BY <1>1 DEF D!ToolNames, Surjection
<1>3. IsFiniteSet(1..Len(a.tools))
  BY <1>1, FS_Interval
<1>4. IsFiniteSet(D!ToolNames(a))
  BY <1>2, <1>3, FS_Surjection
<1>5. Some \subseteq D!ToolNames(a)
  BY DEF D!ToolDiffs
<1> QED
  BY <1>4, <1>5, FS_Subset

(* A surface has finitely many changes.                                    *)
LEMMA SurfacesAreFinite ==
  ASSUME D!DifferAssumption, NEW a \in Histories, NEW b \in Histories
  PROVE  IsFiniteSet(D!SurfaceChanges(a, b))
<1>1. ASSUME NEW k \in D!Kinds
      PROVE  IsFiniteSet(D!DescriptionChanges(k, a.items[k], b.items[k]))
  <2> DEFINE x == a.items[k]
             y == b.items[k]
             at == {j \in D!Present(x) \cap D!Present(y) : x[j].description # y[j].description}
             change == [i \in at |-> D!Change(<<k, i>>, D!TextChange(y[i].description))]
  <2>1. IsFiniteSet(DOMAIN x)
    <3>1. D!IsFiniteSet(DOMAIN a.items[k])
      BY DEF D!DifferAssumption
    <3> QED
      BY <3>1, DifferCountsAlike
  <2>2. at \subseteq DOMAIN x
    BY DEF D!Present
  <2>3. IsFiniteSet(at)
    BY <2>1, <2>2, FS_Subset
  <2>4. change \in Surjection(at, D!DescriptionChanges(k, x, y))
    BY DEF D!DescriptionChanges, Surjection
  <2> QED
    BY <2>3, <2>4, FS_Surjection
<1>2. \A x : IsFiniteSet({x}) /\ IsFiniteSet({})
  BY FS_Singleton, FS_EmptySet
<1>3. IsFiniteSet(D!InstructionChanges(a, b))
  BY <1>2 DEF D!InstructionChanges
<1>4. IsFiniteSet(D!StatusChanges(a, b))
  <2> DEFINE at == {t \in DOMAIN a.status : a.status[t] # b.status[t]}
             change(s) == D!Change(<<"surface_status", s>>,
                                   IF D!Degraded(a.status[s], b.status[s])
                                   THEN "security" ELSE "behavioral")
             last == D!Change(<<"scan", "incomplete">>,
                              IF b.incomplete THEN "security" ELSE "behavioral")
  <2>1. IsFiniteSet(at)
    <3>1. D!IsFiniteSet(DOMAIN a.status)
      BY DEF D!DifferAssumption
    <3> QED
      BY <3>1, DifferCountsAlike, FS_Subset
  <2>2. [s \in at |-> change(s)] \in Surjection(at, {change(s) : s \in at})
    BY DEF Surjection
  <2>3. IsFiniteSet({change(s) : s \in at})
    BY <2>1, <2>2, FS_Surjection
  <2>4. D!StatusChanges(a, b) = {change(s) : s \in at} \cup IF a.incomplete = b.incomplete THEN {} ELSE {last}
    BY DEF D!StatusChanges
  <2> HIDE DEF change, last, at
  <2>5. IsFiniteSet(IF a.incomplete = b.incomplete THEN {} ELSE {last})
    BY <1>2
  <2> QED
    BY <2>3, <2>4, <2>5, FS_Union
<1>5. D!SurfaceChanges(a, b) =
        (D!DescriptionChanges("prompt", a.items["prompt"], b.items["prompt"])
         \cup (D!DescriptionChanges("resource", a.items["resource"], b.items["resource"])
               \cup D!DescriptionChanges("resource_template", a.items["resource_template"],
                                         b.items["resource_template"])))
        \cup (D!InstructionChanges(a, b) \cup D!StatusChanges(a, b))
  BY DEF D!SurfaceChanges, D!Kinds
<1>6. /\ IsFiniteSet(D!DescriptionChanges("prompt", a.items["prompt"], b.items["prompt"]))
      /\ IsFiniteSet(D!DescriptionChanges("resource", a.items["resource"], b.items["resource"]))
      /\ IsFiniteSet(D!DescriptionChanges("resource_template", a.items["resource_template"],
                                          b.items["resource_template"]))
  BY <1>1 DEF D!Kinds
<1> QED
  BY <1>3, <1>4, <1>5, <1>6, FS_Union

(* A change of two texts counts as security just if the later is worse,    *)
(* and so does one of two schemas.                                         *)
LEMMA ChangeIsSevere ==
  /\ \A x, y : x # y => (D!TextChange(y) = "security" <=> D!TextWorse(x, y))
  /\ \A x, y : x # y => (D!SchemaChange(x, y) = "security" <=> D!SchemaWorse(x, y))
<1>1. ASSUME NEW x, NEW y, x # y
      PROVE  D!TextChange(y) = "security" <=> D!TextWorse(x, y)
  BY <1>1 DEF D!TextChange, D!TextWorse
<1>2. ASSUME NEW x, NEW y, x # y
      PROVE  D!SchemaChange(x, y) = "security" <=> D!SchemaWorse(x, y)
  <2>1. {p \in DOMAIN x.props : x.props[p] # y.props[p]} \cap Sensitive # {} <=>
          \E p \in Sensitive \cap DOMAIN x.props : x.props[p] # y.props[p]
    OBVIOUS
  <2> QED
    BY <1>2, <2>1 DEF D!SchemaChange, D!SchemaWorse
<1> QED
  BY <1>1, <1>2

(* A change between two tools counts as security just if the later is      *)
(* worse.                                                                  *)
LEMMA ToolIsSevere ==
  ASSUME NEW s, NEW t
  PROVE  (\E c \in D!ToolChanges(s, t) : c.severity = "security") <=> D!ToolWorse(s, t)
<1> DEFINE Text == D!Change("description", D!TextChange(t.description))
           In == D!Change("input_schema", D!SchemaChange(s.input, t.input))
           Out == D!Change("output_schema", D!SchemaChange(s.output, t.output))
<1>1. \A c : c \in D!ToolChanges(s, t) <=>
        \/ s.description # t.description /\ c = Text
        \/ s.input # t.input /\ c = In
        \/ s.output # t.output /\ c = Out
  BY DEF D!ToolChanges
<1>2. /\ Text.severity = D!TextChange(t.description)
      /\ In.severity = D!SchemaChange(s.input, t.input)
      /\ Out.severity = D!SchemaChange(s.output, t.output)
  BY DEF D!Change
<1>3. /\ D!TextWorse(s.description, t.description) => s.description # t.description
      /\ D!SchemaWorse(s.input, t.input) => s.input # t.input
      /\ D!SchemaWorse(s.output, t.output) => s.output # t.output
  BY DEF D!TextWorse, D!SchemaWorse
<1> HIDE DEF Text, In, Out
<1> QED
  BY <1>1, <1>2, <1>3, ChangeIsSevere DEF D!ToolWorse

(* A change of a surface counts as security just if an item or the         *)
(* instructions are worse, or less of the server was seen.                 *)
LEMMA SurfaceIsSevere ==
  ASSUME NEW a, NEW b
  PROVE  (\E c \in D!SurfaceChanges(a, b) : c.severity = "security") <=>
           \/ \E k \in D!Kinds : D!ItemsWorse(a.items[k], b.items[k])
           \/ D!TextWorse(a.instructions, b.instructions)
           \/ \E s \in DOMAIN a.status : D!Degraded(a.status[s], b.status[s])
           \/ b.incomplete /\ ~a.incomplete
<1>1. (\E c \in D!SurfaceChanges(a, b) : c.severity = "security") <=>
        \/ \E k \in D!Kinds : \E c \in D!DescriptionChanges(k, a.items[k], b.items[k]) :
             c.severity = "security"
        \/ \E c \in D!InstructionChanges(a, b) : c.severity = "security"
        \/ \E c \in D!StatusChanges(a, b) : c.severity = "security"
  BY DEF D!SurfaceChanges
<1>2. ASSUME NEW k, NEW x, NEW y
      PROVE  (\E c \in D!DescriptionChanges(k, x, y) : c.severity = "security")
               <=> D!ItemsWorse(x, y)
  <2> DEFINE At == {j \in D!Present(x) \cap D!Present(y) : x[j].description # y[j].description}
  <2>1. (\E c \in D!DescriptionChanges(k, x, y) : c.severity = "security") <=>
          \E i \in At : D!TextChange(y[i].description) = "security"
    <3> DEFINE Of(i) == D!Change(<<k, i>>, D!TextChange(y[i].description))
    <3>1. D!DescriptionChanges(k, x, y) = {Of(i) : i \in At}
      BY DEF D!DescriptionChanges
    <3>2. \A i : Of(i).severity = D!TextChange(y[i].description)
      BY DEF D!Change
    <3> HIDE DEF Of, At
    <3> QED
      BY <3>1, <3>2
  <2>2. \A i \in At : D!TextChange(y[i].description) = "security"
                        <=> D!TextWorse(x[i].description, y[i].description)
    BY ChangeIsSevere
  <2>3. \A i \in D!Present(x) \cap D!Present(y) :
          D!TextWorse(x[i].description, y[i].description) => i \in At
    BY DEF D!TextWorse
  <2> QED
    BY <2>1, <2>2, <2>3 DEF D!ItemsWorse
<1>3. (\E c \in D!InstructionChanges(a, b) : c.severity = "security")
        <=> D!TextWorse(a.instructions, b.instructions)
  <2> DEFINE Only == D!Change(<<"server_instructions", "">>, D!TextChange(b.instructions))
  <2>1. \A c : c \in D!InstructionChanges(a, b) <=>
          a.instructions # b.instructions /\ c = Only
    BY DEF D!InstructionChanges
  <2>2. Only.severity = D!TextChange(b.instructions)
    BY DEF D!Change
  <2>3. D!TextWorse(a.instructions, b.instructions) => a.instructions # b.instructions
    BY DEF D!TextWorse
  <2> HIDE DEF Only
  <2> QED
    BY <2>1, <2>2, <2>3, ChangeIsSevere
<1>4. (\E c \in D!StatusChanges(a, b) : c.severity = "security") <=>
        \/ \E s \in DOMAIN a.status : D!Degraded(a.status[s], b.status[s])
        \/ b.incomplete /\ ~a.incomplete
  <2> DEFINE At == {t \in DOMAIN a.status : a.status[t] # b.status[t]}
             Of(s) == D!Change(<<"surface_status", s>>,
                               IF D!Degraded(a.status[s], b.status[s])
                               THEN "security" ELSE "behavioral")
             Last == D!Change(<<"scan", "incomplete">>,
                              IF b.incomplete THEN "security" ELSE "behavioral")
  <2>1. \A c : c \in D!StatusChanges(a, b) <=>
          \/ \E s \in At : c = Of(s)
          \/ a.incomplete # b.incomplete /\ c = Last
    BY DEF D!StatusChanges
  <2>2. /\ \A s : Of(s).severity = "security" <=> D!Degraded(a.status[s], b.status[s])
        /\ Last.severity = "security" <=> b.incomplete
    BY DEF D!Change
  <2>3. \A s \in DOMAIN a.status : D!Degraded(a.status[s], b.status[s]) => s \in At
    BY DEF D!Degraded
  <2>4. \A s \in At : s \in DOMAIN a.status
    OBVIOUS
  <2> HIDE DEF At, Of, Last
  <2> QED
    BY <2>1, <2>2, <2>3, <2>4
<1> QED
  BY <1>1, <1>2, <1>3, <1>4

(* Changes count as security just if the later report is worse to trust.   *)
LEMMA WorseIsCounted ==
  ASSUME D!DifferAssumption, NEW a \in Histories, NEW b \in Histories
  PROVE  D!Severe(a, b) <=> D!Worsened(a, b)
<1> DEFINE delta == D!Compare(a, b)
           Changed == D!ToolDiffs(a, b).changed
           hit == {n \in {x[1] : x \in Changed} : D!ToolSeverity(delta, n) = "security"}
           worst == {c \in D!SurfaceChanges(a, b) : c.severity = "security"}
<1>1. IsFiniteSet(hit) /\ IsFiniteSet(worst)
  <2>1. IsFiniteSet({x[1] : x \in Changed})
    BY ChangedIsFinite
  <2>2. IsFiniteSet(D!SurfaceChanges(a, b))
    BY SurfacesAreFinite
  <2> QED
    BY <2>1, <2>2, FS_Subset
<1>2. D!CountOf(delta, "security") = Cardinality(hit) + Cardinality(worst)
  BY DifferCountsAlike DEF D!CountOf, D!Compare
<1>3. D!Severe(a, b) <=> hit # {} \/ worst # {}
  <2>1. Cardinality(hit) \in Nat /\ Cardinality(worst) \in Nat
    BY <1>1, FS_CardinalityType
  <2>2. /\ hit # {} <=> Cardinality(hit) # 0
        /\ worst # {} <=> Cardinality(worst) # 0
    BY <1>1, FS_EmptySet
  <2> HIDE DEF hit, worst
  <2> QED
    BY <1>2, <2>1, <2>2 DEF D!Severe
<1>4. ASSUME NEW n \in D!ToolNames(a) \cap D!ToolNames(b)
      PROVE  n \in hit <=> D!ToolWorse(D!Tool(a, n), D!Tool(b, n))
  <2> DEFINE Z == {nc[2].severity : nc \in {x \in Changed : x[1] = n}}
             Q == D!ToolChanges(D!Tool(a, n), D!Tool(b, n))
  <2>1. \A c : <<n, c>> \in Changed <=> c \in Q
    BY DEF D!ToolDiffs
  <2>2. \A x \in Changed : x = <<x[1], x[2]>>
    BY DEF D!ToolDiffs
  <2> HIDE DEF Changed, Q
  <2>3. /\ \A z \in Z : \E c \in Q : z = c.severity
        /\ \A c \in Q : c.severity \in Z
        /\ n \in {x[1] : x \in Changed} <=> Q # {}
    <3>1. \A x \in Changed : x[1] = n => x[2] \in Q
      BY <2>1, <2>2
    <3>2. \A c \in Q : <<n, c>> \in Changed /\ <<n, c>>[1] = n /\ <<n, c>>[2] = c
      BY <2>1
    <3>3. \A z \in Z : \E c \in Q : z = c.severity
      BY <3>1
    <3>4. \A c \in Q : c.severity \in Z
      BY <3>2
    <3>5. n \in {x[1] : x \in Changed} <=> Q # {}
      BY <3>1, <3>2
    <3> QED
      BY <3>3, <3>4, <3>5
  <2>4. Z \subseteq ChangeLevels
    <3>1. \A c \in Q : c.severity \in ChangeLevels
      BY ChangeHasLevel DEF Q
    <3> QED
      BY <2>3, <3>1
  <2>5. D!ToolSeverity(delta, n) = D!Worst(Z)
    BY DEF D!ToolSeverity, D!Compare, Changed
  <2> HIDE DEF Z, delta
  <2>6. "security" \in Z => D!Worst(Z) = "security"
    BY <2>4, WorstIsSecurity
  <2>7. Z # {} /\ "security" \notin Z => D!Worst(Z) # "security"
    BY <2>4, WorstIsSevere
  <2>8. (\E c \in Q : c.severity = "security") <=> D!ToolWorse(D!Tool(a, n), D!Tool(b, n))
    BY ToolIsSevere DEF Q
  <2> QED
    BY <2>3, <2>5, <2>6, <2>7, <2>8
<1>5. hit \subseteq D!ToolNames(a) \cap D!ToolNames(b)
  BY DEF D!ToolDiffs
<1>6. worst # {} <=> \E c \in D!SurfaceChanges(a, b) : c.severity = "security"
  OBVIOUS
<1> HIDE DEF hit, worst
<1>7. hit # {} <=>
        \E n \in D!ToolNames(a) \cap D!ToolNames(b) : D!ToolWorse(D!Tool(a, n), D!Tool(b, n))
  BY <1>4, <1>5
<1> QED
  BY <1>3, <1>6, <1>7, SurfaceIsSevere DEF D!Worsened

(* What is worse than in an earlier report is worse than in one between    *)
(* them, or that is worse than in the earlier.                             *)
LEMMA WorseInAStep ==
  ASSUME D!DifferAssumption, NEW a \in Histories, NEW b \in Histories, NEW c \in Histories,
         D!Spans(a, b, c), D!Worsened(a, c)
  PROVE  D!Worsened(a, b) \/ D!Worsened(b, c)
<1>1. \A x, y, z : D!TextWorse(x, z) => D!TextWorse(x, y) \/ D!TextWorse(y, z)
  BY DEF D!TextWorse
<1>2. ASSUME NEW x, NEW y, NEW z, D!SchemaWorse(x, z),
             DOMAIN x.props = DOMAIN y.props
      PROVE  D!SchemaWorse(x, y) \/ D!SchemaWorse(y, z)
  BY <1>2 DEF D!SchemaWorse
<1>3. CASE \E n \in D!ToolNames(a) \cap D!ToolNames(c) : D!ToolWorse(D!Tool(a, n), D!Tool(c, n))
  <2>1. PICK n \in D!ToolNames(a) \cap D!ToolNames(c) : D!ToolWorse(D!Tool(a, n), D!Tool(c, n))
    BY <1>3
  <2>2. n \in D!ToolNames(b)
    BY <2>1 DEF D!Spans
  <2>3. /\ DOMAIN D!Tool(a, n).input.props = DOMAIN D!Tool(b, n).input.props
        /\ DOMAIN D!Tool(a, n).output.props = DOMAIN D!Tool(b, n).output.props
    BY <2>1, <2>2, SchemasAlike
  <2>4. D!ToolWorse(D!Tool(a, n), D!Tool(b, n)) \/ D!ToolWorse(D!Tool(b, n), D!Tool(c, n))
    BY <1>1, <1>2, <2>1, <2>3 DEF D!ToolWorse
  <2> QED
    BY <2>1, <2>2, <2>4 DEF D!Worsened
<1>4. CASE \E k \in D!Kinds : D!ItemsWorse(a.items[k], c.items[k])
  <2>1. PICK k \in D!Kinds : D!ItemsWorse(a.items[k], c.items[k])
    BY <1>4
  <2>2. PICK i \in D!Present(a.items[k]) \cap D!Present(c.items[k]) :
          D!TextWorse(a.items[k][i].description, c.items[k][i].description)
    BY <2>1 DEF D!ItemsWorse
  <2>3. i \in D!Present(b.items[k])
    BY <2>1, <2>2 DEF D!Spans
  <2>4. D!ItemsWorse(a.items[k], b.items[k]) \/ D!ItemsWorse(b.items[k], c.items[k])
    BY <1>1, <2>2, <2>3 DEF D!ItemsWorse
  <2> QED
    BY <2>1, <2>4 DEF D!Worsened
<1>5. CASE D!TextWorse(a.instructions, c.instructions)
  BY <1>1, <1>5 DEF D!Worsened
<1>6. CASE \E s \in DOMAIN a.status : D!Degraded(a.status[s], c.status[s])
  <2>1. DOMAIN a.status = DOMAIN b.status
    BY ReportsAlike
  <2>2. \A x, y, z : D!Degraded(x, z) => D!Degraded(x, y) \/ D!Degraded(y, z)
    BY DEF D!Degraded
  <2> QED
    BY <1>6, <2>1, <2>2 DEF D!Worsened
<1>7. CASE c.incomplete /\ ~a.incomplete
  BY <1>7 DEF D!Worsened
<1> QED
  BY <1>3, <1>4, <1>5, <1>6, <1>7 DEF D!Worsened

-----------------------------------------------------------------------------
(* The reports compared are ones the server may give.                      *)
LEMMA DifferInvariant == D!Spec => [](old \in Histories /\ new \in Histories)
<1>1. D!Init => old \in Histories /\ new \in Histories
  BY DEF D!Init
<1>2. old \in Histories /\ new \in Histories /\ [D!Next]_(D!vars)
        => (old \in Histories /\ new \in Histories)'
  BY DEF D!Next, D!Advance, D!vars
<1> QED
  BY <1>1, <1>2, PTL DEF D!Spec

(* However a server's reports follow each other, there are changes just if *)
(* what the differ looks at differs, some count as security just if the    *)
(* later report is worse to trust, and changing step by step does not      *)
(* escape that (diff/differ.py:276-441).                                   *)
THEOREM ChangesAreExact == Spec => []ChangesExact
<1>1. D!DifferAssumption
  BY PartsAssumption
<1>2. old \in Histories /\ new \in Histories => D!ChangesExact
  <2> SUFFICES ASSUME old \in Histories, new \in Histories
               PROVE  D!ChangesExact
    OBVIOUS
  <2>1. D!HasChanges(D!Compare(old, new)) <=> D!View(old) # D!View(new)
    BY <1>1, HasChangesExact
  <2>2. D!Severe(old, new) <=> D!Worsened(old, new)
    BY <1>1, WorseIsCounted
  <2>3. /\ D!Compare(old, new).tools.added = D!Compare(new, old).tools.removed
        /\ D!Compare(old, new).newFindings = D!Compare(new, old).resolvedFindings
        /\ D!Compare(old, new).itemsAdded = D!Compare(new, old).itemsRemoved
    BY DEF D!Compare, D!ToolDiffs
  <2>4. ASSUME NEW first \in Histories, D!Severe(first, new), D!Spans(first, old, new)
        PROVE  D!Severe(first, old) \/ D!Severe(old, new)
    <3>1. D!Worsened(first, old) \/ D!Worsened(old, new)
      BY <1>1, <2>4, WorseIsCounted, WorseInAStep
    <3> QED
      BY <1>1, <3>1, WorseIsCounted
  <2> QED
    BY <2>1, <2>2, <2>3, <2>4 DEF D!ChangesExact
<1>3. D!ChangesExact \/ ~(part = "differ") => ChangesExact
  BY DEF ChangesExact
<1> QED
  BY <1>2, <1>3, DifferPart, DifferInvariant, PTL

-----------------------------------------------------------------------------
(* The module's finite sets and counts are those of the library's theorems.*)
LEMMA DependenciesCountAlike == \A Z : S!Cardinality(Z) = Cardinality(Z)
BY DEF S!Cardinality, Cardinality

(* Among some places, there is a k-th.                                     *)
LEMMA NthPlace ==
  ASSUME NEW n \in Nat, NEW at, at \subseteq 1..n, NEW k \in 1..Cardinality(at)
  PROVE  \E i \in at : Cardinality({j \in at : j <= i}) = k
<1> DEFINE UpTo(i) == {j \in at : j <= i}
           Short == {i \in 0..n : Cardinality(UpTo(i)) < k}
<1>1. IsFiniteSet(at) /\ \A i \in at : i \in Nat /\ 1 <= i /\ i <= n
  <2>1. IsFiniteSet(1..n)
    BY FS_Interval
  <2>2. IsFiniteSet(at)
    BY <2>1, FS_Interval, FS_Subset
  <2>3. \A i \in at : i \in Nat /\ 1 <= i /\ i <= n
    OBVIOUS
  <2> QED
    BY <2>2, <2>3
<1>2. \A i : IsFiniteSet(UpTo(i)) /\ Cardinality(UpTo(i)) \in Nat
  BY <1>1, FS_Subset, FS_CardinalityType
<1>3. 0 \in Short
  <2>1. UpTo(0) = {}
    <3>1. \A j \in at : ~(j <= 0)
      BY <1>1
    <3> QED
      BY <3>1
  <2>2. Cardinality(UpTo(0)) = 0
    BY <2>1, FS_EmptySet
  <2> QED
    BY <2>2
<1>4. PICK last \in Short : \A i \in Short : i <= last
  <2> HIDE DEF Short
  <2>1. Short \subseteq 0..n
    BY DEF Short
  <2> QED
    BY <1>3, <2>1, LastPlace
<1>5. n \notin Short
  <2>1. UpTo(n) = at
    BY <1>1
  <2> QED
    BY <2>1, <1>2
<1> DEFINE this == last + 1
<1>6. last \in 0..n /\ this \in 1..n /\ this \notin Short
  <2>1. last \in 0..n /\ last # n
    BY <1>4, <1>5
  <2>2. this \in 1..n /\ ~(this <= last)
    BY <2>1
  <2> QED
    BY <1>4, <2>1, <2>2
<1>7. Cardinality(UpTo(this)) >= k /\ Cardinality(UpTo(last)) < k
  <2>1. Cardinality(UpTo(this)) \in Nat /\ k \in Int
    <3> HIDE DEF UpTo, this
    <3> QED
      BY <1>2
  <2>2. this \in 0..n /\ ~(Cardinality(UpTo(this)) < k)
    <3>1. this \in 0..n
      BY <1>6
    <3> HIDE DEF UpTo, this
    <3> QED
      BY <1>6, <3>1
  <2>3. Cardinality(UpTo(last)) < k
    <3> HIDE DEF UpTo
    <3> QED
      BY <1>4
  <2> HIDE DEF UpTo, this
  <2> QED
    BY <2>1, <2>2, <2>3
<1>8. this \in at
  <2>1. ASSUME this \notin at
        PROVE  FALSE
    <3>1. \A j \in at : j <= this <=> j <= last
      BY <1>1, <1>6, <2>1
    <3>2. UpTo(this) = UpTo(last)
      BY <3>1
    <3> QED
      BY <3>2, <1>2, <1>7
  <2> QED
    BY <2>1
<1>9. Cardinality(UpTo(this)) = Cardinality(UpTo(last)) + 1
  <2>1. UpTo(this) = UpTo(last) \cup {this} /\ this \notin UpTo(last)
    <3>1. \A j \in at : j <= this <=> j <= last \/ j = this
      BY <1>1, <1>6
    <3>2. ~(this <= last)
      BY <1>6
    <3> QED
      BY <1>8, <3>1, <3>2
  <2> HIDE DEF UpTo, this
  <2> QED
    BY <1>2, <2>1, FS_AddElement
<1>10. Cardinality(UpTo(this)) = k
  <2> HIDE DEF UpTo, this
  <2> QED
    BY <1>2, <1>7, <1>9
<1> QED
  BY <1>8, <1>10

(* What is left of a sequence without its repetitions: each once, and      *)
(* nothing that was not there.                                             *)
LEMMA DedupeOnce ==
  ASSUME NEW X, NEW s \in Seq(X)
  PROVE  /\ S!Dedupe(s) \in Seq(X)
         /\ \A a, b \in DOMAIN S!Dedupe(s) : S!Dedupe(s)[a] = S!Dedupe(s)[b] => a = b
<1> DEFINE firsts == {i \in DOMAIN s : S!First(s, i)}
           upTo(i) == {j \in firsts : j <= i}
           nth(k) == CHOOSE i \in firsts : S!Cardinality(upTo(i)) = k
           d == [k \in 1..S!Cardinality(firsts) |-> s[nth(k)]]
<1>1. Len(s) \in Nat /\ DOMAIN s = 1..Len(s) /\ firsts \subseteq 1..Len(s)
  OBVIOUS
<1>2. S!Cardinality(firsts) \in Nat
  <2>1. IsFiniteSet(1..Len(s))
    BY <1>1, FS_Interval
  <2>2. IsFiniteSet(firsts)
    BY <1>1, <2>1, FS_Subset
  <2> QED
    BY <2>2, FS_CardinalityType, DependenciesCountAlike
<1>3. \A k \in 1..S!Cardinality(firsts) : nth(k) \in firsts /\ S!Cardinality(upTo(nth(k))) = k
  <2> TAKE k \in 1..S!Cardinality(firsts)
  <2>1. \E i \in firsts : S!Cardinality(upTo(i)) = k
    <3> HIDE DEF firsts
    <3>1. k \in 1..Cardinality(firsts)
      BY DependenciesCountAlike
    <3>2. \E i \in firsts : Cardinality(upTo(i)) = k
      BY <1>1, <3>1, NthPlace
    <3> HIDE DEF upTo
    <3> QED
      BY <3>2, DependenciesCountAlike
  <2> HIDE DEF firsts, upTo
  <2> QED
    BY <2>1
<1>4. S!Dedupe(s) = d
  BY DEF S!Dedupe
<1>5. \A i, j \in firsts : s[i] = s[j] => i = j
  <2> TAKE i, j \in firsts
  <2>1. i \in Nat /\ j \in Nat /\ i >= 1 /\ j >= 1
    BY <1>1
  <2>2. i < j => s[i] # s[j]
    BY <2>1 DEF S!First
  <2>3. j < i => s[i] # s[j]
    BY <2>1 DEF S!First
  <2> QED
    BY <2>1, <2>2, <2>3
<1>6. \A i \in firsts : s[i] \in X
  BY <1>1
<1> HIDE DEF firsts, upTo, nth
<1>7. d \in Seq(X)
  BY <1>2, <1>3, <1>6
<1>8. \A a, b \in DOMAIN d : d[a] = d[b] => a = b
  BY <1>2, <1>3, <1>5
<1> QED
  BY <1>4, <1>7, <1>8

-----------------------------------------------------------------------------
(* The files of an ecosystem that count: those that parsed, but not a loose*)
(* manifest where a lockfile parsed; and the dependencies they list.       *)
Counting(eco) == {i \in S!Parsed(eco) : project[i].name \in S!Loose => ~S!Pinned(eco)}
From(eco) == {d \in UNION {S!Range(project[i].deps) : i \in Counting(eco)} : d.ecosystem = eco}
Ecosystems == {"npm", "PyPI"}

(* What query_batch returns for a list, when it is answered.               *)
AnswerTo(list) ==
  [n \in {d.name : d \in S!Range(list)} |->
     LET last == CHOOSE i \in DOMAIN list :
                   list[i].name = n /\ \A j \in DOMAIN list : list[j].name = n => j <= i
     IN Vulns[list[last]]]

Pairs == {<<f.dep, f.id>> : f \in findings}
DependenciesInv ==
  /\ pc \in {"extract", "query", "hydrate", "done"}
  /\ project \in Projects
  /\ place \in Nat \ {0}
  /\ DOMAIN listed = Ecosystems
  /\ \A eco \in Ecosystems : listed[eco] \in Seq(From(eco))
  /\ \A eco \in Ecosystems :
       eco \in locked <=> \E i \in S!Parsed(eco) : i < place /\ project[i].name \notin S!Loose
  /\ deps \in Seq(From("npm") \cup From("PyPI"))
  /\ \A a, b \in DOMAIN deps : deps[a] = deps[b] => a = b
  /\ byName # <<>> => byName = AnswerTo(deps)
  /\ pc \in {"extract", "query"} => byName = <<>>
  /\ pc = "done" /\ byName # <<>> =>
       Pairs = UNION {{d} \X S!AnswersFor(d) : d \in S!Range(deps)}

(* Lockfiles are read before the loose manifests of their ecosystem.       *)
LEMMA LockfilesFirst ==
  ASSUME NEW a \in S!Range(S!MANIFESTS), NEW b \in S!Range(S!MANIFESTS),
         a \in S!Loose, b \notin S!Loose, S!Ecosystem(a) = S!Ecosystem(b)
  PROVE  ~(S!Position(a) <= S!Position(b))
<1> DEFINE All == <<"package-lock.json", "pnpm-lock.yaml", "yarn.lock", "package.json",
                    "uv.lock", "poetry.lock", "pdm.lock", "pyproject.toml", "requirements.txt">>
<1>1. S!MANIFESTS = All
  BY DEF S!MANIFESTS
<1>2. DOMAIN All = 1..9
  OBVIOUS
<1>3. /\ All[1] = "package-lock.json" /\ All[2] = "pnpm-lock.yaml" /\ All[3] = "yarn.lock"
      /\ All[4] = "package.json" /\ All[5] = "uv.lock" /\ All[6] = "poetry.lock"
      /\ All[7] = "pdm.lock" /\ All[8] = "pyproject.toml" /\ All[9] = "requirements.txt"
  OBVIOUS
<1> HIDE DEF All
<1>4. /\ S!Position("package-lock.json") = 1 /\ S!Position("pnpm-lock.yaml") = 2
      /\ S!Position("yarn.lock") = 3 /\ S!Position("package.json") = 4
      /\ S!Position("uv.lock") = 5 /\ S!Position("poetry.lock") = 6
      /\ S!Position("pdm.lock") = 7 /\ S!Position("pyproject.toml") = 8
      /\ S!Position("requirements.txt") = 9
  BY <1>1, <1>2, <1>3 DEF S!Position
<1>5. \A n \in S!Range(S!MANIFESTS) :
        n \in {"package-lock.json", "pnpm-lock.yaml", "yarn.lock", "package.json",
               "uv.lock", "poetry.lock", "pdm.lock", "pyproject.toml", "requirements.txt"}
  BY <1>1, <1>2, <1>3 DEF S!Range
<1>6. \A n : S!Ecosystem(n) = "npm" <=>
        n \in {"package-lock.json", "pnpm-lock.yaml", "yarn.lock", "package.json"}
  BY DEF S!Ecosystem, S!Npm
<1> QED
  BY <1>4, <1>5, <1>6 DEF S!Loose

(* What holds before a file is read holds after it.                        *)
LEMMA ManifestRead ==
  ASSUME S!DependenciesAssumption, DependenciesInv, S!ReadManifest
  PROVE  DependenciesInv'
<1> DEFINE entry == project[place]
           eco == S!Ecosystem(entry.name)
<1>1. /\ pc = "extract" /\ place \in 1..Len(project) /\ place' = place + 1
      /\ UNCHANGED <<pc, project, deps, byName, detail, findings>>
  BY DEF S!ReadManifest, DependenciesInv
<1>2. /\ project \in Seq(S!Range(project)) /\ DOMAIN project = 1..Len(project)
      /\ Len(project) \in Nat
  BY DEF S!DependenciesAssumption, DependenciesInv
<1>3. \A i \in DOMAIN project :
        /\ project[i].name \in S!Range(S!MANIFESTS)
        /\ project[i].deps # NONE =>
             /\ project[i].deps \in Seq(S!Range(project[i].deps))
             /\ \A d \in S!Range(project[i].deps) : d.ecosystem = S!Ecosystem(project[i].name)
  BY DEF S!DependenciesAssumption, DependenciesInv
<1>4. \A i, j \in DOMAIN project :
        i < j => S!Position(project[i].name) <= S!Position(project[j].name)
  BY DEF S!DependenciesAssumption, DependenciesInv
<1>5. eco \in Ecosystems
  BY DEF S!Ecosystem, Ecosystems
<1>6. \A e : (From(e))' = From(e) /\ (S!Parsed(e))' = S!Parsed(e)
  BY <1>1 DEF From, Counting, S!Parsed, S!Pinned
<1>7. \A e : S!Parsed(e) \subseteq 1..Len(project)
  BY <1>2 DEF S!Parsed
<1>8. ASSUME entry.deps # NONE, entry.name \in S!Loose => ~S!Pinned(eco)
      PROVE  entry.deps \in Seq(From(eco))
  <2>1. place \in Counting(eco)
    BY <1>1, <1>2, <1>8 DEF Counting, S!Parsed
  <2>2. \A d \in S!Range(entry.deps) : d.ecosystem = eco
    BY <1>1, <1>2, <1>3, <1>8
  <2>3. S!Range(entry.deps) \subseteq From(eco)
    BY <2>1, <2>2 DEF From
  <2>4. entry.deps \in Seq(S!Range(entry.deps))
    BY <1>1, <1>2, <1>3, <1>8
  <2> QED
    BY <2>3, <2>4
<1>9. ASSUME entry.deps # NONE, entry.name \in S!Loose, eco \notin locked
      PROVE  ~S!Pinned(eco)
  <2> SUFFICES ASSUME NEW i \in S!Parsed(eco), project[i].name \notin S!Loose
               PROVE  FALSE
    BY DEF S!Pinned
  <2>1. i \in 1..Len(project) /\ S!Ecosystem(project[i].name) = eco
    BY <1>7 DEF S!Parsed
  <2>2. ~(i < place)
    BY <1>5, <1>9 DEF DependenciesInv
  <2>3. i # place
    BY <1>9
  <2>4. S!Position(entry.name) <= S!Position(project[i].name)
    BY <1>1, <1>2, <1>4, <2>1, <2>2, <2>3
  <2>5. entry.name \in S!Range(S!MANIFESTS) /\ project[i].name \in S!Range(S!MANIFESTS)
    BY <1>1, <1>2, <1>3, <2>1
  <2> QED
    BY <1>9, <2>1, <2>4, <2>5, LockfilesFirst
<1>10. \A e \in Ecosystems :
         (\E i \in S!Parsed(e) : i < place + 1 /\ project[i].name \notin S!Loose) <=>
           \/ \E i \in S!Parsed(e) : i < place /\ project[i].name \notin S!Loose
           \/ place \in S!Parsed(e) /\ entry.name \notin S!Loose
  <2>1. \A e : \A i \in S!Parsed(e) : i < place + 1 <=> i < place \/ i = place
    BY <1>1, <1>7
  <2> QED
    BY <2>1
<1>11. \A e : place \in S!Parsed(e) <=> entry.deps # NONE /\ e = eco
  BY <1>1, <1>2 DEF S!Parsed
<1>12. /\ DOMAIN listed' = Ecosystems
       /\ \A e \in Ecosystems : listed'[e] \in Seq(From(e))
       /\ \A e \in Ecosystems :
            e \in locked' <=> e \in locked \/ (e = eco /\ entry.deps # NONE /\ entry.name \notin S!Loose)
  <2>1. DOMAIN listed = Ecosystems /\ \A e \in Ecosystems : listed[e] \in Seq(From(e))
    BY DEF DependenciesInv
  <2> HIDE DEF entry, eco
  <2>2. CASE entry.deps = NONE \/ (entry.name \in S!Loose /\ eco \in locked)
    <3>1. UNCHANGED <<listed, locked>>
      BY <2>2 DEF S!ReadManifest, entry, eco
    <3> QED
      BY <2>1, <2>2, <3>1
  <2>3. CASE entry.deps # NONE /\ entry.name \in S!Loose /\ eco \notin locked
    <3>1. listed' = [listed EXCEPT ![eco] = @ \o entry.deps] /\ locked' = locked
      BY <2>3 DEF S!ReadManifest, entry, eco
    <3>2. entry.deps \in Seq(From(eco))
      BY <2>3, <1>8, <1>9
    <3>3. \A Z : \A x, y \in Seq(Z) : x \o y \in Seq(Z)
      OBVIOUS
    <3>4. listed[eco] \o entry.deps \in Seq(From(eco))
      BY <1>5, <2>1, <3>2, <3>3
    <3> QED
      BY <2>1, <2>3, <3>1, <3>4
  <2>4. CASE entry.deps # NONE /\ entry.name \notin S!Loose
    <3>1. listed' = [listed EXCEPT ![eco] = entry.deps] /\ locked' = locked \cup {eco}
      BY <2>4 DEF S!ReadManifest, entry, eco
    <3>2. entry.deps \in Seq(From(eco))
      BY <2>4, <1>8
    <3> QED
      BY <2>1, <2>4, <3>1, <3>2
  <2> QED
    BY <2>2, <2>3, <2>4
<1>13. \A e \in Ecosystems :
         e \in locked' <=> \E i \in S!Parsed(e) : i < place + 1 /\ project[i].name \notin S!Loose
  <2>1. \A e \in Ecosystems :
          e \in locked <=> \E i \in S!Parsed(e) : i < place /\ project[i].name \notin S!Loose
    BY DEF DependenciesInv
  <2> QED
    BY <1>10, <1>11, <1>12, <2>1
<1> QED
  <2>1. (deps \in Seq(From("npm") \cup From("PyPI")))'
    BY <1>1, <1>6 DEF DependenciesInv
  <2>2. /\ (pc \in {"extract", "query", "hydrate", "done"})' /\ (project \in Projects)'
        /\ (place \in Nat \ {0})'
        /\ (\A a, b \in DOMAIN deps : deps[a] = deps[b] => a = b)'
    BY <1>1 DEF DependenciesInv
  <2>3. byName = <<>> /\ byName' = <<>> /\ pc' = "extract"
    BY <1>1 DEF DependenciesInv
  <2>4. /\ \A e \in Ecosystems : (listed[e] \in Seq(From(e)))'
        /\ \A e \in Ecosystems :
             (e \in locked)' <=>
               (\E i \in S!Parsed(e) : i < place /\ project[i].name \notin S!Loose)'
    BY <1>1, <1>6, <1>12, <1>13
  <2> QED
    BY <1>12, <2>1, <2>2, <2>3, <2>4 DEF DependenciesInv

(* A prefix of a sequence has its elements, each at its place.             *)
LEMMA PrefixOf ==
  ASSUME NEW X, NEW s \in Seq(X), NEW m \in 0..Len(s)
  PROVE  /\ SubSeq(s, 1, m) \in Seq(X)
         /\ DOMAIN SubSeq(s, 1, m) = 1..m
         /\ \A i \in 1..m : SubSeq(s, 1, m)[i] = s[i]
<1>1. SubSeq(s, 1, m) \in Seq(X) /\ Len(SubSeq(s, 1, m)) = m
  OBVIOUS
<1>2. \A i \in 1..m : SubSeq(s, 1, m)[i] = s[i]
  OBVIOUS
<1> QED
  BY <1>1, <1>2

(* The files a dependency may come from stay the same.                     *)
LEMMA FromStays ==
  ASSUME UNCHANGED project
  PROVE  \A e : (From(e))' = From(e) /\ (S!Parsed(e))' = S!Parsed(e)
BY DEF From, Counting, S!Parsed, S!Pinned

(* What is extracted are dependencies that were listed, each once.         *)
LEMMA ExtractedOnce ==
  ASSUME S!DependenciesAssumption, DependenciesInv, S!Extracted
  PROVE  DependenciesInv'
<1> DEFINE X == From("npm") \cup From("PyPI")
           all == S!Dedupe(listed.npm \o listed.PyPI)
           m == IF Len(all) < MaxDeps THEN Len(all) ELSE MaxDeps
<1>1. /\ pc = "extract" /\ byName = <<>> /\ deps' = SubSeq(all, 1, m) /\ pc' \in {"done", "query"}
      /\ UNCHANGED <<project, place, listed, locked, byName, detail, findings>>
  BY DEF S!Extracted, DependenciesInv
<1>2. all \in Seq(X) /\ \A a, b \in DOMAIN all : all[a] = all[b] => a = b
  <2>1. listed.npm \in Seq(From("npm")) /\ listed.PyPI \in Seq(From("PyPI"))
    BY DEF DependenciesInv, Ecosystems
  <2>2. \A Y, Z : \A x \in Seq(Y), y \in Seq(Z) : x \o y \in Seq(Y \cup Z)
    <3> TAKE Y, Z
    <3>1. \A x \in Seq(Y) : x \in Seq(Y \cup Z)
      OBVIOUS
    <3>2. \A y \in Seq(Z) : y \in Seq(Y \cup Z)
      OBVIOUS
    <3>3. \A x, y \in Seq(Y \cup Z) : x \o y \in Seq(Y \cup Z)
      OBVIOUS
    <3> QED
      BY <3>1, <3>2, <3>3
  <2>3. listed.npm \o listed.PyPI \in Seq(X)
    BY <2>1, <2>2
  <2> HIDE DEF X
  <2> QED
    BY <2>3, DedupeOnce
<1> HIDE DEF all
<1>3. m \in 0..Len(all)
  BY <1>2 DEF S!DependenciesAssumption
<1> HIDE DEF m
<1>4. /\ deps' \in Seq(X) /\ DOMAIN deps' = 1..m /\ \A i \in 1..m : deps'[i] = all[i]
  <2> HIDE DEF X
  <2> QED
    BY <1>1, <1>2, <1>3, PrefixOf
<1>5. \A a, b \in DOMAIN deps' : deps'[a] = deps'[b] => a = b
  BY <1>2, <1>3, <1>4
<1>6. (deps \in Seq(From("npm") \cup From("PyPI")))'
  BY <1>1, <1>4, FromStays
<1>7. /\ \A eco \in Ecosystems : (listed[eco] \in Seq(From(eco)))'
      /\ \A eco \in Ecosystems :
           (eco \in locked)' <=>
             (\E i \in S!Parsed(eco) : i < place /\ project[i].name \notin S!Loose)'
  BY <1>1, FromStays DEF DependenciesInv
<1>8. /\ (pc \in {"extract", "query", "hydrate", "done"})' /\ (project \in Projects)'
      /\ (place \in Nat \ {0})' /\ (DOMAIN listed = Ecosystems)'
  BY <1>1 DEF DependenciesInv
<1>9. byName' = <<>>
  BY <1>1
<1> QED
  BY <1>5, <1>6, <1>7, <1>8, <1>9 DEF DependenciesInv

(* The steps that follow the extraction leave what was extracted.          *)
LEMMA ExtractedStays ==
  ASSUME DependenciesInv, UNCHANGED <<project, place, listed, locked, deps>>
  PROVE  /\ (project \in Projects)' /\ (place \in Nat \ {0})' /\ (DOMAIN listed = Ecosystems)'
         /\ \A eco \in Ecosystems : (listed[eco] \in Seq(From(eco)))'
         /\ \A eco \in Ecosystems :
              (eco \in locked)' <=>
                (\E i \in S!Parsed(eco) : i < place /\ project[i].name \notin S!Loose)'
         /\ (deps \in Seq(From("npm") \cup From("PyPI")))'
         /\ (\A a, b \in DOMAIN deps : deps[a] = deps[b] => a = b)'
BY FromStays DEF DependenciesInv

(* The batch is asked, its records fetched, and its answers reported.      *)
LEMMA QueryAndReport ==
  ASSUME DependenciesInv, S!QueryBatch \/ S!Hydrate \/ S!Conclude
  PROVE  DependenciesInv'
<1>1. UNCHANGED <<project, place, listed, locked, deps>>
  BY DEF S!QueryBatch, S!Hydrate, S!Conclude
<1>2. CASE S!QueryBatch
  <2>1. pc' = "hydrate" /\ (byName' = <<>> \/ byName' = AnswerTo(deps))
    BY <1>2 DEF S!QueryBatch, AnswerTo
  <2>3. (AnswerTo(deps))' = AnswerTo(deps)
    BY <1>1 DEF AnswerTo
  <2> HIDE DEF AnswerTo
  <2>2. (byName # <<>>)' => (byName = AnswerTo(deps))'
    BY <2>1, <2>3
  <2> QED
    BY <1>1, <2>1, <2>2, ExtractedStays DEF DependenciesInv
<1>3. CASE S!Hydrate
  <2>1. pc' = pc /\ pc = "hydrate" /\ byName' = byName /\ (AnswerTo(deps))' = AnswerTo(deps)
    BY <1>1, <1>3 DEF S!Hydrate, AnswerTo
  <2>2. (byName # <<>>)' => (byName = AnswerTo(deps))'
    BY <2>1 DEF DependenciesInv
  <2> QED
    BY <1>1, <2>1, <2>2, ExtractedStays DEF DependenciesInv
<1>4. CASE S!Conclude
  <2> DEFINE Of(d) == {[dep |-> d, id |-> id, severity |-> S!Severity(id)] : id \in S!AnswersFor(d)}
  <2>1. /\ pc' = "done" /\ byName' = byName /\ (AnswerTo(deps))' = AnswerTo(deps)
        /\ findings' = UNION {Of(d) : d \in S!Range(deps)}
    BY <1>1, <1>4 DEF S!Conclude, AnswerTo
  <2>2. (byName # <<>>)' => (byName = AnswerTo(deps))'
    BY <2>1 DEF DependenciesInv
  <2>3. /\ (S!Range(deps))' = S!Range(deps) /\ \A d : (S!AnswersFor(d))' = S!AnswersFor(d)
    BY <1>1, <2>1 DEF S!Range, S!AnswersFor
  <2>4. Pairs' = UNION {{d} \X S!AnswersFor(d) : d \in S!Range(deps)}
    <3> DEFINE Wanted == UNION {{d} \X S!AnswersFor(d) : d \in S!Range(deps)}
    <3>1. Pairs' = {<<f.dep, f.id>> : f \in findings'}
      BY DEF Pairs
    <3>2. ASSUME NEW p \in Pairs'
          PROVE  p \in Wanted
      <4>1. PICK f \in findings' : p = <<f.dep, f.id>>
        BY <3>1, <3>2
      <4>2. PICK d \in S!Range(deps) : f \in Of(d)
        BY <2>1, <4>1
      <4>3. f.dep = d /\ f.id \in S!AnswersFor(d)
        BY <4>2
      <4> QED
        BY <4>1, <4>2, <4>3
    <3>3. ASSUME NEW p \in Wanted
          PROVE  p \in Pairs'
      <4>1. PICK d \in S!Range(deps) : p \in {d} \X S!AnswersFor(d)
        BY <3>3
      <4>2. PICK id \in S!AnswersFor(d) : p = <<d, id>>
        BY <4>1
      <4> DEFINE f == [dep |-> d, id |-> id, severity |-> S!Severity(id)]
      <4>3. f \in findings'
        BY <2>1, <4>1, <4>2
      <4>4. f.dep = d /\ f.id = id
        OBVIOUS
      <4> HIDE DEF f
      <4> QED
        BY <3>1, <4>2, <4>3, <4>4
    <3> QED
      BY <3>2, <3>3
  <2>5. (UNION {{d} \X S!AnswersFor(d) : d \in S!Range(deps)})'
          = UNION {{d} \X S!AnswersFor(d) : d \in S!Range(deps)}
    BY <2>3
  <2> QED
    BY <1>1, <2>1, <2>2, <2>4, <2>5, ExtractedStays DEF DependenciesInv
<1> QED
  BY <1>2, <1>3, <1>4

(* At first, nothing is listed.                                            *)
LEMMA DependenciesInit ==
  ASSUME S!DependenciesAssumption, S!Init
  PROVE  DependenciesInv
<1>1. \A Z : <<>> \in Seq(Z)
  OBVIOUS
<1>2. DOMAIN listed = Ecosystems /\ \A eco \in Ecosystems : listed[eco] = <<>>
  BY DEF S!Init, Ecosystems
<1>3. /\ pc = "extract" /\ project \in Projects /\ place = 1 /\ locked = {}
      /\ deps = <<>> /\ byName = <<>>
  BY DEF S!Init
<1>4. \A eco \in Ecosystems : ~\E i \in S!Parsed(eco) : i < place /\ project[i].name \notin S!Loose
  <2>1. project \in Seq(S!Range(project))
    BY <1>3 DEF S!DependenciesAssumption
  <2>2. \A i \in DOMAIN project : i \in Nat /\ i >= 1
    BY <2>1
  <2> QED
    BY <1>3, <2>2 DEF S!Parsed
<1>5. \A eco \in Ecosystems : listed[eco] \in Seq(From(eco))
  BY <1>1, <1>2
<1>6. \A a, b \in DOMAIN deps : deps[a] = deps[b] => a = b
  BY <1>3
<1> QED
  BY <1>1, <1>2, <1>3, <1>4, <1>5, <1>6 DEF DependenciesInv

(* What is extracted, asked and reported stays within these bounds.        *)
LEMMA DependenciesInvariant ==
  ASSUME S!DependenciesAssumption
  PROVE  S!Spec => []DependenciesInv
<1>1. S!Init => DependenciesInv
  BY DependenciesInit
<1>2. DependenciesInv /\ [S!Next]_(S!vars) => DependenciesInv'
  <2>1. DependenciesInv /\ S!Next => DependenciesInv'
    BY ManifestRead, ExtractedOnce, QueryAndReport DEF S!Next
  <2>2. DependenciesInv /\ UNCHANGED S!vars => DependenciesInv'
    <3> SUFFICES ASSUME DependenciesInv, UNCHANGED S!vars PROVE DependenciesInv'
      OBVIOUS
    <3>1. /\ UNCHANGED <<project, place, listed, locked, deps>>
          /\ pc' = pc /\ byName' = byName /\ findings' = findings
      BY DEF S!vars
    <3>2. (AnswerTo(deps))' = AnswerTo(deps) /\ Pairs' = Pairs
      BY <3>1 DEF AnswerTo, Pairs
    <3>3. (UNION {{d} \X S!AnswersFor(d) : d \in S!Range(deps)})'
            = UNION {{d} \X S!AnswersFor(d) : d \in S!Range(deps)}
      BY <3>1 DEF S!Range, S!AnswersFor
    <3> QED
      BY <3>1, <3>2, <3>3, ExtractedStays DEF DependenciesInv
  <2> QED
    BY <2>1, <2>2
<1> QED
  BY <1>1, <1>2, PTL DEF S!Spec

(* The first n positions are n positions.                                  *)
LEMMA CountedTo ==
  \A n \in Nat : IsFiniteSet(1..n) /\ Cardinality(1..n) = n
<1>1. SUFFICES ASSUME NEW n \in Nat
               PROVE  IsFiniteSet(1..n) /\ Cardinality(1..n) = n
  OBVIOUS
<1>2. 1 \in Int /\ n \in Int /\ (IF 1 > n THEN 0 ELSE n - 1 + 1) = n
  OBVIOUS
<1>3. Cardinality(1..n) = IF 1 > n THEN 0 ELSE n - 1 + 1
  BY <1>2, FS_Interval
<1>4. IsFiniteSet(1..n)
  BY <1>2, FS_Interval
<1> QED
  BY <1>2, <1>3, <1>4

(* Where no name is listed twice, the answer under a dependency's name is  *)
(* the one about it.                                                       *)
LEMMA AnswerIsItsOwn ==
  ASSUME NEW X, NEW list \in Seq(X), Cardinality({d.name : d \in S!Range(list)}) = Len(list),
         NEW e \in S!Range(list)
  PROVE  e.name \in DOMAIN AnswerTo(list) /\ AnswerTo(list)[e.name] = Vulns[e]
<1> DEFINE N == {d.name : d \in S!Range(list)}
           names == [i \in 1..Len(list) |-> list[i].name]
<1>1. Len(list) \in Nat /\ DOMAIN list = 1..Len(list)
  OBVIOUS
<1>2. IsFiniteSet(1..Len(list)) /\ Cardinality(1..Len(list)) = Len(list)
  BY <1>1, CountedTo, Zenon
<1>3. names \in Surjection(1..Len(list), N)
  BY <1>1, Zenon DEF Surjection, S!Range
<1>4. names \in Injection(1..Len(list), N)
  <2> HIDE DEF names, N
  <2>1. Cardinality(1..Len(list)) = Cardinality(N)
    BY <1>2 DEF N
  <2> QED
    BY <1>2, <1>3, <2>1, FS_SurjSameCardinalityImpliesInj
<1>5. \A i, j \in DOMAIN list : list[i].name = list[j].name => i = j
  <2>1. \A i, j \in 1..Len(list) : names[i] = names[j] => i = j
    <3> HIDE DEF names, N
    <3> QED
      BY <1>4 DEF Injection, IsInjective
  <2> QED
    BY <1>1, <2>1
<1>6. PICK k \in DOMAIN list : e = list[k]
  BY DEF S!Range
<1> DEFINE last == CHOOSE i \in DOMAIN list :
                     list[i].name = e.name /\ \A j \in DOMAIN list : list[j].name = e.name => j <= i
<1>7. last = k
  <2>1. list[k].name = e.name /\ \A j \in DOMAIN list : list[j].name = e.name => j <= k
    BY <1>1, <1>5, <1>6
  <2>2. \A i \in DOMAIN list : list[i].name = e.name => i = k
    BY <1>5, <1>6
  <2> QED
    BY <2>1, <2>2
<1>8. e.name \in N
  OBVIOUS
<1>9. e.name \in DOMAIN AnswerTo(list) /\ AnswerTo(list)[e.name] = Vulns[list[last]]
  BY <1>8 DEF AnswerTo
<1> HIDE DEF last
<1> QED
  BY <1>6, <1>7, <1>9

(* Whatever files a project has and whichever parse: what is asked about   *)
(* is listed by a file that counts, each once, and where every package is  *)
(* listed once the findings are what the batch answered                    *)
(* (supply/deps.py:270-410).                                               *)
THEOREM ChecksAreInstalled == Spec => []CheckedIsInstalled
<1>1. S!DependenciesAssumption
  BY PartsAssumption
<1>2. DependenciesInv => S!CheckedIsInstalled
  <2> SUFFICES ASSUME DependenciesInv, pc = "done"
               PROVE  S!CheckedIsInstalled
    BY DEF S!CheckedIsInstalled
  <2>1. S!IsInjective(deps)
    BY DEF S!IsInjective, DependenciesInv
  <2>2. deps \in Seq(From("npm") \cup From("PyPI"))
    BY DEF DependenciesInv
  <2>3. ASSUME NEW d \in S!Range(deps)
        PROVE  \E i \in S!Parsed(d.ecosystem) :
                 /\ d \in S!Range(project[i].deps)
                 /\ project[i].name \in S!Loose => ~S!Pinned(d.ecosystem)
    <3>1. \A i \in DOMAIN deps : deps[i] \in From("npm") \cup From("PyPI")
      BY <2>2
    <3>2. d \in From("npm") \cup From("PyPI")
      BY <3>1 DEF S!Range
    <3>3. d \in From(d.ecosystem)
      BY <3>2 DEF From
    <3> QED
      BY <3>3 DEF From, Counting
  <2>4. ASSUME S!Cardinality({d.name : d \in S!Range(deps)}) = Len(deps), byName # <<>>
        PROVE  Pairs = UNION {{d} \X Vulns[d] : d \in S!Range(deps)}
    <3>1. Pairs = UNION {{d} \X S!AnswersFor(d) : d \in S!Range(deps)}
      BY <2>4 DEF DependenciesInv
    <3>2. byName = AnswerTo(deps)
      BY <2>4 DEF DependenciesInv
    <3>3. Cardinality({d.name : d \in S!Range(deps)}) = Len(deps)
      BY <2>4, DependenciesCountAlike
    <3>4. \A d \in S!Range(deps) : d.name \in DOMAIN byName /\ byName[d.name] = Vulns[d]
      BY <2>2, <3>2, <3>3, AnswerIsItsOwn
    <3>5. \A d \in S!Range(deps) : S!AnswersFor(d) = Vulns[d]
      BY <3>4 DEF S!AnswersFor
    <3> QED
      BY <3>1, <3>5
  <2> QED
    BY <2>1, <2>3, <2>4 DEF S!CheckedIsInstalled, Pairs
<1>3. S!CheckedIsInstalled \/ ~(part = "dependencies") => CheckedIsInstalled
  BY DEF CheckedIsInstalled
<1>4. S!Spec => []DependenciesInv
  BY <1>1, DependenciesInvariant
<1> QED
  BY <1>2, <1>3, <1>4, DependenciesPart, PTL

-----------------------------------------------------------------------------
(* What the search of C007 looks at: the tool itself, those it feeds, and  *)
(* those they feed, without turning back.                                  *)
LEMMA SearchedPaths ==
  ASSUME NEW edges, NEW a
  PROVE  \A p : p \in C!Searched(edges, a) <=>
           \/ p = <<a>>
           \/ \E m \in C!Successors(edges, a) \ {a} : p = <<a, m>>
           \/ \E m \in C!Successors(edges, a) \ {a} :
                \E k \in C!Successors(edges, m) \ {a, m} : p = <<a, m, k>>
<1> DEFINE Next1 == C!Successors(edges, a) \ {a}
           Next2(m) == C!Successors(edges, m) \ {a, m}
           two == C!Prolonged(edges, {<<a>>})
<1>1. C!Onward(edges, <<a>>) = Next1
  BY DEF C!Onward, C!Range
<1>2. \A m : C!Onward(edges, <<a, m>>) = Next2(m)
  BY DEF C!Onward, C!Range
<1>3. \A m, k : Append(<<a>>, m) = <<a, m>> /\ Append(<<a, m>>, k) = <<a, m, k>>
  <2> TAKE m, k
  <2> DEFINE X == {a, m, k}
  <2>1. <<a>> \in Seq(X) /\ <<a, m>> \in Seq(X) /\ <<a, m, k>> \in Seq(X)
    OBVIOUS
  <2>2. /\ Len(<<a>>) = 1 /\ Len(<<a, m>>) = 2 /\ Len(<<a, m, k>>) = 3
        /\ <<a>>[1] = a /\ <<a, m>>[1] = a /\ <<a, m>>[2] = m
        /\ <<a, m, k>>[1] = a /\ <<a, m, k>>[2] = m /\ <<a, m, k>>[3] = k
    OBVIOUS
  <2>3. \A s \in Seq(X), x \in X :
          /\ Append(s, x) \in Seq(X) /\ Len(Append(s, x)) = Len(s) + 1
          /\ Append(s, x)[Len(s) + 1] = x /\ \A i \in 1..Len(s) : Append(s, x)[i] = s[i]
    OBVIOUS
  <2>4. /\ Append(<<a>>, m) \in Seq(X) /\ Len(Append(<<a>>, m)) = 2
        /\ Append(<<a>>, m)[1] = a /\ Append(<<a>>, m)[2] = m
        /\ Append(<<a, m>>, k) \in Seq(X) /\ Len(Append(<<a, m>>, k)) = 3
        /\ Append(<<a, m>>, k)[1] = a /\ Append(<<a, m>>, k)[2] = m
        /\ Append(<<a, m>>, k)[3] = k
    BY <2>1, <2>2, <2>3
  <2> HIDE DEF X
  <2>5. \A t, u \in Seq(X) : Len(t) = 2 /\ Len(u) = 2 /\ t[1] = u[1] /\ t[2] = u[2] => t = u
    <3> TAKE t, u \in Seq(X)
    <3> HAVE Len(t) = 2 /\ Len(u) = 2 /\ t[1] = u[1] /\ t[2] = u[2]
    <3>1. \A i \in 1..Len(t) : t[i] = u[i]
      OBVIOUS
    <3> QED
      BY <3>1, SameSequence
  <2>6. \A t, u \in Seq(X) :
          Len(t) = 3 /\ Len(u) = 3 /\ t[1] = u[1] /\ t[2] = u[2] /\ t[3] = u[3] => t = u
    <3> TAKE t, u \in Seq(X)
    <3> HAVE Len(t) = 3 /\ Len(u) = 3 /\ t[1] = u[1] /\ t[2] = u[2] /\ t[3] = u[3]
    <3>1. \A i \in 1..Len(t) : t[i] = u[i]
      OBVIOUS
    <3> QED
      BY <3>1, SameSequence
  <2>7. Append(<<a>>, m) = <<a, m>>
    BY <2>1, <2>2, <2>4, <2>5
  <2>8. Append(<<a, m>>, k) = <<a, m, k>>
    BY <2>1, <2>2, <2>4, <2>6
  <2> QED
    BY <2>7, <2>8
<1> HIDE DEF Next1, Next2
<1>4. \A p : p \in two <=> \E m \in Next1 : p = <<a, m>>
  BY <1>1, <1>3 DEF C!Prolonged
<1>5. \A p : p \in C!Prolonged(edges, two) <=> \E q \in two : \E k \in C!Onward(edges, q) : p = Append(q, k)
  BY DEF C!Prolonged
<1> HIDE DEF two
<1>6. \A p : p \in C!Prolonged(edges, two) <=> \E m \in Next1 : \E k \in Next2(m) : p = <<a, m, k>>
  <2> TAKE p
  <2>1. ASSUME NEW q \in two, NEW k \in C!Onward(edges, q), p = Append(q, k)
        PROVE  \E m \in Next1 : \E n \in Next2(m) : p = <<a, m, n>>
    <3>1. PICK m \in Next1 : q = <<a, m>>
      BY <1>4
    <3> QED
      BY <1>2, <1>3, <2>1, <3>1
  <2>2. ASSUME NEW m \in Next1, NEW k \in Next2(m), p = <<a, m, k>>
        PROVE  \E q \in two : \E n \in C!Onward(edges, q) : p = Append(q, n)
    <3>1. <<a, m>> \in two /\ k \in C!Onward(edges, <<a, m>>) /\ p = Append(<<a, m>>, k)
      BY <1>2, <1>3, <1>4, <2>2
    <3> QED
      BY <3>1
  <2> QED
    BY <1>5, <2>1, <2>2
<1>7. C!Searched(edges, a) = {<<a>>} \cup two \cup C!Prolonged(edges, two)
  BY DEF C!Searched, two
<1>8. \A p : p \in C!Searched(edges, a) <=>
        \/ p = <<a>> \/ \E m \in Next1 : p = <<a, m>>
        \/ \E m \in Next1 : \E k \in Next2(m) : p = <<a, m, k>>
  BY <1>4, <1>6, <1>7
<1> QED
  BY <1>8 DEF Next1, Next2

(* The search finds a tool just if it is within three steps of another.    *)
LEMMA SearchIsReach ==
  ASSUME NEW edges, NEW a, NEW b, a # b
  PROVE  (\E path \in C!Searched(edges, a) : b \in C!Onward(edges, path)) <=>
           b \in C!Steps(edges, C!Steps(edges, C!Steps(edges, {a})))
<1> DEFINE Succ(k) == C!Successors(edges, k)
<1>1. \A K, k : k \in C!Steps(edges, K) <=> k \in K \/ \E m \in K : k \in Succ(m)
  BY DEF C!Steps, C!Successors
<1>2. \A m, k : /\ C!Onward(edges, <<a>>) = Succ(a) \ {a}
                /\ C!Onward(edges, <<a, m>>) = Succ(m) \ {a, m}
                /\ C!Onward(edges, <<a, m, k>>) = Succ(k) \ {a, m, k}
  BY DEF C!Onward, C!Range
<1> HIDE DEF Succ
<1>3. (\E path \in C!Searched(edges, a) : b \in C!Onward(edges, path)) <=>
        \/ b \in Succ(a)
        \/ \E m \in Succ(a) \ {a} : b \in Succ(m) \ {m}
        \/ \E m \in Succ(a) \ {a} : \E k \in Succ(m) \ {a, m} : b \in Succ(k) \ {m, k}
  <2>1. ASSUME NEW path \in C!Searched(edges, a), b \in C!Onward(edges, path)
        PROVE  \/ b \in Succ(a)
               \/ \E m \in Succ(a) \ {a} : b \in Succ(m) \ {m}
               \/ \E m \in Succ(a) \ {a} : \E k \in Succ(m) \ {a, m} : b \in Succ(k) \ {m, k}
    <3>1. \/ path = <<a>>
          \/ \E m \in Succ(a) \ {a} : path = <<a, m>>
          \/ \E m \in Succ(a) \ {a} : \E k \in Succ(m) \ {a, m} : path = <<a, m, k>>
      BY SearchedPaths DEF Succ
    <3> QED
      BY <1>2, <2>1, <3>1
  <2>2. ASSUME b \in Succ(a)
        PROVE  \E path \in C!Searched(edges, a) : b \in C!Onward(edges, path)
    <3>1. <<a>> \in C!Searched(edges, a) /\ b \in C!Onward(edges, <<a>>)
      BY <1>2, <2>2, SearchedPaths
    <3> QED
      BY <3>1
  <2>3. ASSUME NEW m \in Succ(a) \ {a}, b \in Succ(m) \ {m}
        PROVE  \E path \in C!Searched(edges, a) : b \in C!Onward(edges, path)
    <3>1. <<a, m>> \in C!Searched(edges, a) /\ b \in C!Onward(edges, <<a, m>>)
      BY <1>2, <2>3, SearchedPaths DEF Succ
    <3> QED
      BY <3>1
  <2>4. ASSUME NEW m \in Succ(a) \ {a}, NEW k \in Succ(m) \ {a, m}, b \in Succ(k) \ {m, k}
        PROVE  \E path \in C!Searched(edges, a) : b \in C!Onward(edges, path)
    <3>1. <<a, m, k>> \in C!Searched(edges, a) /\ b \in C!Onward(edges, <<a, m, k>>)
      BY <1>2, <2>4, SearchedPaths DEF Succ
    <3> QED
      BY <3>1
  <2> QED
    BY <2>1, <2>2, <2>3, <2>4
<1>4. \A k : k \in C!Steps(edges, {a}) <=> k = a \/ k \in Succ(a)
  BY <1>1
<1>5. \A k : k \in C!Steps(edges, C!Steps(edges, {a})) <=>
        k = a \/ k \in Succ(a) \/ \E m \in Succ(a) : k \in Succ(m)
  BY <1>1, <1>4
<1>6. b \in C!Steps(edges, C!Steps(edges, C!Steps(edges, {a}))) <=>
        \/ b \in Succ(a) \/ \E m \in Succ(a) : b \in Succ(m)
        \/ \E m \in Succ(a) : \E k \in Succ(m) : b \in Succ(k)
  BY <1>1, <1>5
<1> QED
  BY <1>3, <1>6

(* What is known of the servers scanned so far: each scan is of one of the *)
(* servers that were tried.                                                *)
ContextInv ==
  /\ tried \in Nat /\ scans \in Seq(Nat \X Reports)
  /\ \A i \in DOMAIN scans : scans[i][1] \in 1..tried

(* A step keeps it.                                                        *)
LEMMA ContextStep ==
  ASSUME ContextInv, [C!Next]_(C!vars)
  PROVE  ContextInv'
<1>1. CASE C!Scan
  <2>1. PICK r \in Reports : scans' = Append(scans, <<tried + 1, r>>)
    BY <1>1 DEF C!Scan
  <2>2. tried' = tried + 1
    BY <1>1 DEF C!Scan
  <2> QED
    BY <2>1, <2>2 DEF ContextInv
<1>2. CASE C!ScanFails
  BY <1>2 DEF C!ScanFails, ContextInv
<1>3. CASE UNCHANGED C!vars
  BY <1>3 DEF C!vars, ContextInv
<1> QED
  BY <1>1, <1>2, <1>3 DEF C!Next

(* So it holds of every analysis.                                          *)
LEMMA ContextIsInv == C!Spec => []ContextInv
<1>1. C!Init => ContextInv
  BY DEF C!Init, ContextInv
<1>2. ContextInv /\ [C!Next]_(C!vars) => ContextInv'
  BY ContextStep
<1> QED
  BY <1>1, <1>2, PTL DEF C!Spec

(* The servers of tools are numbers, so that of two servers one is first.  *)
LEMMA ServersAreNumbers ==
  ASSUME ContextInv
  PROVE  \A m \in C!Nodes(scans) : m.server \in Int
<1> SUFFICES ASSUME NEW m \in C!Nodes(scans) PROVE m.server \in Int
  OBVIOUS
<1>1. PICK i \in DOMAIN scans : m \in C!NodesOf(scans[i])
  BY DEF C!Nodes
<1>2. m.server = scans[i][1]
  BY <1>1 DEF C!NodesOf
<1> QED
  BY <1>1, <1>2 DEF ContextInv

(* The edges that the loop over the pairs finds: of what can feed what,    *)
(* all that is not overlooked.                                             *)
LEMMA EdgesAreFeeds ==
  ASSUME ContextInv
  PROVE  \A e : e \in C!Edges(scans) <=> e \in C!CanFeed(scans) /\ ~C!Overlooked(e)
<1> SUFFICES ASSUME NEW e \in C!Nodes(scans) \X C!Nodes(scans)
             PROVE  e \in C!Edges(scans) <=> e \in C!CanFeed(scans) /\ ~C!Overlooked(e)
  BY DEF C!Edges, C!CanFeed
<1> DEFINE m == e[1]
           k == e[2]
<1>1. m \in C!Nodes(scans) /\ k \in C!Nodes(scans)
  OBVIOUS
<1>2. e \in C!Edges(scans) <=> (C!LookedAt(m, k) \/ C!LookedAt(k, m)) /\ C!Feeds(m, k)
  BY DEF C!Edges
<1>3. e \in C!CanFeed(scans) <=> m.server # k.server /\ C!Feeds(m, k)
  BY DEF C!CanFeed
<1>4. C!Overlooked(e) <=> C!Before(k, m) /\ k.tool.out = {}
  BY DEF C!Overlooked
<1>5. C!Feeds(m, k) => m.tool.out # {}
  BY DEF C!Feeds
<1>6. m.server \in Int /\ k.server \in Int
  BY <1>1, ServersAreNumbers
<1> HIDE DEF m, k
<1>7. m.server # k.server =>
        (C!Before(m, k) <=> m.server < k.server) /\ (C!Before(k, m) <=> k.server < m.server)
  BY DEF C!Before
<1>8. m.server # k.server => (C!Before(m, k) <=> ~C!Before(k, m))
  BY <1>6, <1>7
<1> QED
  BY <1>2, <1>3, <1>4, <1>5, <1>8 DEF C!LookedAt

(* A tool of another server is within three edges of one just if it can be *)
(* fed from within two steps, and the edge of that last step is there.     *)
LEMMA ReachIsFed ==
  ASSUME ContextInv, NEW r, NEW w, r # w
  PROVE  w \in C!Steps(C!Edges(scans), C!Steps(C!Edges(scans), C!Steps(C!Edges(scans), {r}))) <=>
           \E e \in C!CanFeed(scans) :
             /\ e[1] \in C!Steps(C!CanFeed(scans), C!Steps(C!CanFeed(scans), {r}))
             /\ e[2] = w /\ ~C!Overlooked(e)
<1> DEFINE edges == C!Edges(scans)
           feeds == C!CanFeed(scans)
           twice(x) == C!Steps(x, C!Steps(x, {r}))
<1>1. \A x, N, k : k \in C!Steps(x, N) <=> k \in N \/ \E e \in x : e[1] \in N /\ e[2] = k
  BY DEF C!Steps
<1>2. \A e : e \in edges <=> e \in feeds /\ ~C!Overlooked(e)
  BY EdgesAreFeeds
<1>3. \A e, f \in feeds : f[1] = e[2] => e \in edges
  <2> SUFFICES ASSUME NEW e \in feeds, NEW f \in feeds, f[1] = e[2] PROVE ~C!Overlooked(e)
    BY <1>2
  <2>1. f[1].tool.out # {}
    BY DEF C!CanFeed, C!Feeds
  <2> QED
    BY <2>1 DEF C!Overlooked
<1>4. \A x, k : k \in C!Steps(x, {r}) <=> k = r \/ \E e \in x : e[1] = r /\ e[2] = k
  BY <1>1
<1>5. \A x, k : k \in twice(x) <=>
        \/ k = r
        \/ \E e \in x : e[1] = r /\ e[2] = k
        \/ \E e, f \in x : e[1] = r /\ f[1] = e[2] /\ f[2] = k
  BY <1>1, <1>4
<1> HIDE DEF edges, feeds, twice
<1>6. twice(edges) \subseteq twice(feeds)
  BY <1>2, <1>5
<1>7. \A e \in feeds : e[1] \in twice(feeds) => e[1] \in twice(edges)
  <2> TAKE e \in feeds
  <2> HAVE e[1] \in twice(feeds)
  <2>1. CASE e[1] = r
    BY <1>5, <2>1
  <2>2. CASE \E f \in feeds : f[1] = r /\ f[2] = e[1]
    BY <1>3, <1>5, <2>2
  <2>3. CASE \E f, g \in feeds : f[1] = r /\ g[1] = f[2] /\ g[2] = e[1]
    <3>1. PICK f \in feeds, g \in feeds : f[1] = r /\ g[1] = f[2] /\ g[2] = e[1]
      BY <2>3
    <3>2. f \in edges /\ g \in edges
      BY <1>3, <3>1
    <3> QED
      BY <1>5, <3>1, <3>2
  <2> QED
    BY <1>5, <2>1, <2>2, <2>3
<1>8. w \in C!Steps(edges, twice(edges)) <=> \E e \in edges : e[1] \in twice(edges) /\ e[2] = w
  <2>1. w \in twice(edges) => \E e \in edges : e[1] \in twice(edges) /\ e[2] = w
    BY <1>5
  <2> QED
    BY <1>1, <2>1
<1>9. w \in C!Steps(edges, twice(edges)) <=>
        \E e \in feeds : e[1] \in twice(feeds) /\ e[2] = w /\ ~C!Overlooked(e)
  BY <1>2, <1>6, <1>7, <1>8
<1> QED
  BY <1>9 DEF edges, feeds, twice

(* C007 tells of exactly the tools that only read and can feed a writing   *)
(* one of another server, directly or over at most two others, but where   *)
(* the last step leads back into a tool without outputs                    *)
(* (analyzer/context.py:315-357, 491-602).                                 *)
THEOREM EscalationsAreExact == Spec => []EscalationsExact
<1>1. ContextInv => C!EscalationsExact
  <2> SUFFICES ASSUME ContextInv PROVE C!EscalationsExact
    OBVIOUS
  <2> DEFINE feeds == C!CanFeed(scans)
             nodes == C!Nodes(scans)
             twice(r) == C!Steps(feeds, C!Steps(feeds, {r}))
             fed(r) == {e[2] : e \in {f \in feeds : f[1] \in twice(r) /\ ~C!Overlooked(f)}}
             reached(r, w) == \E path \in C!Searched(C!Edges(scans), r) :
                                w \in C!Onward(C!Edges(scans), path)
             pairs == {p \in nodes \X nodes :
                         /\ C!OnlyReads(p[1]) /\ C!Writes(p[2]) /\ p[1].server # p[2].server
                         /\ reached(p[1], p[2])}
             Told == {f.about : f \in C!Escalations(scans)}
             ends(r) == {n \in fed(r) : C!Writes(n) /\ n.server # r.server}
             starts == {n \in nodes : C!OnlyReads(n)}
             There == UNION {{<<C!Key(r), C!Key(w)>> : w \in ends(r)} : r \in starts}
  <2>1. C!Escalations(scans) =
          {C!Finding("C007", "critical", <<C!Key(p[1]), C!Key(p[2])>>) : p \in pairs}
    BY DEF C!Escalations
  <2>2. \A x : x \in Told <=> \E p \in pairs : x = <<C!Key(p[1]), C!Key(p[2])>>
    <3> DEFINE pairsOf(p) == C!Finding("C007", "critical", <<C!Key(p[1]), C!Key(p[2])>>)
    <3>1. \A p : pairsOf(p).about = <<C!Key(p[1]), C!Key(p[2])>>
      BY DEF C!Finding
    <3>2. C!Escalations(scans) = {pairsOf(p) : p \in pairs}
      BY <2>1
    <3> HIDE DEF pairs, pairsOf
    <3> QED
      BY <3>1, <3>2
  <2>3. \A r, w : r.server # w.server => (reached(r, w) <=> w \in fed(r))
    <3> TAKE r, w
    <3> HAVE r.server # w.server
    <3>1. r # w
      OBVIOUS
    <3>2. w \in fed(r) <=> \E e \in feeds : e[1] \in twice(r) /\ e[2] = w /\ ~C!Overlooked(e)
      OBVIOUS
    <3> HIDE DEF fed
    <3> QED
      BY <3>1, <3>2, SearchIsReach, ReachIsFed
  <2>4. \A r \in nodes : fed(r) \subseteq nodes
    BY DEF C!CanFeed
  <2> HIDE DEF reached, fed, nodes
  <2>5. \A x : (\E p \in pairs : x = <<C!Key(p[1]), C!Key(p[2])>>) <=>
               \E r \in starts : \E w \in ends(r) : x = <<C!Key(r), C!Key(w)>>
    <3> TAKE x
    <3>1. ASSUME NEW p \in pairs, x = <<C!Key(p[1]), C!Key(p[2])>>
          PROVE  \E r \in starts : \E w \in ends(r) : x = <<C!Key(r), C!Key(w)>>
      <4>1. p[1] \in starts /\ p[2] \in ends(p[1])
        BY <2>3, <3>1
      <4> QED
        BY <3>1, <4>1
    <3>2. ASSUME NEW r \in starts, NEW w \in ends(r), x = <<C!Key(r), C!Key(w)>>
          PROVE  \E p \in pairs : x = <<C!Key(p[1]), C!Key(p[2])>>
      <4>1. <<r, w>> \in pairs
        BY <2>3, <2>4, <3>2
      <4> QED
        BY <3>2, <4>1
    <3> QED
      BY <3>1, <3>2
  <2>6. \A x : x \in There <=>
               \E r \in starts : \E w \in ends(r) : x = <<C!Key(r), C!Key(w)>>
    <3> HIDE DEF ends, starts
    <3> QED
      OBVIOUS
  <2>7. Told = There
    <3> HIDE DEF Told, There, pairs, ends, starts
    <3> QED
      BY <2>2, <2>5, <2>6
  <2> QED
    BY <2>7 DEF C!EscalationsExact, fed, nodes
<1>2. C!EscalationsExact \/ ~(part = "context") => EscalationsExact
  BY DEF EscalationsExact
<1> QED
  BY <1>1, <1>2, ContextIsInv, ContextPart, PTL

(* The tools of the servers scanned so far stay as they are; the others    *)
(* are those of one server, with a number of its own.                      *)
LEMMA NodesStay ==
  ASSUME ContextInv, [C!Next]_(C!vars)
  PROVE  /\ C!Nodes(scans) \subseteq C!Nodes(scans')
         /\ \A n \in C!Nodes(scans') : n.server \in 1..tried => n \in C!Nodes(scans)
         /\ \A n \in C!Nodes(scans) : n.server \in 1..tried
         /\ tried \in Nat /\ tried' \in Nat
         /\ \A n \in C!Nodes(scans') : n.server \in 1..tried'
         /\ Len(scans) < 2 \/ Len(scans') >= 2
<1>0. \A s, n : n \in C!NodesOf(s) => n.server = s[1]
  BY DEF C!NodesOf
<1>1. CASE C!Scan
  <2>1. PICK r \in Reports : scans' = Append(scans, <<tried + 1, r>>)
    BY <1>1 DEF C!Scan
  <2>2. /\ tried \in Nat /\ tried' = tried + 1
        /\ Len(scans) \in Nat /\ Len(scans') = Len(scans) + 1
        /\ DOMAIN scans = 1..Len(scans) /\ DOMAIN scans' = 1..(Len(scans) + 1)
        /\ \A i \in DOMAIN scans : scans'[i] = scans[i]
        /\ scans'[Len(scans) + 1] = <<tried + 1, r>>
    BY <1>1, <2>1 DEF C!Scan, ContextInv
  <2>3. \A n : n \in C!Nodes(scans) <=> \E i \in DOMAIN scans : n \in C!NodesOf(scans[i])
    BY DEF C!Nodes
  <2>4. \A n : n \in C!Nodes(scans') <=> \E i \in DOMAIN scans' : n \in C!NodesOf(scans'[i])
    BY DEF C!Nodes
  <2>5. \A n \in C!Nodes(scans) : n.server \in 1..tried
    BY <1>0, <2>3 DEF ContextInv
  <2>6. \A n \in C!Nodes(scans') :
          n \in C!Nodes(scans) \/ n.server = tried + 1
    <3> TAKE n \in C!Nodes(scans')
    <3>1. PICK i \in DOMAIN scans' : n \in C!NodesOf(scans'[i])
      BY <2>4
    <3>2. CASE i = Len(scans) + 1
      <4>1. scans'[i][1] = tried + 1
        BY <2>2, <3>2
      <4> QED
        BY <1>0, <3>1, <4>1
    <3>3. CASE i # Len(scans) + 1
      <4>1. i \in DOMAIN scans
        BY <2>2, <3>3
      <4> QED
        BY <2>2, <2>3, <3>1, <4>1
    <3> QED
      BY <3>2, <3>3
  <2>7. C!Nodes(scans) \subseteq C!Nodes(scans')
    BY <2>2, <2>3, <2>4
  <2>8. \A n \in C!Nodes(scans') : n.server \in 1..tried => n \in C!Nodes(scans)
    BY <2>2, <2>6
  <2>9. \A n \in C!Nodes(scans') : n.server \in 1..tried'
    BY <2>2, <2>5, <2>6
  <2> QED
    BY <2>2, <2>5, <2>7, <2>8, <2>9
<1>2. CASE C!ScanFails \/ UNCHANGED C!vars
  <2>1. scans' = scans /\ tried \in Nat /\ tried' \in Nat /\ tried <= tried' /\ Len(scans) \in Nat
    BY <1>2 DEF C!ScanFails, C!vars, ContextInv
  <2>2. \A n \in C!Nodes(scans) : n.server \in 1..tried
    BY <1>0 DEF ContextInv, C!Nodes
  <2> QED
    BY <2>1, <2>2
<1> QED
  BY <1>1, <1>2 DEF C!Next

(* What more tools change in the graph: nothing is taken out of it, nor    *)
(* out of what a search finds in it.                                       *)
LEMMA MoreOnward ==
  ASSUME NEW edges, NEW more, edges \subseteq more, NEW paths, NEW others, paths \subseteq others
  PROVE  /\ \A path : C!Onward(edges, path) \subseteq C!Onward(more, path)
         /\ C!Prolonged(edges, paths) \subseteq C!Prolonged(more, others)
<1>1. \A n : C!Successors(edges, n) \subseteq C!Successors(more, n)
  BY DEF C!Successors
<1>2. \A path : C!Onward(edges, path) \subseteq C!Onward(more, path)
  BY <1>1 DEF C!Onward
<1>3. C!Prolonged(edges, paths) \subseteq C!Prolonged(more, others)
  BY <1>2 DEF C!Prolonged
<1> QED
  BY <1>2, <1>3

(* Nor are paths, of a chain or of the search of C007.                     *)
LEMMA MorePaths ==
  ASSUME NEW ss, NEW more, C!Nodes(ss) \subseteq C!Nodes(more)
  PROVE  /\ C!Edges(ss) \subseteq C!Edges(more)
         /\ C!Paths(ss) \subseteq C!Paths(more)
         /\ \A n : C!Searched(C!Edges(ss), n) \subseteq C!Searched(C!Edges(more), n)
<1>1. C!Edges(ss) \subseteq C!Edges(more)
  BY DEF C!Edges
<1>2. C!Paths(ss) \subseteq C!Paths(more)
  <2> DEFINE one(s) == C!Prolonged(C!Edges(s), {<<n>> : n \in C!Nodes(s)})
             two(s) == C!Prolonged(C!Edges(s), one(s))
             three(s) == C!Prolonged(C!Edges(s), two(s))
             four(s) == C!Prolonged(C!Edges(s), three(s))
             five(s) == C!Prolonged(C!Edges(s), four(s))
  <2>1. one(ss) \subseteq one(more)
    <3>1. {<<n>> : n \in C!Nodes(ss)} \subseteq {<<n>> : n \in C!Nodes(more)}
      OBVIOUS
    <3> QED
      BY <1>1, <3>1, MoreOnward
  <2> HIDE DEF one
  <2>2. two(ss) \subseteq two(more)
    BY <1>1, <2>1, MoreOnward
  <2> HIDE DEF two
  <2>3. three(ss) \subseteq three(more)
    BY <1>1, <2>2, MoreOnward
  <2> HIDE DEF three
  <2>4. four(ss) \subseteq four(more)
    BY <1>1, <2>3, MoreOnward
  <2> HIDE DEF four
  <2>5. five(ss) \subseteq five(more)
    BY <1>1, <2>4, MoreOnward
  <2> HIDE DEF five
  <2>6. \A s : C!Paths(s) = one(s) \cup two(s) \cup three(s) \cup four(s) \cup five(s)
    BY DEF C!Paths, one, two, three, four, five
  <2> QED
    BY <2>1, <2>2, <2>3, <2>4, <2>5, <2>6
<1>3. \A n : C!Searched(C!Edges(ss), n) \subseteq C!Searched(C!Edges(more), n)
  <2> TAKE n
  <2> DEFINE two(s) == C!Prolonged(C!Edges(s), {<<n>>})
             three(s) == C!Prolonged(C!Edges(s), two(s))
  <2>1. two(ss) \subseteq two(more)
    BY <1>1, MoreOnward
  <2> HIDE DEF two
  <2>2. three(ss) \subseteq three(more)
    BY <1>1, <2>1, MoreOnward
  <2> HIDE DEF three
  <2>3. \A s : C!Searched(C!Edges(s), n) = {<<n>>} \cup two(s) \cup three(s)
    BY DEF C!Searched, two, three
  <2> QED
    BY <2>1, <2>2, <2>3
<1> QED
  BY <1>1, <1>2, <1>3

(* What more tools change in the findings on names, on data that leaves    *)
(* and on the graph: nothing but the severity of a chain.                  *)
LEMMA MoreTools ==
  ASSUME NEW ss, NEW more, C!Nodes(ss) \subseteq C!Nodes(more)
  PROVE  /\ C!NameCollisions(ss) \subseteq C!NameCollisions(more)
         /\ C!Shadowing(ss) \subseteq C!Shadowing(more)
         /\ \A trait : C!ServersWith(ss, trait) \subseteq C!ServersWith(more, trait)
         /\ C!Exfiltration(ss) \subseteq C!Exfiltration(more)
         /\ C!Escalations(ss) \subseteq C!Escalations(more)
         /\ \A f \in C!AttackPathChains(ss) :
              \E g \in C!AttackPathChains(more) : C!Lasting(f) = C!Lasting(g)
<1>1. C!NameCollisions(ss) \subseteq C!NameCollisions(more)
  BY DEF C!NameCollisions
<1>2. C!Shadowing(ss) \subseteq C!Shadowing(more)
  BY DEF C!Shadowing
<1>3. \A trait : C!ServersWith(ss, trait) \subseteq C!ServersWith(more, trait)
  BY DEF C!ServersWith
<1>4. C!Exfiltration(ss) \subseteq C!Exfiltration(more)
  <2>1. /\ C!ServersWith(ss, "reads_data") \subseteq C!ServersWith(more, "reads_data")
        /\ C!ServersWith(ss, "sends") \subseteq C!ServersWith(more, "sends")
    BY DEF C!ServersWith
  <2> DEFINE from(s) == C!ServersWith(s, "reads_data")
             to(s) == C!ServersWith(s, "sends")
             pairs(s) == {p \in from(s) \X to(s) : p[1] # p[2]}
  <2>2. from(ss) \subseteq from(more) /\ to(ss) \subseteq to(more)
    BY <2>1
  <2> HIDE DEF from, to
  <2>3. pairs(ss) \subseteq pairs(more)
    BY <2>2
  <2> HIDE DEF pairs
  <2>4. \A s : C!Exfiltration(s) = {C!Finding("C003", "critical", rs) : rs \in pairs(s)}
    BY DEF C!Exfiltration, pairs, from, to
  <2> QED
    BY <2>3, <2>4
<1>5. C!Escalations(ss) \subseteq C!Escalations(more)
  <2> DEFINE led(s, p) == \E path \in C!Searched(C!Edges(s), p[1]) : p[2] \in C!Onward(C!Edges(s), path)
             pairs(s) == {p \in C!Nodes(s) \X C!Nodes(s) :
                            /\ C!OnlyReads(p[1]) /\ C!Writes(p[2]) /\ p[1].server # p[2].server
                            /\ led(s, p)}
  <2>1. \A p : led(ss, p) => led(more, p)
    <3>1. \A n : C!Searched(C!Edges(ss), n) \subseteq C!Searched(C!Edges(more), n)
      BY MorePaths
    <3>2. \A path : C!Onward(C!Edges(ss), path) \subseteq C!Onward(C!Edges(more), path)
      BY MorePaths, MoreOnward
    <3> QED
      BY <3>1, <3>2
  <2> HIDE DEF led
  <2>2. pairs(ss) \subseteq pairs(more)
    BY <2>1
  <2> HIDE DEF pairs
  <2>3. \A s : C!Escalations(s) =
          {C!Finding("C007", "critical", <<C!Key(rw[1]), C!Key(rw[2])>>) : rw \in pairs(s)}
    BY DEF C!Escalations, pairs, led
  <2> QED
    BY <2>2, <2>3
<1>6. \A f \in C!AttackPathChains(ss) :
        \E g \in C!AttackPathChains(more) : C!Lasting(f) = C!Lasting(g)
  <2> DEFINE names(s) == {C!ToolNames(p) : p \in C!Paths(s)}
             chain(s, n) == C!Finding("C006", C!ChainSeverity(C!First(C!Paths(s), n)), n)
  <2>1. names(ss) \subseteq names(more)
    BY MorePaths
  <2>2. \A s, n : chain(s, n).rule = "C006" /\ chain(s, n).about = n
    BY DEF C!Finding
  <2>3. \A s : C!AttackPathChains(s) = {chain(s, n) : n \in names(s)}
    BY DEF C!AttackPathChains
  <2> HIDE DEF names, chain
  <2> TAKE f \in C!AttackPathChains(ss)
  <2>4. PICK n \in names(ss) : f = chain(ss, n)
    BY <2>3
  <2>5. chain(more, n) \in C!AttackPathChains(more)
    BY <2>1, <2>3
  <2>6. C!Lasting(f) = C!Lasting(chain(more, n))
    BY <2>2, <2>4 DEF C!Lasting
  <2> QED
    BY <2>5, <2>6
<1> QED
  BY <1>1, <1>2, <1>3, <1>4, <1>5, <1>6

(* One more server takes no finding away: what a server can do, what its   *)
(* tools are called and what they feed does not depend on the others. The  *)
(* numbers matter to C004, which counts servers, and to C005, for which a  *)
(* server that only reads must not begin to write.                         *)
LEMMA MoreFindings ==
  ASSUME ContextInv, [C!Next]_(C!vars)
  PROVE  C!MoreServersMoreFindings
<1> DEFINE more == scans'
<1>0. /\ C!Nodes(scans) \subseteq C!Nodes(more)
      /\ \A n \in C!Nodes(more) : n.server \in 1..tried => n \in C!Nodes(scans)
      /\ \A n \in C!Nodes(scans) : n.server \in 1..tried
      /\ tried' \in Nat
      /\ \A n \in C!Nodes(more) : n.server \in 1..tried'
      /\ Len(scans) < 2 \/ Len(more) >= 2
      /\ Len(more) \in Nat
  <2>1. Len(scans') \in Nat
    <3>1. ContextInv'
      BY ContextStep
    <3> QED
      BY <3>1 DEF ContextInv
  <2> QED
    BY <2>1, NodesStay
<1> HIDE DEF more
<1>1. /\ C!NameCollisions(scans) \subseteq C!NameCollisions(more)
      /\ C!Shadowing(scans) \subseteq C!Shadowing(more)
      /\ \A trait : C!ServersWith(scans, trait) \subseteq C!ServersWith(more, trait)
      /\ C!Exfiltration(scans) \subseteq C!Exfiltration(more)
      /\ C!Escalations(scans) \subseteq C!Escalations(more)
      /\ \A f \in C!AttackPathChains(scans) :
           \E g \in C!AttackPathChains(more) : C!Lasting(f) = C!Lasting(g)
  BY <1>0, MoreTools
<1>2. C!CapabilityOverlap(scans) \subseteq C!CapabilityOverlap(more)
  <2>1. \A trait : /\ IsFiniteSet(C!ServersWith(more, trait))
                   /\ IsFiniteSet(C!ServersWith(scans, trait))
                   /\ C!Cardinality(C!ServersWith(scans, trait)) \in Nat
                   /\ C!Cardinality(C!ServersWith(more, trait)) \in Nat
                   /\ C!Cardinality(C!ServersWith(scans, trait)) <= C!Cardinality(C!ServersWith(more, trait))
    <3> TAKE trait
    <3>1. C!ServersWith(more, trait) \subseteq 1..tried'
      BY <1>0 DEF C!ServersWith
    <3>2. IsFiniteSet(1..tried')
      BY <1>0, FS_Interval
    <3>3. IsFiniteSet(C!ServersWith(more, trait))
      BY <3>1, <3>2, FS_Subset
    <3>4. /\ IsFiniteSet(C!ServersWith(scans, trait))
          /\ Cardinality(C!ServersWith(scans, trait)) <= Cardinality(C!ServersWith(more, trait))
      BY <1>1, <3>3, FS_Subset
    <3>5. \A Z : C!Cardinality(Z) = Cardinality(Z)
      BY DEF C!Cardinality, C!IsFiniteSet, Cardinality, IsFiniteSet
    <3> QED
      BY <3>3, <3>4, <3>5, FS_CardinalityType
  <2> QED
    BY <2>1 DEF C!CapabilityOverlap
<1>3. C!PermissionGradient(scans) \subseteq C!PermissionGradient(more)
  <2>1. \A trait : \A s \in C!ServersWith(scans, "reads") :
          s \in C!ServersWith(more, trait) => s \in C!ServersWith(scans, trait)
    BY <1>0 DEF C!ServersWith
  <2> DEFINE write(ss) == C!ServersWith(ss, "writes")
             readOnly(ss) == C!ServersWith(ss, "reads") \ write(ss)
  <2>2. write(scans) \subseteq write(more) /\ readOnly(scans) \subseteq readOnly(more)
    BY <1>1, <2>1
  <2> HIDE DEF write, readOnly
  <2>3. \A ss : C!PermissionGradient(ss) =
          IF write(ss) # {} /\ readOnly(ss) # {} THEN {C!Finding("C005", "medium", "mix")} ELSE {}
    BY DEF C!PermissionGradient, write, readOnly
  <2> QED
    BY <2>2, <2>3
<1>4. \A f \in C!Analyze(scans) : \E g \in C!Analyze(more) : C!Lasting(f) = C!Lasting(g)
  <2> TAKE f \in C!Analyze(scans)
  <2>1. ~(Len(scans) < 2)
    BY DEF C!Analyze
  <2>2. ~(Len(more) < 2)
    BY <1>0, <2>1
  <2>3. /\ C!Analyze(scans) =
             C!NameCollisions(scans) \cup C!Shadowing(scans) \cup C!Exfiltration(scans)
             \cup C!CapabilityOverlap(scans) \cup C!PermissionGradient(scans)
             \cup C!AttackPathChains(scans) \cup C!Escalations(scans)
        /\ C!Analyze(more) =
             C!NameCollisions(more) \cup C!Shadowing(more) \cup C!Exfiltration(more)
             \cup C!CapabilityOverlap(more) \cup C!PermissionGradient(more)
             \cup C!AttackPathChains(more) \cup C!Escalations(more)
    BY <2>1, <2>2 DEF C!Analyze
  <2>4. CASE f \in C!AttackPathChains(scans)
    BY <1>1, <2>3, <2>4
  <2>5. CASE f \notin C!AttackPathChains(scans)
    BY <1>1, <1>2, <1>3, <2>3, <2>5
  <2> QED
    BY <2>4, <2>5
<1>5. {C!Lasting(f) : f \in C!Analyze(scans)} \subseteq {C!Lasting(f) : f \in C!Analyze(more)}
  BY <1>4
<1> QED
  BY <1>5 DEF C!MoreServersMoreFindings, more

(* Connecting one more server never makes a finding on the others go away  *)
(* (analyzer/context.py:64-602): no collision, no chain, no overlap.       *)
THEOREM MoreServersTakeNothingAway == Spec => MoreServersMoreFindings
<1>1. ContextInv /\ [C!Next]_(C!vars) => C!MoreServersMoreFindings
  BY MoreFindings
<1>2. part = "context" /\ [Next]_vars => [C!Next]_(C!vars)
  BY DEF Next, vars, C!vars
<1>3. [Next]_vars /\ (ContextInv \/ ~(part = "context")) =>
        [part = "context" => C!MoreServersMoreFindings]_vars
  BY <1>1, <1>2
<1>4. Spec => [](ContextInv \/ ~(part = "context"))
  BY ContextPart, ContextIsInv, PTL
<1> QED
  BY <1>3, <1>4, PTL DEF Spec, MoreServersMoreFindings

-----------------------------------------------------------------------------
(* Texts: what a text holds is what stands at its places.                  *)
LEMMA WordsOfText ==
  ASSUME NEW text, NEW words
  PROVE  /\ \A i : i \in R!At(text, words) <=> i \in DOMAIN text /\ text[i] \in words
         /\ \A w : w \in R!Range(text) <=> \E i \in DOMAIN text : text[i] = w
BY DEF R!At, R!Range

(* What is appended to a sequence is found in it besides what was there.   *)
LEMMA RangeOfAppend ==
  ASSUME NEW s, s \in Seq(R!Range(s)), NEW w
  PROVE  /\ Append(s, w) \in Seq(R!Range(Append(s, w)))
         /\ R!Range(s) \subseteq R!Range(Append(s, w))
         /\ Len(Append(s, w)) = Len(s) + 1
         /\ \A i \in 1..Len(s) : Append(s, w)[i] = s[i]
<1> DEFINE X == R!Range(s) \cup {w}
           u == Append(s, w)
<1>1. s \in Seq(X) /\ w \in X
  <2>1. \A Z, T : Z \subseteq T => Seq(Z) \subseteq Seq(T)
    OBVIOUS
  <2> QED
    BY <2>1
<1> HIDE DEF X
<1>2. u \in Seq(X) /\ Len(u) = Len(s) + 1 /\ \A i \in 1..Len(s) : u[i] = s[i]
  BY <1>1
<1>3. DOMAIN s = 1..Len(s) /\ DOMAIN u = 1..Len(u) /\ Len(s) \in Nat
  BY <1>1, <1>2
<1> HIDE DEF u
<1>4. R!Range(s) \subseteq R!Range(u)
  BY <1>2, <1>3 DEF R!Range
<1>5. u \in Seq(R!Range(u))
  <2>1. u \in [1..Len(u) -> X] /\ Len(u) \in Nat
    BY <1>2
  <2>2. u \in [1..Len(u) -> R!Range(u)]
    BY <2>1, <1>3 DEF R!Range
  <2> QED
    BY <2>1, <2>2
<1> QED
  BY <1>2, <1>4, <1>5 DEF u

(* What two texts in a row hold.                                           *)
LEMMA RangeOfConcat ==
  ASSUME NEW s, s \in Seq(R!Range(s)), NEW t, t \in Seq(R!Range(t))
  PROVE  /\ R!Range(s \o t) = R!Range(s) \cup R!Range(t)
         /\ DOMAIN (s \o t) = 1..Len(s \o t) /\ Len(s \o t) \in Nat
         /\ s \o t \in Seq(R!Range(s \o t))
<1> DEFINE X == R!Range(s) \cup R!Range(t)
           u == s \o t
<1>1. s \in Seq(X) /\ t \in Seq(X)
  <2>1. \A Z, T : Z \subseteq T => Seq(Z) \subseteq Seq(T)
    OBVIOUS
  <2> QED
    BY <2>1
<1>2. /\ DOMAIN s = 1..Len(s) /\ DOMAIN t = 1..Len(t) /\ Len(s) \in Nat /\ Len(t) \in Nat
      /\ u \in Seq(X) /\ Len(u) = Len(s) + Len(t) /\ DOMAIN u = 1..Len(u)
      /\ \A i \in 1..Len(s) : u[i] = s[i]
      /\ \A i \in 1..Len(t) : u[Len(s) + i] = t[i]
  <2> HIDE DEF X
  <2> QED
    BY <1>1
<1> HIDE DEF u
<1>3. R!Range(u) \subseteq X
  <2> SUFFICES ASSUME NEW i \in DOMAIN u PROVE u[i] \in X
    BY DEF R!Range
  <2>1. u \in [1..Len(u) -> X]
    BY <1>2
  <2> QED
    BY <2>1, <1>2
<1>4. R!Range(s) \subseteq R!Range(u)
  BY <1>2 DEF R!Range
<1>5. R!Range(t) \subseteq R!Range(u)
  <2> SUFFICES ASSUME NEW i \in DOMAIN t PROVE t[i] \in R!Range(u)
    BY DEF R!Range
  <2>1. Len(s) + i \in DOMAIN u /\ u[Len(s) + i] = t[i]
    BY <1>2
  <2> QED
    BY <2>1 DEF R!Range
<1>6. R!Range(u) = X
  BY <1>3, <1>4, <1>5
<1> QED
  BY <1>2, <1>6 DEF u

(* The text of a schema: the names and the defaults of its properties.     *)
LEMMA TextOfSchema ==
  ASSUME NEW s, s.props \in Seq(R!Range(s.props))
  PROVE  /\ R!SchemaText(s) \in Seq(R!Range(R!SchemaText(s)))
         /\ \A w : w \in R!Range(R!SchemaText(s)) <=>
              \E p \in R!Props(s) : w = p.name \/ w = p.default
<1> DEFINE n == Len(s.props)
           text == R!SchemaText(s)
           word(i) == IF i % 2 = 1 THEN s.props[(i + 1) \div 2].name ELSE s.props[(i + 1) \div 2].default
<1>1. n \in Nat /\ DOMAIN s.props = 1..n
  OBVIOUS
<1>2. text = [i \in 1..(2 * n) |-> word(i)]
  BY DEF R!SchemaText
<1> HIDE DEF text
<1>3. DOMAIN text = 1..(2 * n) /\ 2 * n \in Nat
  BY <1>1, <1>2
<1>4. text \in Seq(R!Range(text))
  <2>1. text \in [1..(2 * n) -> R!Range(text)]
    <3> HIDE DEF word
    <3> QED
      BY <1>2, <1>3 DEF R!Range
  <2> QED
    BY <2>1, <1>3
<1>5. ASSUME NEW p \in R!Props(s)
      PROVE  p.name \in R!Range(text) /\ p.default \in R!Range(text)
  <2>1. PICK k \in 1..n : s.props[k] = p
    BY <1>1 DEF R!Props, R!Range
  <2>2. /\ 2 * k - 1 \in DOMAIN text /\ (2 * k - 1) % 2 = 1 /\ ((2 * k - 1) + 1) \div 2 = k
        /\ 2 * k \in DOMAIN text /\ (2 * k) % 2 # 1 /\ (2 * k + 1) \div 2 = k
    BY <1>1, <1>3
  <2>3. text[2 * k - 1] = p.name /\ text[2 * k] = p.default
    BY <1>2, <1>3, <2>1, <2>2
  <2> QED
    BY <2>2, <2>3 DEF R!Range
<1>6. ASSUME NEW w \in R!Range(text)
      PROVE  \E p \in R!Props(s) : w = p.name \/ w = p.default
  <2>1. PICK i \in 1..(2 * n) : text[i] = w
    BY <1>3 DEF R!Range
  <2>2. (i + 1) \div 2 \in 1..n
    BY <1>1
  <2>3. s.props[(i + 1) \div 2] \in R!Props(s)
    BY <1>1, <2>2 DEF R!Props, R!Range
  <2> QED
    BY <1>2, <2>1, <2>3
<1> QED
  BY <1>4, <1>5, <1>6 DEF text

-----------------------------------------------------------------------------
(* What is known of the tool: it is one that a server can offer, and the   *)
(* report is that of its last scan.                                        *)
RulesInv ==
  /\ R!IsTool(tool)
  /\ report = R!Scan(tool, floor)

(* What a server's additions leave of a tool: its name and what its schema *)
(* asks, and whatever its texts held and the properties it had.            *)
Grown(t, u) ==
  /\ u.name = t.name
  /\ R!Range(t.description) \subseteq R!Range(u.description)
  /\ R!Range(t.input.props) \subseteq R!Range(u.input.props)
  /\ u.input.open = t.input.open /\ u.input.required = t.input.required
  /\ u.output.props = t.output.props

(* A step keeps it, and adds to the tool without taking anything from it.  *)
LEMMA RulesStep ==
  ASSUME RulesInv, [R!Next]_(R!vars)
  PROVE  RulesInv' /\ Grown(tool, tool') /\ floor' = floor
<1>1. R!IsTool(tool)
  BY DEF RulesInv
<1>0. PICK a, b, c, d : tool = [name |-> a, description |-> b, input |-> c, output |-> d]
  BY <1>1 DEF R!IsTool
<1>2. ASSUME NEW s, R!IsSchema(s), NEW p
      PROVE  /\ R!IsSchema([s EXCEPT !.props = Append(@, p)])
             /\ R!Range(s.props) \subseteq R!Range([s EXCEPT !.props = Append(@, p)].props)
             /\ [s EXCEPT !.props = Append(@, p)].open = s.open
             /\ [s EXCEPT !.props = Append(@, p)].required = s.required
  <2> DEFINE u == [s EXCEPT !.props = Append(@, p)]
  <2>0. PICK k, l, m, n : s = [open |-> k, required |-> l, endless |-> m, props |-> n]
    BY <1>2 DEF R!IsSchema
  <2>1. /\ u = [open |-> s.open, required |-> s.required, endless |-> s.endless,
                props |-> Append(s.props, p)]
        /\ s.props \in Seq(R!Range(s.props))
    <3>1. u = [open |-> k, required |-> l, endless |-> m, props |-> Append(n, p)]
      BY <2>0
    <3> HIDE DEF u
    <3> QED
      BY <1>2, <2>0, <3>1 DEF R!IsSchema
  <2> HIDE DEF u
  <2>2. /\ u.open = s.open /\ u.required = s.required /\ u.endless = s.endless
        /\ u.props = Append(s.props, p)
    BY <2>1
  <2>3. u.props \in Seq(R!Range(u.props)) /\ R!Range(s.props) \subseteq R!Range(u.props)
    BY <2>1, <2>2, RangeOfAppend
  <2>4. R!IsSchema(u)
    BY <2>1, <2>2, <2>3 DEF R!IsSchema
  <2> QED
    BY <2>2, <2>3, <2>4 DEF u
<1>3. ASSUME NEW s, R!IsSchema(s), NEW y
      PROVE  /\ R!IsSchema([s EXCEPT !.endless = y])
             /\ [s EXCEPT !.endless = y].props = s.props
             /\ [s EXCEPT !.endless = y].open = s.open
             /\ [s EXCEPT !.endless = y].required = s.required
  <2> DEFINE u == [s EXCEPT !.endless = y]
  <2>0. PICK k, l, m, n : s = [open |-> k, required |-> l, endless |-> m, props |-> n]
    BY <1>3 DEF R!IsSchema
  <2>1. /\ u = [open |-> s.open, required |-> s.required, endless |-> y, props |-> s.props]
        /\ s.props \in Seq(R!Range(s.props))
    <3>1. u = [open |-> k, required |-> l, endless |-> y, props |-> n]
      BY <2>0
    <3> HIDE DEF u
    <3> QED
      BY <1>3, <2>0, <3>1 DEF R!IsSchema
  <2> HIDE DEF u
  <2>2. /\ u.open = s.open /\ u.required = s.required /\ u.endless = y
        /\ u.props = s.props
    BY <2>1
  <2>3. R!IsSchema(u)
    BY <2>1, <2>2 DEF R!IsSchema
  <2> QED
    BY <2>2, <2>3 DEF u
<1>4. ASSUME NEW u, R!Become(u), R!IsTool(u), Grown(tool, u)
      PROVE  RulesInv' /\ Grown(tool, tool') /\ floor' = floor
  BY <1>4 DEF R!Become, RulesInv
<1>5. ASSUME NEW text, NEW i, NEW o
      PROVE  LET u == [name |-> tool.name, description |-> text, input |-> i, output |-> o]
             IN /\ u.name = tool.name /\ u.description = text /\ u.input = i /\ u.output = o
                /\ R!IsText(text) /\ R!IsSchema(i) /\ R!IsSchema(o) => R!IsTool(u)
  BY <1>1 DEF R!IsTool
<1>6. CASE \E w \in Words : R!Describe(w)
  <2>1. PICK w \in Words : R!Describe(w)
    BY <1>6
  <2> DEFINE u == [name |-> tool.name, description |-> Append(tool.description, w),
                   input |-> tool.input, output |-> tool.output]
  <2>2. u = [tool EXCEPT !.description = Append(@, w)]
    <3> DEFINE more == Append(tool.description, w)
    <3> HIDE DEF more
    <3>1. tool.name = a /\ tool.input = c /\ tool.output = d
      BY <1>0
    <3>2. [tool EXCEPT !.description = more] =
            [name |-> a, description |-> more, input |-> c, output |-> d]
      BY <1>0
    <3> QED
      BY <3>1, <3>2 DEF more
  <2>3. R!IsText(u.description) /\ R!Range(tool.description) \subseteq R!Range(u.description)
    <3>1. u.description = Append(tool.description, w)
      OBVIOUS
    <3>2. tool.description \in Seq(R!Range(tool.description))
      BY <1>1 DEF R!IsTool, R!IsText
    <3> HIDE DEF u
    <3> QED
      BY <3>1, <3>2, RangeOfAppend DEF R!IsText
  <2>4. R!IsTool(u)
    BY <1>1, <1>5, <2>3 DEF R!IsTool
  <2>5. Grown(tool, u)
    BY <2>3 DEF Grown
  <2>6. R!Become(u)
    BY <2>1, <2>2 DEF R!Describe
  <2> HIDE DEF u
  <2> QED
    BY <1>4, <2>4, <2>5, <2>6
<1>7. CASE \E p \in Properties : R!AddProperty(p)
  <2>1. PICK p \in Properties : R!AddProperty(p)
    BY <1>7
  <2> DEFINE i == [tool.input EXCEPT !.props = Append(@, p)]
             u == [name |-> tool.name, description |-> tool.description,
                   input |-> i, output |-> tool.output]
  <2>2. u = [tool EXCEPT !.input.props = Append(@, p)]
    BY <1>0
  <2>3. /\ R!IsSchema(i) /\ R!Range(tool.input.props) \subseteq R!Range(i.props)
        /\ i.open = tool.input.open /\ i.required = tool.input.required
    BY <1>1, <1>2 DEF R!IsTool
  <2>6. R!Become(u)
    BY <2>1, <2>2 DEF R!AddProperty
  <2> HIDE DEF i
  <2>4. R!IsTool(u)
    BY <1>1, <1>5, <2>3 DEF R!IsTool
  <2>5. Grown(tool, u)
    BY <2>3 DEF Grown
  <2> HIDE DEF u
  <2> QED
    BY <1>4, <2>4, <2>5, <2>6
<1>8. CASE \E side \in {"input", "output"} : R!Deepen(side)
  <2>1. CASE R!Deepen("input")
    <3> DEFINE i == [tool.input EXCEPT !.endless = TRUE]
               u == [name |-> tool.name, description |-> tool.description,
                     input |-> i, output |-> tool.output]
    <3>1. \A y : [tool EXCEPT !["input"].endless = y] =
                  [name |-> tool.name, description |-> tool.description,
                   input |-> [tool.input EXCEPT !.endless = y], output |-> tool.output]
      BY <1>0
    <3>2. u = [tool EXCEPT !["input"].endless = TRUE]
      BY <3>1, Zenon
    <3>3. /\ R!IsSchema(i) /\ i.props = tool.input.props
          /\ i.open = tool.input.open /\ i.required = tool.input.required
      BY <1>1, <1>3 DEF R!IsTool
    <3>6. R!Become(u)
      BY <2>1, <3>2 DEF R!Deepen
    <3> HIDE DEF i
    <3>4. R!IsTool(u)
      BY <1>1, <1>5, <3>3 DEF R!IsTool
    <3>5. Grown(tool, u)
      BY <3>3 DEF Grown
    <3> HIDE DEF u
    <3> QED
      BY <1>4, <3>4, <3>5, <3>6
  <2>2. CASE R!Deepen("output")
    <3> DEFINE o == [tool.output EXCEPT !.endless = TRUE]
               u == [name |-> tool.name, description |-> tool.description,
                     input |-> tool.input, output |-> o]
    <3>1. \A y : [tool EXCEPT !["output"].endless = y] =
                  [name |-> tool.name, description |-> tool.description,
                   input |-> tool.input, output |-> [tool.output EXCEPT !.endless = y]]
      BY <1>0
    <3>2. u = [tool EXCEPT !["output"].endless = TRUE]
      BY <3>1, Zenon
    <3>3. R!IsSchema(o) /\ o.props = tool.output.props
      BY <1>1, <1>3 DEF R!IsTool
    <3>6. R!Become(u)
      BY <2>2, <3>2 DEF R!Deepen
    <3> HIDE DEF o
    <3>4. R!IsTool(u)
      BY <1>1, <1>5, <3>3 DEF R!IsTool
    <3>5. Grown(tool, u)
      BY <3>3 DEF Grown
    <3> HIDE DEF u
    <3> QED
      BY <1>4, <3>4, <3>5, <3>6
  <2> QED
    BY <1>8, <2>1, <2>2
<1>9. CASE UNCHANGED R!vars
  BY <1>9 DEF R!vars, RulesInv, Grown
<1> QED
  BY <1>6, <1>7, <1>8, <1>9 DEF R!Next

(* So it holds of every tool, whatever is added to it.                     *)
LEMMA RulesIsInv == R!Spec => []RulesInv
<1>1. R!Init => RulesInv
  BY PartsAssumption DEF R!Init, R!RulesAssumption, RulesInv
<1>2. RulesInv /\ [R!Next]_(R!vars) => RulesInv'
  BY RulesStep
<1> QED
  BY <1>1, <1>2, PTL DEF R!Spec

(* What the texts of a tool hold, they hold of one that has grown from it. *)
LEMMA WordsStay ==
  ASSUME NEW t, R!IsTool(t), NEW u, R!IsTool(u), Grown(t, u)
  PROVE  /\ R!Range(R!SchemaText(t.input)) \subseteq R!Range(R!SchemaText(u.input))
         /\ R!SchemaText(t.output) = R!SchemaText(u.output)
         /\ R!Range(R!Says(t)) \subseteq R!Range(R!Says(u))
         /\ R!Range(t.name \o R!Says(t)) \subseteq R!Range(u.name \o R!Says(u))
         /\ DOMAIN R!Says(u) = 1..Len(R!Says(u)) /\ Len(R!Says(u)) \in Nat
<1>1. /\ t.input.props \in Seq(R!Range(t.input.props)) /\ u.input.props \in Seq(R!Range(u.input.props))
      /\ t.description \in Seq(R!Range(t.description)) /\ u.description \in Seq(R!Range(u.description))
      /\ t.name \in Seq(R!Range(t.name)) /\ u.name \in Seq(R!Range(u.name))
  BY DEF R!IsTool, R!IsSchema, R!IsText
<1>2. R!Range(R!SchemaText(t.input)) \subseteq R!Range(R!SchemaText(u.input))
  <2>1. R!Props(t.input) \subseteq R!Props(u.input)
    BY DEF Grown, R!Props
  <2>2. \A w \in R!Range(R!SchemaText(t.input)) :
          \E p \in R!Props(t.input) : w = p.name \/ w = p.default
    BY <1>1, TextOfSchema
  <2>3. \A w : (\E p \in R!Props(u.input) : w = p.name \/ w = p.default) =>
              w \in R!Range(R!SchemaText(u.input))
    BY <1>1, TextOfSchema
  <2> QED
    BY <2>1, <2>2, <2>3
<1>3. R!SchemaText(t.output) = R!SchemaText(u.output)
  BY DEF Grown, R!SchemaText
<1>4. /\ R!SchemaText(t.input) \in Seq(R!Range(R!SchemaText(t.input)))
      /\ R!SchemaText(u.input) \in Seq(R!Range(R!SchemaText(u.input)))
  BY <1>1, TextOfSchema
<1>5. /\ R!Range(R!Says(t)) = R!Range(t.description) \cup R!Range(R!SchemaText(t.input))
      /\ R!Range(R!Says(u)) = R!Range(u.description) \cup R!Range(R!SchemaText(u.input))
      /\ R!Says(t) \in Seq(R!Range(R!Says(t))) /\ R!Says(u) \in Seq(R!Range(R!Says(u)))
      /\ DOMAIN R!Says(u) = 1..Len(R!Says(u)) /\ Len(R!Says(u)) \in Nat
  BY <1>1, <1>4, RangeOfConcat DEF R!Says
<1>6. R!Range(R!Says(t)) \subseteq R!Range(R!Says(u))
  BY <1>2, <1>5 DEF Grown
<1>7. /\ R!Range(t.name \o R!Says(t)) = R!Range(t.name) \cup R!Range(R!Says(t))
      /\ R!Range(u.name \o R!Says(u)) = R!Range(u.name) \cup R!Range(R!Says(u))
  BY <1>1, <1>5, RangeOfConcat
<1>8. R!Range(t.name \o R!Says(t)) \subseteq R!Range(u.name \o R!Says(u))
  BY <1>6, <1>7 DEF Grown
<1> QED
  BY <1>2, <1>3, <1>5, <1>6, <1>8

(* A finding is made again, of the same rule and no less severe.           *)
Levels == {"low", "medium", "high", "critical"}
Again(f, found_) ==
  /\ f.severity \in Levels
  /\ \E g \in found_ : g.rule = f.rule /\ g.what = f.what /\ g.severity = f.severity

(* The parts of a finding.                                                 *)
LEMMA PartsOfFinding ==
  \A rule, severity, what, where :
    /\ R!Found(rule, severity, what, where).rule = rule
    /\ R!Found(rule, severity, what, where).severity = severity
    /\ R!Found(rule, severity, what, where).what = what
BY DEF R!Found

(* A word that a pattern matches is matched wherever it is found.          *)
LEMMA MatchedAgain ==
  ASSUME NEW text, NEW words, NEW i \in R!At(text, words)
  PROVE  /\ text[i] \in words
         /\ \A later : R!Range(text) \subseteq R!Range(later) =>
              \E j \in R!At(later, words) : later[j] = text[i]
BY WordsOfText

(* R101 to R104.                                                           *)
LEMMA TextsFoundAgain ==
  ASSUME NEW t, R!IsTool(t), NEW u, R!IsTool(u), Grown(t, u)
  PROVE  /\ \A f \in R!ZeroWidth(t) : Again(f, R!ZeroWidth(u))
         /\ \A f \in R!PromptInjection(t) : Again(f, R!PromptInjection(u))
         /\ \A f \in R!EncodedBlob(t) : Again(f, R!EncodedBlob(u))
         /\ \A f \in R!HiddenContent(t) : Again(f, R!HiddenContent(u))
<1>1. \A f \in R!ZeroWidth(t) : Again(f, R!ZeroWidth(u))
  <2> DEFINE fields(v) == [name |-> v.name, description |-> v.description,
                           input |-> R!SchemaText(v.input), output |-> R!SchemaText(v.output)]
             names == {"name", "description", "input", "output"}
             places(v, k) == R!At(fields(v)[k], R!ZERO_WIDTH_CHARS)
             it(k, i) == R!Found("R101", IF k = "name" THEN "critical" ELSE "high", "zero", <<k, i>>)
  <2>0. \A v : R!ZeroWidth(v) = UNION {{it(k, i) : i \in places(v, k)} : k \in DOMAIN fields(v)}
    BY DEF R!ZeroWidth
  <2>1. \A v : R!ZeroWidth(v) = UNION {{it(k, i) : i \in places(v, k)} : k \in names}
    <3>1. \A v : DOMAIN fields(v) = names
      OBVIOUS
    <3> HIDE DEF fields, names, places, it
    <3> QED
      BY <2>0, <3>1
  <2>2. \A k \in names : R!Range(fields(t)[k]) \subseteq R!Range(fields(u)[k])
    <3>1. /\ R!Range(t.name) \subseteq R!Range(u.name)
          /\ R!Range(t.description) \subseteq R!Range(u.description)
          /\ R!Range(R!SchemaText(t.input)) \subseteq R!Range(R!SchemaText(u.input))
          /\ R!Range(R!SchemaText(t.output)) \subseteq R!Range(R!SchemaText(u.output))
      BY WordsStay DEF Grown
    <3>2. \A v : /\ fields(v)["name"] = v.name /\ fields(v)["description"] = v.description
                 /\ fields(v)["input"] = R!SchemaText(v.input)
                 /\ fields(v)["output"] = R!SchemaText(v.output)
      OBVIOUS
    <3> HIDE DEF fields
    <3> QED
      BY <3>1, <3>2
  <2> HIDE DEF fields
  <2>3. \A k \in names : places(t, k) # {} => places(u, k) # {}
    BY <2>2, WordsOfText
  <2>4. \A k, i : /\ it(k, i).rule = "R101" /\ it(k, i).what = "zero"
                  /\ it(k, i).severity = IF k = "name" THEN "critical" ELSE "high"
    BY PartsOfFinding
  <2> HIDE DEF it, places, names
  <2> TAKE f \in R!ZeroWidth(t)
  <2>5. PICK k \in names : \E i \in places(t, k) : f = it(k, i)
    BY <2>1
  <2>6. PICK j : j \in places(u, k)
    BY <2>3, <2>5
  <2>7. it(k, j) \in R!ZeroWidth(u)
    BY <2>1, <2>5, <2>6
  <2> QED
    BY <2>4, <2>5, <2>7 DEF Again, Levels
<1>2. \A f \in R!PromptInjection(t) : Again(f, R!PromptInjection(u))
  <2> DEFINE text(v) == v.name \o R!Says(v)
             words == DOMAIN R!PROMPT_INJECTION_PATTERNS
             it(v, i) == R!Found("R102", R!PROMPT_INJECTION_PATTERNS[text(v)[i]], text(v)[i], <<"text", i>>)
  <2>1. \A v : R!PromptInjection(v) = {it(v, i) : i \in R!At(text(v), words)}
    BY DEF R!PromptInjection
  <2>2. R!Range(text(t)) \subseteq R!Range(text(u))
    BY WordsStay
  <2> HIDE DEF text
  <2>3. \A v, i : /\ it(v, i).rule = "R102" /\ it(v, i).what = text(v)[i]
                  /\ it(v, i).severity = R!PROMPT_INJECTION_PATTERNS[text(v)[i]]
    BY PartsOfFinding
  <2>4. \A w \in words : R!PROMPT_INJECTION_PATTERNS[w] \in Levels
    BY DEF R!PROMPT_INJECTION_PATTERNS, Levels
  <2> HIDE DEF words, it
  <2> TAKE f \in R!PromptInjection(t)
  <2>5. PICK i \in R!At(text(t), words) : f = it(t, i)
    BY <2>1
  <2>6. text(t)[i] \in words
    BY MatchedAgain
  <2>7. \E j \in R!At(text(u), words) : text(u)[j] = text(t)[i]
    BY <2>2, MatchedAgain
  <2> QED
    BY <2>1, <2>3, <2>4, <2>5, <2>6, <2>7 DEF Again
<1>3. \A f \in R!EncodedBlob(t) : Again(f, R!EncodedBlob(u))
  <2> DEFINE text(v) == v.description
             words == DOMAIN R!ENCODED
             it(v, i) == R!Found("R103", R!ENCODED[text(v)[i]], text(v)[i], <<"description", i>>)
  <2>1. \A v : R!EncodedBlob(v) = {it(v, i) : i \in R!At(text(v), words)}
    BY DEF R!EncodedBlob
  <2>2. R!Range(text(t)) \subseteq R!Range(text(u))
    BY DEF Grown
  <2>3. \A v, i : /\ it(v, i).rule = "R103" /\ it(v, i).what = text(v)[i]
                  /\ it(v, i).severity = R!ENCODED[text(v)[i]]
    BY PartsOfFinding
  <2>4. \A w \in words : R!ENCODED[w] \in Levels
    BY DEF R!ENCODED, Levels
  <2> HIDE DEF text, words, it
  <2> TAKE f \in R!EncodedBlob(t)
  <2>5. PICK i \in R!At(text(t), words) : f = it(t, i)
    BY <2>1
  <2>6. text(t)[i] \in words
    BY MatchedAgain
  <2>7. \E j \in R!At(text(u), words) : text(u)[j] = text(t)[i]
    BY <2>2, MatchedAgain
  <2> QED
    BY <2>1, <2>3, <2>4, <2>5, <2>6, <2>7 DEF Again
<1>4. \A f \in R!HiddenContent(t) : Again(f, R!HiddenContent(u))
  <2> DEFINE text(v) == R!Says(v)
             it(v, i) == R!Found("R104", "high", text(v)[i], <<"text", i>>)
  <2>1. \A v : R!HiddenContent(v) = {it(v, i) : i \in R!At(text(v), R!HIDDEN)}
    BY DEF R!HiddenContent
  <2>2. R!Range(text(t)) \subseteq R!Range(text(u))
    BY WordsStay
  <2>3. \A v, i : /\ it(v, i).rule = "R104" /\ it(v, i).what = text(v)[i]
                  /\ it(v, i).severity = "high"
    BY PartsOfFinding
  <2> HIDE DEF text, it
  <2> TAKE f \in R!HiddenContent(t)
  <2>5. PICK i \in R!At(text(t), R!HIDDEN) : f = it(t, i)
    BY <2>1
  <2>6. \E j \in R!At(text(u), R!HIDDEN) : text(u)[j] = text(t)[i]
    BY <2>2, MatchedAgain
  <2> QED
    BY <2>1, <2>3, <2>5, <2>6 DEF Again, Levels
<1> QED
  BY <1>1, <1>2, <1>3, <1>4

(* R105: a description that has told of one scope goes on telling of it.   *)
LEMMA ScopeFoundAgain ==
  ASSUME NEW t, R!IsTool(t), NEW u, R!IsTool(u), Grown(t, u)
  PROVE  \A f \in R!PermissionScope(t) :
           f.rule = "R105" /\ (R!IsBridge(u) \/ Again(f, R!PermissionScope(u)))
<1> DEFINE scopes(v) ==
             {j \in DOMAIN R!SCOPE_PAIRS : /\ R!At(v.name, R!SCOPE_PAIRS[j][1]) # {}
                                           /\ R!At(v.description, R!SCOPE_PAIRS[j][2]) # {}}
           it(s) == R!Found("R105", "medium", s, <<"name", 0>>)
<1>1. \A v : R!PermissionScope(v) = IF R!IsBridge(v) THEN {} ELSE {it(s) : s \in scopes(v)}
  BY DEF R!PermissionScope
<1>2. \A words : R!At(t.description, words) # {} => R!At(u.description, words) # {}
  BY WordsOfText DEF Grown
<1>3. scopes(t) \subseteq scopes(u)
  BY <1>2 DEF Grown
<1>4. \A s : it(s).rule = "R105" /\ it(s).what = s /\ it(s).severity = "medium"
  BY PartsOfFinding
<1> HIDE DEF scopes, it
<1> TAKE f \in R!PermissionScope(t)
<1>5. PICK s \in scopes(t) : f = it(s)
  BY <1>1
<1>6. CASE ~R!IsBridge(u)
  <2>1. f \in R!PermissionScope(u)
    BY <1>1, <1>3, <1>5, <1>6
  <2> QED
    BY <1>4, <1>5, <2>1 DEF Again, Levels
<1> QED
  BY <1>4, <1>5, <1>6

(* R106: a secret that was in one of the texts is in one of them.          *)
LEMMA SecretsFoundAgain ==
  ASSUME NEW t, R!IsTool(t), NEW u, R!IsTool(u), Grown(t, u)
  PROVE  \A f \in R!SecretExposure(t) : Again(f, R!SecretExposure(u))
<1> DEFINE texts(v) == R!SecretTexts(v)
           four(v) == <<v.name, v.description, R!SchemaText(v.input), R!SchemaText(v.output)>>
           within(v, w) == {i \in DOMAIN texts(v) : w \in R!Range(texts(v)[i])}
           secrets(v) == {w \in R!SECRET_PATTERNS \cup R!HIGH_ENTROPY : within(v, w) # {}}
           it(v, w) == R!Found("R106", IF w \in R!SECRET_PATTERNS THEN "critical" ELSE "high", w,
                               <<"text", CHOOSE i \in within(v, w) : \A j \in within(v, w) : i <= j>>)
<1>1. \A v : R!SecretExposure(v) = {it(v, w) : w \in secrets(v)}
  BY DEF R!SecretExposure
<1>2. ASSUME NEW v, R!IsTool(v), NEW w
      PROVE  within(v, w) # {} <=> \E i \in 1..4 : w \in R!Range(four(v)[i])
  <2> DEFINE defaults == [i \in DOMAIN v.input.props |-> <<v.input.props[i].default>>]
             n == Len(v.input.props)
  <2>1. v.input.props \in Seq(R!Range(v.input.props)) /\ n \in Nat /\ DOMAIN v.input.props = 1..n
    BY <1>2 DEF R!IsTool, R!IsSchema
  <2>2. texts(v) = four(v) \o defaults
    BY DEF R!SecretTexts
  <2> DEFINE X == {four(v)[i] : i \in 1..4} \cup {defaults[i] : i \in 1..n}
  <2>3. four(v) \in Seq(X) /\ Len(four(v)) = 4 /\ defaults \in Seq(X) /\ Len(defaults) = n
    <3>1. four(v) \in [1..4 -> X] /\ Len(four(v)) = 4
      <4> DEFINE Y == {four(v)[i] : i \in 1..4}
      <4>1. v.name \in Y /\ v.description \in Y /\ R!SchemaText(v.input) \in Y /\ R!SchemaText(v.output) \in Y
        <5>1. /\ four(v)[1] = v.name /\ four(v)[2] = v.description
              /\ four(v)[3] = R!SchemaText(v.input) /\ four(v)[4] = R!SchemaText(v.output)
          OBVIOUS
        <5> HIDE DEF four
        <5> QED
          BY <5>1
      <4> HIDE DEF Y
      <4>2. four(v) \in [1..4 -> Y] /\ Len(four(v)) = 4
        BY <4>1
      <4> HIDE DEF four, defaults
      <4> QED
        BY <4>2 DEF Y
    <3>2. defaults \in [1..n -> X]
      <4>1. DOMAIN defaults = 1..n /\ defaults = [i \in 1..n |-> defaults[i]]
        BY <2>1
      <4> HIDE DEF four, defaults, n
      <4> QED
        BY <4>1
    <3>3. \A k \in Nat : \A g \in [1..k -> X] : g \in Seq(X) /\ Len(g) = k
      <4> HIDE DEF X
      <4> QED
        OBVIOUS
    <3> HIDE DEF four, defaults, X, n
    <3>4. four(v) \in Seq(X)
      BY <3>1, <3>3
    <3>5. defaults \in Seq(X) /\ Len(defaults) = n
      BY <2>1, <3>2, <3>3
    <3> QED
      BY <3>1, <3>4, <3>5
  <2> HIDE DEF four, defaults, X
  <2>4. /\ DOMAIN texts(v) = 1..(4 + n)
        /\ \A i \in 1..4 : texts(v)[i] = four(v)[i]
        /\ \A i \in 1..n : texts(v)[4 + i] = defaults[i]
    <3> DEFINE a == four(v)
    <3>1. /\ a \o defaults \in Seq(X) /\ Len(a \o defaults) = Len(a) + Len(defaults)
          /\ \A i \in 1..Len(a) : (a \o defaults)[i] = a[i]
          /\ \A i \in 1..Len(defaults) : (a \o defaults)[Len(a) + i] = defaults[i]
      <4>1. a \in Seq(X) /\ defaults \in Seq(X)
        BY <2>3
      <4> HIDE DEF a
      <4> QED
        BY <4>1
    <3>2. DOMAIN (a \o defaults) = 1..(4 + n)
      BY <2>3, <3>1
    <3> HIDE DEF texts, n
    <3> QED
      BY <2>2, <2>3, <3>1, <3>2
  <2>5. ASSUME NEW i \in 1..n, w \in R!Range(defaults[i])
        PROVE  w \in R!Range(four(v)[3])
    <3>1. defaults[i] = <<v.input.props[i].default>>
      BY <2>1 DEF defaults
    <3>2. w = v.input.props[i].default
      BY <2>5, <3>1 DEF R!Range
    <3>3. v.input.props[i] \in R!Props(v.input)
      BY <2>1 DEF R!Props, R!Range
    <3>4. w \in R!Range(R!SchemaText(v.input))
      BY <2>1, <3>2, <3>3, TextOfSchema
    <3>5. four(v)[3] = R!SchemaText(v.input)
      BY DEF four
    <3> QED
      BY <3>4, <3>5
  <2> HIDE DEF n, texts
  <2>6. ASSUME NEW i \in within(v, w) PROVE \E k \in 1..4 : w \in R!Range(four(v)[k])
    <3>1. CASE i \in 1..4
      BY <2>4, <2>6, <3>1
    <3>2. CASE i \notin 1..4
      <4>1. PICK k \in 1..n : i = 4 + k
        <5>1. i - 4 \in 1..n /\ i = 4 + (i - 4)
          BY <2>1, <2>4, <2>6, <3>2
        <5> QED
          BY <5>1
      <4>2. w \in R!Range(defaults[k])
        BY <2>4, <2>6, <4>1
      <4> QED
        BY <2>5, <4>2
    <3> QED
      BY <3>1, <3>2
  <2>7. ASSUME NEW k \in 1..4, w \in R!Range(four(v)[k]) PROVE k \in within(v, w)
    BY <2>1, <2>4, <2>7
  <2> QED
    BY <2>6, <2>7
<1> HIDE DEF within
<1>3. \A k \in 1..4 : R!Range(four(t)[k]) \subseteq R!Range(four(u)[k])
  <2>1. /\ R!Range(t.name) \subseteq R!Range(u.name)
        /\ R!Range(t.description) \subseteq R!Range(u.description)
        /\ R!Range(R!SchemaText(t.input)) \subseteq R!Range(R!SchemaText(u.input))
        /\ R!Range(R!SchemaText(t.output)) \subseteq R!Range(R!SchemaText(u.output))
    BY WordsStay DEF Grown
  <2>2. \A v : /\ four(v)[1] = v.name /\ four(v)[2] = v.description
               /\ four(v)[3] = R!SchemaText(v.input) /\ four(v)[4] = R!SchemaText(v.output)
    OBVIOUS
  <2> HIDE DEF four
  <2>3. \A k \in 1..4 : k = 1 \/ k = 2 \/ k = 3 \/ k = 4
    OBVIOUS
  <2> QED
    BY <2>1, <2>2, <2>3
<1>4. \A w : within(t, w) # {} => within(u, w) # {}
  BY <1>2, <1>3
<1>5. secrets(t) \subseteq secrets(u)
  BY <1>4
<1> HIDE DEF secrets
<1>6. \A v, w : /\ it(v, w).rule = "R106" /\ it(v, w).what = w
                /\ it(v, w).severity = IF w \in R!SECRET_PATTERNS THEN "critical" ELSE "high"
  BY PartsOfFinding
<1> HIDE DEF it
<1> TAKE f \in R!SecretExposure(t)
<1>7. PICK w \in secrets(t) : f = it(t, w)
  BY <1>1
<1>8. it(u, w) \in R!SecretExposure(u)
  BY <1>1, <1>5
<1> QED
  BY <1>6, <1>7, <1>8 DEF Again, Levels

(* R107, R109 and R114 look at the properties, which stay as they are.     *)
LEMMA PropertiesFoundAgain ==
  ASSUME NEW t, R!IsTool(t), NEW u, R!IsTool(u), Grown(t, u)
  PROVE  /\ \A f \in R!CommandInjection(t) : Again(f, R!CommandInjection(u))
         /\ \A f \in R!SchemaPoisoning(t) : Again(f, R!SchemaPoisoning(u))
         /\ \A f \in R!UnboundedInput(t) : Again(f, R!UnboundedInput(u))
         /\ \A f \in R!DangerousName(t) : Again(f, R!DangerousName(u))
<1>1. R!Props(t.input) \subseteq R!Props(u.input) /\ R!Props(t.output) = R!Props(u.output)
  BY DEF Grown, R!Props
<1>2. \A f, Z : f \in Z /\ f.severity \in Levels => Again(f, Z)
  BY DEF Again
<1>3. \A f \in R!CommandInjection(t) : Again(f, R!CommandInjection(u))
  <2> DEFINE critical(p, w) == R!Found("R107", "critical", w, <<p.name, 0>>)
             high(p, x) == R!Found("R107", "high", x, <<p.name, 0>>)
             output(p) == R!Found("R107", "critical", "output", <<p.name, 0>>)
             defaults(p) == {p.default} \cap (R!SHELL_METACHAR \cup R!DANGEROUS_DEFAULT)
             traits(p) == p.traits \cap {"broad", "command"}
             outputs(v) == {p \in R!Props(v.output) : p.default \in R!SHELL_METACHAR}
  <2>1. \A v : R!CommandInjection(v) =
          (UNION {{critical(p, w) : w \in defaults(p)} \cup {high(p, x) : x \in traits(p)} :
                   p \in R!Props(v.input)})
          \cup {output(p) : p \in outputs(v)}
    BY DEF R!CommandInjection
  <2>2. outputs(t) = outputs(u)
    BY <1>1
  <2>3. \A p, w : /\ critical(p, w).severity = "critical" /\ high(p, w).severity = "high"
                  /\ output(p).severity = "critical"
    BY PartsOfFinding
  <2> HIDE DEF critical, high, output, defaults, traits, outputs
  <2> DEFINE of(p) == {critical(p, w) : w \in defaults(p)} \cup {high(p, x) : x \in traits(p)}
  <2>6. \A p, f : f \in of(p) => f.severity = "critical" \/ f.severity = "high"
    BY <2>3
  <2> HIDE DEF of
  <2>7. \A v, f : f \in R!CommandInjection(v) <=>
          (\E p \in R!Props(v.input) : f \in of(p)) \/ (\E p \in outputs(v) : f = output(p))
    <3>1. \A v : R!CommandInjection(v) =
            (UNION {of(p) : p \in R!Props(v.input)}) \cup {output(p) : p \in outputs(v)}
      BY <2>1 DEF of
    <3> QED
      BY <3>1
  <2>4. R!CommandInjection(t) \subseteq R!CommandInjection(u)
    BY <1>1, <2>2, <2>7
  <2>5. \A f \in R!CommandInjection(t) : f.severity = "critical" \/ f.severity = "high"
    BY <2>3, <2>6, <2>7
  <2> QED
    BY <1>2, <2>4, <2>5 DEF Levels
<1>4. \A f \in R!SchemaPoisoning(t) : Again(f, R!SchemaPoisoning(u))
  <2> DEFINE issues(v) == (IF v.input.open THEN {"open"} ELSE {})
                          \cup (IF v.input.props # <<>> /\ ~v.input.required THEN {"optional"} ELSE {})
             low(issue) == R!Found("R109", "low", issue, <<"input", 0>>)
             untyped(p) == R!Found("R109", "medium", "untyped", <<p.name, 0>>)
             huge(p) == R!Found("R109", "medium", "huge", <<p.name, 0>>)
             without(v) == {p \in R!Props(v.input) : p.type = NONE}
             with(v) == {p \in R!Props(v.input) : "huge" \in p.traits}
  <2>1. \A v : R!SchemaPoisoning(v) = {low(issue) : issue \in issues(v)}
                 \cup {untyped(p) : p \in without(v)} \cup {huge(p) : p \in with(v)}
    BY DEF R!SchemaPoisoning
  <2>2. t.input.props # <<>> => u.input.props # <<>>
    <3>1. t.input.props \in Seq(R!Range(t.input.props)) /\ u.input.props \in Seq(R!Range(u.input.props))
      BY DEF R!IsTool, R!IsSchema
    <3>2. t.input.props # <<>> => 1 \in DOMAIN t.input.props
      BY <3>1
    <3>3. 1 \in DOMAIN t.input.props => u.input.props # <<>>
      <4>1. 1 \in DOMAIN t.input.props => R!Range(u.input.props) # {}
        BY DEF Grown, R!Range
      <4>2. R!Range(<<>>) = {}
        BY DEF R!Range
      <4> QED
        BY <4>1, <4>2
    <3> QED
      BY <3>2, <3>3
  <2>3. issues(t) \subseteq issues(u)
    BY <2>2 DEF Grown
  <2>4. without(t) \subseteq without(u) /\ with(t) \subseteq with(u)
    BY <1>1
  <2>5. \A p : low(p).severity = "low" /\ untyped(p).severity = "medium" /\ huge(p).severity = "medium"
    BY PartsOfFinding
  <2> HIDE DEF issues, low, untyped, huge, without, with
  <2>6. R!SchemaPoisoning(t) \subseteq R!SchemaPoisoning(u)
    BY <2>1, <2>3, <2>4
  <2>7. \A f \in R!SchemaPoisoning(t) : f.severity = "low" \/ f.severity = "medium"
    BY <2>1, <2>5
  <2> QED
    BY <1>2, <2>6, <2>7 DEF Levels
<1>5. \A f \in R!UnboundedInput(t) : Again(f, R!UnboundedInput(u))
  <2> DEFINE it(p, s) == R!Found("R114", "low", p.name, <<s, 0>>)
             unbounded(sch) == {p \in R!Props(sch) : p.type = "string" /\ p.bounds = {}}
             sides(v) == {<<"input", v.input>>, <<"output", v.output>>}
  <2>1. \A v : R!UnboundedInput(v) = UNION {{it(p, s[1]) : p \in unbounded(s[2])} : s \in sides(v)}
    BY DEF R!UnboundedInput
  <2>2. \A v, f : f \in R!UnboundedInput(v) <=>
          \/ \E p \in unbounded(v.input) : f = it(p, "input")
          \/ \E p \in unbounded(v.output) : f = it(p, "output")
    <3> TAKE v, f
    <3> DEFINE a == <<"input", v.input>>
               b == <<"output", v.output>>
    <3>1. a[1] = "input" /\ a[2] = v.input /\ b[1] = "output" /\ b[2] = v.output
      OBVIOUS
    <3>2. R!UnboundedInput(v) = UNION {{it(p, s[1]) : p \in unbounded(s[2])} : s \in {a, b}}
      BY <2>1
    <3> HIDE DEF it, unbounded, a, b
    <3>3. f \in R!UnboundedInput(v) <=>
            (\E p \in unbounded(a[2]) : f = it(p, a[1])) \/ (\E p \in unbounded(b[2]) : f = it(p, b[1]))
      BY <3>2
    <3> QED
      BY <3>1, <3>3
  <2>3. unbounded(t.input) \subseteq unbounded(u.input) /\ unbounded(t.output) \subseteq unbounded(u.output)
    BY <1>1
  <2>4. \A p, s : it(p, s).severity = "low"
    BY PartsOfFinding
  <2> HIDE DEF it, unbounded, sides
  <2>5. R!UnboundedInput(t) \subseteq R!UnboundedInput(u)
    BY <2>2, <2>3
  <2>6. \A f \in R!UnboundedInput(t) : f.severity = "low"
    BY <2>2, <2>4
  <2> QED
    BY <1>2, <2>5, <2>6 DEF Levels
<1>6. \A f \in R!DangerousName(t) : Again(f, R!DangerousName(u))
  <2>1. R!DangerousName(t) = R!DangerousName(u)
    BY DEF R!DangerousName, Grown
  <2>2. \A f \in R!DangerousName(t) : f.severity = "critical"
    BY PartsOfFinding DEF R!DangerousName
  <2> QED
    BY <1>2, <2>1, <2>2 DEF Levels
<1> QED
  BY <1>3, <1>4, <1>5, <1>6

(* R108: only setup instructions excuse, and only two package managers.    *)
LEMMA SupplyFoundAgain ==
  ASSUME NEW t, R!IsTool(t), NEW u, R!IsTool(u), Grown(t, u)
  PROVE  \A f \in R!SupplyChain(t) :
           /\ f.rule = "R108"
           /\ \/ f.what \in {"pip", "npx"} /\ R!At(R!Says(u), R!SETUP_WORDS) # {}
              \/ Again(f, R!SupplyChain(u))
<1> DEFINE text(v) == R!Says(v)
           words == DOMAIN R!SUPPLY_CHAIN_PATTERNS
           hits(v) == {j \in R!At(text(v), words) : ~R!IsInstallDocs(text(v), text(v)[j])}
           it(v, i) == R!Found("R108", R!SUPPLY_CHAIN_PATTERNS[text(v)[i]], text(v)[i], <<"text", i>>)
<1>1. \A v : R!SupplyChain(v) = {it(v, i) : i \in hits(v)}
  BY DEF R!SupplyChain
<1>2. R!Range(text(t)) \subseteq R!Range(text(u))
  BY WordsStay
<1>3. \A v, i : /\ it(v, i).rule = "R108" /\ it(v, i).what = text(v)[i]
                /\ it(v, i).severity = R!SUPPLY_CHAIN_PATTERNS[text(v)[i]]
  BY PartsOfFinding
<1>4. \A w \in words : R!SUPPLY_CHAIN_PATTERNS[w] \in Levels
  BY DEF R!SUPPLY_CHAIN_PATTERNS, Levels
<1> HIDE DEF words, it
<1> TAKE f \in R!SupplyChain(t)
<1>5. PICK i \in hits(t) : f = it(t, i)
  BY <1>1
<1>6. text(t)[i] \in words
  BY MatchedAgain
<1>7. PICK j \in R!At(text(u), words) : text(u)[j] = text(t)[i]
  BY <1>2, MatchedAgain
<1>8. CASE R!IsInstallDocs(text(u), text(u)[j])
  <2>1. f.what \in {"pip", "npx"} /\ R!At(R!Says(u), R!SETUP_WORDS) # {}
    BY <1>3, <1>5, <1>7, <1>8 DEF R!IsInstallDocs
  <2> QED
    BY <1>3, <1>5, <2>1
<1>9. CASE ~R!IsInstallDocs(text(u), text(u)[j])
  <2>1. it(u, j) \in R!SupplyChain(u)
    BY <1>1, <1>7, <1>9
  <2>2. it(u, j).rule = f.rule /\ it(u, j).what = f.what /\ it(u, j).severity = f.severity
    BY <1>3, <1>5, <1>7
  <2>3. f.severity \in Levels /\ f.rule = "R108"
    BY <1>3, <1>4, <1>5, <1>6
  <2> QED
    BY <2>1, <2>2, <2>3 DEF Again
<1> QED
  BY <1>8, <1>9

(* R113: only protective words excuse, and none of them is far away.       *)
LEMMA PathsFoundAgain ==
  ASSUME NEW t, R!IsTool(t), NEW u, R!IsTool(u), Grown(t, u)
  PROVE  \A f \in R!PathTraversal(t) :
           /\ f.rule = "R113"
           /\ \/ f.what \in R!TRAVERSAL_PATTERNS /\ R!At(R!Says(u), R!PROTECTIVE) # {}
              \/ Again(f, R!PathTraversal(u))
<1> DEFINE text(v) == R!Says(v)
           paths(sch) == {p \in R!Props(sch) : p.name \in R!PATH_PARAM_NAMES /\ p.type = "string"}
           writes(v) == R!At(v.name, {"write", "delete"}) # {}
           hits(v) == {j \in R!At(text(v), R!TRAVERSAL_PATTERNS) : ~R!Excused(text(v), j)}
           inputs(v) == {q \in paths(v.input) : ~({"pattern", "format"} \subseteq q.bounds)}
           outputs(v) == {q \in paths(v.output) : "pattern" \notin q.bounds}
           word(v, i) == R!Found("R113", "high", text(v)[i], <<"text", i>>)
           input(v, p) == R!Found("R113", IF writes(v) THEN "medium" ELSE "low", p.name, <<"input", 0>>)
           output(p) == R!Found("R113", "low", p.name, <<"output", 0>>)
<1>1. \A v : R!PathTraversal(v) = {word(v, i) : i \in hits(v)}
               \cup {input(v, p) : p \in inputs(v)} \cup {output(p) : p \in outputs(v)}
  BY DEF R!PathTraversal
<1>2. /\ R!Range(text(t)) \subseteq R!Range(text(u))
      /\ DOMAIN text(u) = 1..Len(text(u)) /\ Len(text(u)) \in Nat
  BY WordsStay
<1>3. \A v, i : word(v, i).rule = "R113" /\ word(v, i).what = text(v)[i] /\ word(v, i).severity = "high"
  BY PartsOfFinding
<1>4. \A v, p : /\ input(v, p).rule = "R113" /\ output(p).rule = "R113"
                /\ input(v, p).severity = "medium" \/ input(v, p).severity = "low"
                /\ output(p).severity = "low"
  BY PartsOfFinding
<1>5. inputs(t) \subseteq inputs(u) /\ outputs(t) \subseteq outputs(u)
  <2>1. R!Props(t.input) \subseteq R!Props(u.input) /\ R!Props(t.output) = R!Props(u.output)
    BY DEF Grown, R!Props
  <2> QED
    BY <2>1
<1>6. \A p : input(t, p) = input(u, p)
  BY DEF Grown
<1>7. ASSUME NEW j \in DOMAIN text(u), R!Excused(text(u), j)
      PROVE  R!At(text(u), R!PROTECTIVE) # {}
  <2> DEFINE context == (IF j > Window THEN j - Window ELSE 1)..(j - 1)
  <2>1. \E k \in context : text(u)[k] \in R!PROTECTIVE
    BY <1>7 DEF R!Excused
  <2>2. context \subseteq DOMAIN text(u)
    BY <1>2, PartsAssumption DEF R!RulesAssumption
  <2> QED
    BY <2>1, <2>2, WordsOfText
<1> HIDE DEF text, inputs, outputs, word, input, output
<1> TAKE f \in R!PathTraversal(t)
<1>8. CASE \E i \in hits(t) : f = word(t, i)
  <2>1. PICK i \in hits(t) : f = word(t, i)
    BY <1>8
  <2>2. text(t)[i] \in R!TRAVERSAL_PATTERNS
    BY MatchedAgain
  <2>3. PICK j \in R!At(text(u), R!TRAVERSAL_PATTERNS) : text(u)[j] = text(t)[i]
    BY <1>2, MatchedAgain
  <2>4. f.rule = "R113" /\ f.what = text(t)[i] /\ f.severity = "high"
    BY <1>3, <2>1
  <2>5. CASE R!Excused(text(u), j)
    <3>1. R!At(text(u), R!PROTECTIVE) # {}
      BY <1>7, <2>3, <2>5, WordsOfText
    <3> QED
      BY <2>2, <2>4, <3>1 DEF text
  <2>6. CASE ~R!Excused(text(u), j)
    <3>1. word(u, j) \in R!PathTraversal(u)
      BY <1>1, <2>3, <2>6
    <3>2. word(u, j).rule = f.rule /\ word(u, j).what = f.what /\ word(u, j).severity = f.severity
      BY <1>3, <2>3, <2>4
    <3> QED
      BY <2>4, <3>1, <3>2 DEF Again, Levels
  <2> QED
    BY <2>5, <2>6
<1>9. CASE \E p \in inputs(t) : f = input(t, p)
  <2>1. f \in R!PathTraversal(u)
    BY <1>1, <1>5, <1>6, <1>9
  <2> QED
    BY <1>4, <1>9, <2>1 DEF Again, Levels
<1>10. CASE \E p \in outputs(t) : f = output(p)
  <2>1. f \in R!PathTraversal(u)
    BY <1>1, <1>5, <1>10
  <2> QED
    BY <1>4, <1>10, <2>1 DEF Again, Levels
<1> QED
  BY <1>1, <1>8, <1>9, <1>10

(* The severities are in their order.                                      *)
LEMMA RanksAreNumbers ==
  \A level \in Levels : R!Rank(level) \in 1..4
<1>1. DOMAIN R!Severities = 1..4
  BY DEF R!Severities
<1>2. \A level \in Levels : \E i \in DOMAIN R!Severities : R!Severities[i] = level
  <2>1. /\ R!Severities[1] = "low" /\ R!Severities[2] = "medium"
        /\ R!Severities[3] = "high" /\ R!Severities[4] = "critical"
    BY DEF R!Severities
  <2> QED
    BY <1>1, <2>1 DEF Levels
<1> QED
  BY <1>1, <1>2 DEF R!Rank

(* Whatever a server adds to a tool, the rules go on finding what they did,*)
(* but for what its own words talk them out of.                            *)
LEMMA FoundAgain ==
  ASSUME NEW t, R!IsTool(t), NEW u, R!IsTool(u), Grown(t, u), NEW low,
         NEW f \in R!Analyze(t, low)
  PROVE  \/ f.rule = "R105" /\ R!IsBridge(u)
         \/ /\ f.rule = "R108" /\ f.what \in {"pip", "npx"}
            /\ R!At(R!Says(u), R!SETUP_WORDS) # {}
         \/ /\ f.rule = "R113" /\ f.what \in R!TRAVERSAL_PATTERNS
            /\ R!At(R!Says(u), R!PROTECTIVE) # {}
         \/ \E g \in R!Analyze(u, low) :
              g.rule = f.rule /\ g.what = f.what /\ R!Rank(g.severity) >= R!Rank(f.severity)
<1> DEFINE All(v) == R!ZeroWidth(v) \cup R!PromptInjection(v) \cup R!EncodedBlob(v)
                     \cup R!HiddenContent(v) \cup R!PermissionScope(v) \cup R!SecretExposure(v)
                     \cup R!CommandInjection(v) \cup R!SupplyChain(v) \cup R!SchemaPoisoning(v)
                     \cup R!PathTraversal(v) \cup R!UnboundedInput(v) \cup R!DangerousName(v)
                     \cup R!NothingInATool(v)
<1>1. \A v : R!Analyze(v, low) = {g \in All(v) : R!Rank(g.severity) >= R!Rank(low)}
  BY DEF R!Analyze
<1>2. ASSUME Again(f, All(u))
      PROVE  \E g \in R!Analyze(u, low) :
               g.rule = f.rule /\ g.what = f.what /\ R!Rank(g.severity) >= R!Rank(f.severity)
  <2>1. PICK g \in All(u) : g.rule = f.rule /\ g.what = f.what /\ g.severity = f.severity
    BY <1>2 DEF Again
  <2>2. R!Rank(f.severity) \in 1..4
    BY <1>2, RanksAreNumbers DEF Again
  <2>3. R!Rank(g.severity) >= R!Rank(f.severity)
    BY <2>1, <2>2
  <2>4. R!Rank(g.severity) >= R!Rank(low)
    BY <1>1, <2>1
  <2>5. g \in R!Analyze(u, low)
    BY <1>1, <2>1, <2>4
  <2> QED
    BY <2>1, <2>3, <2>5
<1>3. \A X : X \subseteq All(u) /\ Again(f, X) => Again(f, All(u))
  BY DEF Again
<1>4. /\ R!ZeroWidth(u) \subseteq All(u) /\ R!PromptInjection(u) \subseteq All(u)
      /\ R!EncodedBlob(u) \subseteq All(u) /\ R!HiddenContent(u) \subseteq All(u)
      /\ R!PermissionScope(u) \subseteq All(u) /\ R!SecretExposure(u) \subseteq All(u)
      /\ R!CommandInjection(u) \subseteq All(u) /\ R!SupplyChain(u) \subseteq All(u)
      /\ R!SchemaPoisoning(u) \subseteq All(u) /\ R!PathTraversal(u) \subseteq All(u)
      /\ R!UnboundedInput(u) \subseteq All(u) /\ R!DangerousName(u) \subseteq All(u)
  OBVIOUS
<1>5. f \in All(t)
  BY <1>1
<1>6. CASE f \in R!ZeroWidth(t) \/ f \in R!PromptInjection(t) \/ f \in R!EncodedBlob(t)
           \/ f \in R!HiddenContent(t)
  <2>1. Again(f, R!ZeroWidth(u)) \/ Again(f, R!PromptInjection(u))
        \/ Again(f, R!EncodedBlob(u)) \/ Again(f, R!HiddenContent(u))
    BY <1>6, TextsFoundAgain
  <2> QED
    BY <1>2, <1>3, <1>4, <2>1
<1>7. CASE f \in R!PermissionScope(t)
  BY <1>2, <1>3, <1>4, <1>7, ScopeFoundAgain
<1>8. CASE f \in R!SecretExposure(t)
  BY <1>2, <1>3, <1>4, <1>8, SecretsFoundAgain
<1>9. CASE f \in R!CommandInjection(t) \/ f \in R!SchemaPoisoning(t) \/ f \in R!UnboundedInput(t)
           \/ f \in R!DangerousName(t)
  <2>1. Again(f, R!CommandInjection(u)) \/ Again(f, R!SchemaPoisoning(u))
        \/ Again(f, R!UnboundedInput(u)) \/ Again(f, R!DangerousName(u))
    BY <1>9, PropertiesFoundAgain
  <2> QED
    BY <1>2, <1>3, <1>4, <2>1
<1>10. CASE f \in R!SupplyChain(t)
  BY <1>2, <1>3, <1>4, <1>10, SupplyFoundAgain
<1>11. CASE f \in R!PathTraversal(t)
  BY <1>2, <1>3, <1>4, <1>11, PathsFoundAgain
<1>12. R!NothingInATool(t) = {}
  BY DEF R!NothingInATool
<1> QED
  BY <1>5, <1>6, <1>7, <1>8, <1>9, <1>10, <1>11, <1>12

(* Whatever a server adds to a tool, a scan goes on reporting what it      *)
(* reported before, or says that it is incomplete; only three rules can be *)
(* talked out of a finding (scanner/rules.py:68-1385).                     *)
THEOREM AdditionsHideNothing == Spec => NothingHidden
<1>1. RulesInv /\ [R!Next]_(R!vars) => R!NothingHidden
  <2> SUFFICES ASSUME RulesInv, [R!Next]_(R!vars), ~report'.incomplete,
                      NEW f \in report.findings
               PROVE  \/ R!TalkedOut(f)
                      \/ \E g \in report'.findings :
                           g.rule = f.rule /\ g.what = f.what
                           /\ R!Rank(g.severity) >= R!Rank(f.severity)
    BY DEF R!NothingHidden
  <2>1. RulesInv' /\ Grown(tool, tool') /\ floor' = floor
    BY RulesStep
  <2>2. PICK u : u = tool'
    OBVIOUS
  <2>3. R!IsTool(tool) /\ R!IsTool(u) /\ Grown(tool, u)
    BY <2>1, <2>2 DEF RulesInv
  <2>4. report = R!Scan(tool, floor) /\ report' = R!Scan(u, floor)
    BY <2>1, <2>2 DEF RulesInv
  <2>5. f \in R!Analyze(tool, floor)
    BY <2>4 DEF R!Scan
  <2>6. report'.findings = R!Analyze(u, floor)
    BY <2>4 DEF R!Scan
  <2> QED
    BY <2>2, <2>3, <2>5, <2>6, FoundAgain DEF R!TalkedOut
<1>2. part = "rules" /\ [Next]_vars => [R!Next]_(R!vars)
  BY DEF Next, vars, R!vars
<1>3. [Next]_vars /\ (RulesInv \/ ~(part = "rules")) => [part = "rules" => R!NothingHidden]_vars
  BY <1>1, <1>2
<1>4. Spec => [](RulesInv \/ ~(part = "rules"))
  BY RulesPart, RulesIsInv, PTL
<1> QED
  BY <1>3, <1>4, PTL DEF Spec, NothingHidden
=============================================================================
