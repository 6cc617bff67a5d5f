# TLA+ models of MCPRadar

MCPRadar scans MCP servers: it connects to a server, lists what the server
shows to a client (tools, prompts, resources, resource templates), applies
rules to it, stores the report as a snapshot in SQLite, compares snapshots,
watches a server for changes, and keeps several caches of feeds it downloads.
This directory holds TLA+ modules of its stateful parts, the TLC
configurations that check them on small instances, and proofs of the main
theorems for every instance. Source paths below are relative to
`src/src/mcpradar/`.

- Parse: `tlasany M.tla`. Check a run: `tlc -workers 2 -config X.cfg M`.
  Prove: `tlapm M.tla`.
- `PROJECT.json` lists the components, runs, seeded faults, the source lines
  every definition stands for, the findings, the hazards and the theorems.

## 1. The system

| component | state it keeps | operations | talks to |
|---|---|---|---|
| snapshot store, `storage/store.py` | one SQLite file (WAL): `scans`, five child tables, fingerprints, audit events, schema version | save, load, latest, since, older-than, beyond-keep, delete, migrate | every command in `cli.py`; several OS processes share the file |
| scanner, `scanner/engine.py`, `protocol_adapter.py` | one report under construction, an open session | discover or initialize, list pages, analyse, probe | the MCP server (over HTTP, stdio, SSE), rules, prober, auditor |
| prober, `probe/prober.py`, `probe/sandbox.py` | none between tools | choose safe tools, generate arguments, call with a timeout, inspect the response | the session of the scanner |
| watcher, `watch/watcher.py` | `last_report` in memory | scan, save, compare, alert (command, webhook), sleep | scanner, store, differ, auditor |
| differ, `diff/differ.py` | none | compare two reports by name, classify severity | watcher, `diff` command |
| audit trail, `audit/auditor.py`, `audit/stats.py` | table `audit_events`; an in-memory statistics cache | log, query, export, statistics | store, watcher, scanner |
| plugin manager, `plugin/` | plugin directories and `manifest.json` | install, uninstall, list, load rules in a worker process | pip, the rule engine |
| registry client, `registry/` | cache files with a time stamp | paginated listing, cached lookup, popularity | HTTP services |
| CVE feed and OSV client, `cvefeed/` | feed file; in-memory answers | sync with backoff, merge, look up | HTTP services |
| parallel scanner, `scanner/engine.py`, `scan-all` | a semaphore, results in order | scan many servers, save each | scanner, store |
| fetcher and safe HTTP, `fetch/`, `network/` | a temporary directory | resolve, download with limits, extract | registries, GitHub |
| policy gate and scores, `policy/`, `scoring/` | policy and baseline files | suppress findings, grade, decide the exit code | `policy check` |
| rules, `scanner/rules.py` | none | a tool's texts and schemas to findings | scanner |
| cross-server analysis, `analyzer/context.py` | none | attack graph and seven checks over several reports | `scan-all`, `context` |
| fingerprints, `fingerprint/` | table `fingerprints` | create, compare, transport check | scanner, store |
| authorization check, `probe/oauth.py` | none | discovery, request by request | scanner, rules |
| dependency check, `supply/deps.py` | none | collect, query, fetch details, report | OSV client |
| configuration, `config.py`, `init/` | `mcpradar.toml` | init, edit, disable a rule | commands |
| source, config and schema analyzers, output, signing, container, leaderboard | none or one file | syntax-tree walks, rendering, one call of a library | commands |

How they meet: a command is one OS process. Inside it everything runs on one
asyncio loop, so interleavings come from (a) several processes over one
database or one cache file, (b) the MCP server, which answers, fails and
changes at any time, and (c) the receivers of alerts.

What is hard here, and hence what the properties are about:

- a save writes six tables, a load reads six tables **in no transaction**, a
  purge deletes by a list of ids it read earlier: three processes' steps
  interleave, and any of them may be killed (hazards at `store.py:197`, `:380`,
  `cli.py:944`, `:962`);
- a server pages its lists, lies about cursors, fails in the middle: the report
  must never claim more than was read (`engine.py:379`, `:405`, `:414`);
- the watcher keeps its reference report in memory while the database is
  changed by others, and alerts get lost (`watcher.py:55-80`, `:102`);
- caches are used after failures and re-stamped; plugins are installed in
  several file operations without a lock.

For each component, what makes it correct:

| component | correct means |
|---|---|
| store | a snapshot is stored whole or not at all; a load returns a saved report, cut off at most by a purge; a purge keeps what it promised |
| scanner | "complete" means read to the end; nothing flagged is missed without the incomplete mark; one session per report; it ends |
| watcher | a change is tried on every channel before the reference moves; alerts name stored reports; receivers converge to the server |
| audit | events appear in an order a reader can make sense of; every operation is recorded |
| plugins | an entry of the manifest is of a package that was filled and validated; commands that do not overlap leave what they answered |
| database upgrade | no command works on a database that lacks something; the old one is kept |
| caches and feed | nothing older than its time to live is served as fresh; a sync asks for everything and loses nothing |
| `scan-all` | every server is scanned, and answered in its place; one failure costs no other its result |
| fetcher | every request was looked at first; nothing is extracted before every member is validated |
| policy | time and further findings only close the gate; a grade reflects the worst finding |
| cross-server analysis | a further server takes no finding away; an escalation is a path that exists |
| differ | what it looks at is compared whole and in its direction; a worsening counts as security, and not less so when it comes in steps |
| rules | what a server adds to a tool hides no finding, save by three exceptions made for it |
| fingerprints | a comparison is with the last look, and silent exactly when nothing changed |
| authorization and transport checks | a finding rests on what was read; a transport passes in silence only if it verified |
| dependencies | what is asked is what is installed; each vulnerable dependency is reported |
| prober | with a sandbox, only admitted arguments are sent |

## 2. Modules

```
SnapshotTable  <-- refined by --  SnapshotStore  <-- SnapshotStoreProofs
      ^                                 ^----------- MCSnapshotStore
      '-- INSTANCE --  Watch  <-- WatchProofs, MCWatch
Scanner  <-- ScannerProofs, MCScanner
TextFile  <-- INSTANCE --  RegistryClient  <-- RegistryProofs, MCRegistryClient
    ^ ^--------- CveFeed  <-- CveFeedProofs
    '----------- Plugins  <-- PluginsProofs
Migration  <-- MigrationProofs      Scoring  <-- Policy
Parts  -- INSTANCE -->  PluginsProofs, MigrationProofs, CveFeedProofs, Fetch,
  ^        ScanAll, Policy, ContextAnalysis, Differ, Rules, Identity, Endpoint,
  |        Dependencies, ProbeArgs
  '--  PartsProofs, MCParts
```

**SnapshotTable** is what the history of snapshots promises, without a
database: a report is produced once, `Put` makes it visible as a whole, `Lose`
loses an unsaved one, `Remove` takes a set away at once.

**SnapshotStore** is `storage/store.py` with the commands of `cli.py` that use
it. `Procs` are OS processes, each running one command after the other
(`pc[p]`). `scan` is `ScanServer`, `SaveScan` (the `INSERT OR REPLACE`, which
opens the transaction, and the `DELETE`s), one `SaveChildren` per child table,
`SaveCommit`. `purge` is `PurgeOlder` or `PurgeKeep` (the query), `DeleteScans`,
`PurgeCommit`. `show`, `export`, `diff` and `list` are `StartReading`, then per
snapshot `LoadScan` or `LoadMissing`, one `LoadChildren` per table (each its
own `SELECT`, outside any transaction), `LoadReturn`, and `Answer`. `Crash`
ends a command anywhere, `Busy` is "database is locked" after the busy timeout.
SQLite itself is external: one writer, uncommitted changes invisible, rollback
on death, each `SELECT` reads the latest commit. Timestamps are a counter:
reports of one target within one microsecond are left out.

**Scanner** is one `Scanner.run`: `Discover*` and `Initialize*` choose the
session, `ListPage`, `LastPage`, `PageCap`, `NoList`, `ListFails` are the ways
a request inside `_collect_pages` can end, `SkipSurface` is an unannounced
surface, `Analyze` the rest of `_collect_all` (no `await`, hence one step),
`ProbeTool`, `ProbeRaises`, `ProbeEnd` the probing loop. The server is the
environment: it owns a `book` of pages per surface, may lie on some surfaces
(any page, any cursor, no list), and any request may fail. An item has a kind:
clean, flagged, one a rule raises on, or malformed; what the patterns match is
not modelled. As in the SDK, `capabilities` of a stateful session has every key.

**Watch** is `Watcher.run` over an INSTANCE of SnapshotTable with the watcher as
its only producer. A scan reads the surfaces one at a time (`ReadSurface`) while
the server changes (`Edit`) and others purge (`Purge`). `Save` before `Compare`;
then `Alert`/`LogAlert` for each channel, where an alert that fails may or may
not have arrived; `Settle` moves `last_report`. `Stop` at any point, `Start`
with an empty memory. `known` is what a receiver of the alerts knows, `lost`
the channels an alert of this run failed on: observations, not program state.

**TextFile** is `Path.write_text` without a temporary file: opening empties the
file, the text follows, and a process may stop in between; two that have it open
at once may leave a mixture. What is left then is `TORN`, no JSON.

**RegistryClient** is `RegistryClient.list_servers` in several processes over one
`registry_cache.json`. `List` tries the cache or starts a walk; `NextPage`,
`LastPageRead`, `RepeatedCursor`, `RequestFails` are the ways a turn of the loop
ends; `WalkFails` is the `except` branch, which takes the cache and, for an
unbounded listing, goes on to save it as if it had been walked (`Restamped`).
`SaveOpen`, `SaveWrite`, `SaveFails` are `_save_cache` under
`suppress(Exception)`, `Crash` a kill. `walked` and `kept` of a listing are
observations: when its walk ended and how many failed refreshes have stamped it
since; the file holds the servers and `_cached_at` only.

The modules below are parts of an installation that share no state with each
other. **Parts** holds an instance of every one of them: a behaviour is one of
`part`, and the variables of the other parts are `NONE`. Its properties are
those of the parts' modules, each on the condition that the part is theirs.
`MCParts` gives it its constants for TLC, and **PartsProofs** proves what holds of
it for any.

**Plugins** is `plugin/manager.py` with `runtime.py` and `worker.py`: `install` is
`Begin`, `MakeDirectory`, `PipFills`, `PipFails` or `PipTimesOut`, `Validate` or
`ValidationFails`, `AddEntry`, then `Open` and `Write` of the manifest, an
INSTANCE of TextFile; `uninstall` is `Find`, `RemoveDirectory`, the same two; a
scan is `LoadRules`, `Check`. Two processes do so at once and `Crash` anywhere.
What pip brings is useful or not, what a worker prints is rules or nothing.

**Migration** is `Store.__init__` and `_migrate`: `Connect` creates the first
schema, `ReadVersion` decides, a backup is copied, `_column_exists` is looked
at and the column added as two steps, and the version committed with its row.
Each `ALTER TABLE` is final by itself, as in Python's `sqlite3`.

**Fetch** is `fetch/fetcher.py` over `network/safe_http.py`: each hop of a GET is
looked at (`Validate`: scheme, credentials, host, what the name resolves to then)
and asked, each chunk counted; members are checked one by one before the first is
extracted; then the provenance file. Git sources go by steps of git. The web is a
function from URLs to sets of answers.

**ScanAll** is `scan-all`. With `--parallel` all scans run under
`asyncio.Semaphore`, are gathered in order with their exceptions, and then told one
after the other (`Tell`), where opening the store, saving or printing may raise
(`TellRaises`, before or after the report is saved). Without it the command `scan` is
called as a function, with typer's `OptionInfo` objects for the options left out;
none of them is a protocol profile, so each call is a `Refuse` (`cli.py:262`).

**CveFeed** is a sync of `cvefeed/syncer.py`: load, keyword by keyword, page by
page, with a pause that all requests of the sync share and a last failure that
ends its keyword, merge, and write, again over TextFile and in two processes;
`cve sync` falls back to the seeds when nothing was found.

**Scoring** holds the scores as operators in exact arithmetic; **Policy** is
`load_policy`, the suppressions with their dates and `evaluate_policy`, while
days pass (`Tomorrow`) and later reports hold more (`FindMore`) or are incomplete
(`FallShort`); a policy file is any of a set of them.

**ContextAnalysis** is `analyzer/context.py`: the attack graph and the checks C001
to C007, while `analyze-context` adds one report after the other. The graph is a set
of tools and a set of edges, its paths are the simple ones; what the order in which
the code takes tools decides is said by `Before`: which of two tools an edge is
looked for from, if it has outputs (`LookedAt`), and which of the paths with the
same names stands for them, the first that the search finds (`First`).

**Differ** is `Differ.compare` over two reports. Reports hold what the differ does
not look at as well (the rest of an item and of a finding, tools hidden by one of the
same name); `View` says what is left of a report for it. **Rules** are the rules for tools
over a tool whose description and schema grow word by word, with each rule's
exceptions. A word stands for what one pattern matches; a schema's text has two
places for each of its properties, the name and the default (`SchemaText`).

**Identity** is `fingerprint create` and `compare` with the table in between,
while servers change their looks: the id of a row hashes the tools' names, so
a changed server has a second row.

**Endpoint** is the discovery of an authorization server, one request a step, each
answered or not, the findings R112 made of it, and the TLS handshake, which verifies
or fails, with R111, for every value of `--severity`. **Dependencies** is
`supply/deps.py`, file by file, with the batch and the details of `cvefeed/osv.py`.
**ProbeArgs** generates, validates, sanitizes and sends arguments and reads the
answer.

## 3. Runs

| run | instance | checks |
|---|---|---|
| `SnapshotStore.cfg` | 2 processes, 3 ids (one sorting low), 2 servers, 3 child tables, keep-last 1; symmetric in processes, servers and the other ids; 384,583 states | `TypeOK`, `SnapshotIntegrity`, `LoadIsPrefix`, `KeepFloor`, `ImplementsTable` (refinement of SnapshotTable) |
| `DiffOrder.cfg` | as above, 1 process, 1 table | `DiffGoesForward`: **violated**, finding 1 |
| `SinceScan.cfg` | as above | `SinceStartsAtScan`: **violated**, finding 2 |
| `Scanner.cfg` | 3 surfaces, page cap 3, up to 4 pages, cursors 0..2 for liars, 1 probe; 695,168 states | `TypeOK`, `CompleteMeansAll`, `NothingMissedSilently`, `OneSession`, `Ends` |
| `PartialSilent.cfg` | as above | `PartialIsNeverSilent`: **violated**, finding 3 |
| `Watch.cfg` | 3 scans, 2 surfaces, 2 versions, 2 channels, with an audit log; 439,168 states | `TypeOK`, `ReceiverKeepsUp`, `AlertsNameSaved`, `AuditReadsRight`, `EveryChangeTried`, `Converges` |
| `Registry.cfg` | 2 processes, 3 pages, cursors 0..1 for liars, one bound, time to live 1, clock up to 3; 131,557 states | `TypeOK`, `OnlyWholeWalks`, `AgeBounded`, `Ends` |
| `StaleCache.cfg` | as above, 2 pages | `CacheExpires`: **violated**, finding 4 |
| `Parts.cfg` | 13 parts, one per behaviour; 459,397 states | see below |
| `OsvByName.cfg` | as above | `EachVulnerableReported`: **violated**, finding 5 |
| `ScanAllSequence.cfg` | as above | `EveryServerScanned`: **violated**, finding 6 |
| `MissedEscalation.cfg` | as above | `EveryEscalationTold`: **violated**, finding 7 |

The parts of `Parts.cfg` (module MCParts), their instances and what is checked of each:

| part | instance | checks |
|---|---|---|
| Plugins | 2 processes, 2 packages with rules | `ListedIsWhole`, `AnswersHold` |
| Migration | 2 processes, two migrations, of two columns and of one that is looked for first | `OpenHasAll`, `WayBack` |
| Fetch | 7 URLs, at most 2 redirects, names that change their address, archives of up to 4 members for a limit of 3 | `RequestsVetted`, `DestinationIsVetted` |
| ScanAll | 3 servers, in parallel with limits 1 and 2, and in sequence | `EveryServerAnswered` |
| CveFeed | 2 processes, 2 keywords sharing a CVE, 3 pages, 2 tries | `SyncIsThorough`, `NeverForgets` |
| Policy | 3 findings, 2 days, suppressions that expire on either | `GateOnlyCloses`, `GradeReflectsWorst` |
| ContextAnalysis | up to 4 servers, 5 sets of tools for each | `MoreServersMoreFindings`, `EscalationsExact` |
| Differ | 17 reports that differ from a first one in one respect or two, or only in what is not looked at | `ChangesExact` |
| Rules | 4 tools, up to 2 of 17 words and 1 of 3 properties added | `NothingHidden` |
| Identity | 5 looks, 3 names of which one reads like two others joined, 3 fingerprints | `ComparesWithLast` |
| Endpoint | 5 addresses, 4 floors, 3 authorization servers, handshakes that verify or fail | `Documented` |
| Dependencies | 6 projects of up to 5 files, at most 3 dependencies | `CheckedIsInstalled` |
| ProbeArgs | schemas of up to 2 properties, defaults nested up to 3 deep for a limit of 1 | `SentIsSafe` |

Why the bounds are enough. *SnapshotStore*: three child tables give a first, a
middle and a last one, so a load can be cut before, between and after; three ids
make "newest", "second newest" and "purged meanwhile" distinct; two processes are
enough for each pair of commands to interleave, and a third would only wait for the
lock. The ids other than `LowIds` are symmetric because nothing orders them;
processes and servers likewise. The clock needs no bound of its own, every id is
used once. *Scanner*: with a page cap of 3, honest lists of one, two, three and four
pages (the last three with empty pages among them) lie before, at and past the cap;
cursor values 0..2 let a liar stop, repeat its cursor and cycle; the fourth surface
behaves like the third, so three are listed. Five items cover all kinds, with a
clean and an odd tool among the safe ones. *Watch*: three scans are two consecutive
comparisons, the least in which a reference report moves twice; `AnotherScan` stops
edits and failed reads when no full scan would be left, so that convergence is a
real claim and not cut off by the bound. Ids are exchangeable, so the model draws an
arbitrary fixed free one. *RegistryClient*: three pages give a first, a middle and a
last one at which a walk can break off; a clock of three times the time to live lets
a listing expire, and be stamped anew twice before; two processes can write at once.

*Parts*: the parts share no variable, hence one run explores them beside each other
and their state counts add up. Two processes over one file show every overlap of a
load with a write; more would repeat it. Two migrations, one of two columns, let an
upgrade stop between two columns, between a column and the version, and between two
versions. Three hops are one more than the redirects admitted, four members one more
than `MAX_MEMBERS`. A report grows through all subsets of three findings of
different severities, and a day is before or after the end of every suppression.
Three reports, an earlier one and the two compared, are the least in which a change
can come in steps. Four servers make a path of three edges, and two paths that fall
together. Two added words are what an exception needs to excuse a finding of the
other one. Three fingerprints are a look, another one, and the first again. Each
project file that overrides, repeats or fails to parse occurs beside one it could
affect, and three dependencies reach the limit. A probe's values lie before, at and
past the depth limit.

Deadlock is checked for SnapshotStore, Watch and RegistryClient. A scan ends, so
the Scanner configurations switch the check off; `Ends` says that it ends in a
final state. Most parts end as well: a download is done, a day is the last.

Fairness. SnapshotStore and the parts have none and claim no liveness. (Nor
could scan-all: with `--max-concurrency 0`, which the command line admits, no
scan ever gets past the semaphore.) Scanner assumes
`WF(Next)`: the event loop continues, and a request is answered or its
connection fails. (The SDK sessions are opened without a read timeout, so a
server that keeps a connection open in silence is outside this; probes have
their own timeout.) Watch assumes `WF(Step)`: reads end, the command alert
has a timeout of 30 s and the webhook one of 10 s, the sleep ends. Nothing
restarts a stopped watcher, so `Start` is not fair and `Converges` speaks of
watchers that go on running. Edits and purges are never fair. RegistryClient
assumes `WF(Work(p))`: httpx gives up after 30 s of silence, the pause between
pages is 1 s, writing a file ends. `Ends` is about registries with finitely many
cursors (`MaxCursor`): the code stops at a repeated cursor, but not at a
registry that makes up new ones for ever, for it has no page cap.

## 4. Findings

1. `diff SERVER` loads newest first and hands the newest to the differ as the
   *old* report (`cli.py:690`): additions read as removals. The watcher has
   it the other way round.
2. `scan_since` compares its argument with time stamps as text before looking
   it up as an id (`store.py:468`): an id that begins with 0 or 1 matches all.
3. A later page failing on a surface that was tried but not announced leaves a
   partial surface in a report not marked incomplete (`engine.py:415`), while
   `docs/protocol-profiles.md` says that this never happens.
4. A forced refresh that fails within the time to live saves the old cache with
   a new stamp (`client.py:125`), so it never expires as long as refreshes keep
   failing often enough. `AgeBounded` says what is true: one more time to live
   per failed refresh.
5. `query_batch` keeps the answers by package name (`osv.py:145`): of two versions
   of one package in a lockfile the later one's answer counts for both, and a
   vulnerable one goes unreported.
6. `scan-all` without `--parallel` scans nothing (`cli.py:1127`): it calls the command
   `scan` as a function, whose `protocol_profile` is then no profile but typer's
   `OptionInfo`, and `cli.py:262` raises for every server. "Scan all servers from
   mcpradar.toml sequentially." (`cli.py:1111`.)
7. Pairs of tools are looked at from the earlier one, and not at all if it has no
   output types (`analyzer/context.py:328`), although the loop says "Also check reverse
   direction" (`:344`): a tool that only writes, listed first, is never reached, and
   the escalation to it is not told. `EscalationsExact` says what is told: all that can
   be fed, but for these.

Contradicted by a text of the repository, and seen without a run of their own:

- `sandbox.py:127` says "Forbidden values are replaced with "test"" and `:128` "Deeply
  nested values become None (in parent dict)". A string right in a dict at the depth
  limit is sent as it was, forbidden or not, for the None from below keeps it
  (`:153-160`). `SentIsSafe` says that this is the only kind of place (`KeptAsItWas`).
- `CHANGELOG.md:333` says "Structured audit event logging for all scan, diff, and alert
  operations", but neither `watch` nor `scan` passes an audit logger (`cli.py:2147`), so
  the audit trail stays empty. The run of Watch has a logger.
- `docs/cli-reference.md:229` has `rules disable` "Disable a rule", but the list it
  writes reaches no rule engine (`engine.py:56`), and its default is set beside the
  `[rules]` table instead of in it (`cli.py:1534`).

Contradicted by no document we know of, and in the models as the code has them: a second
lockfile replaces the dependencies of the first instead of adding to them
(`supply/deps.py:311`); the differ does not look at arguments of prompts, nor at names
and MIME types of resources, and counts a tool that comes with a poisoned text as
added, not as security (`diff/differ.py:87`); two names joined by a comma read like one
(`fingerprint/fingerprinter.py`); a certificate is never seen as self-signed, for
`_cert_name` wants lists where `ssl` gives tuples (`transport_check.py:143`), though one
that is not trusted fails the handshake; for a version that npm's metadata does not
have, the first version listed is taken (`fetch/fetcher.py:108`). Not modelled: `init`
writes over an existing configuration.

## 5. Proofs

TLAPS checks every theorem below for all values of the constants under the
named assumption of the module (`StoreAssumption`, `NoneIsNoReport`,
`ScannerAssumption`, `WatchAssumption`, `RegistryAssumption`, `NoListing`); TLC
evaluates these assumptions on the instances it runs. Modules that Parts
instantiates name their assumption by a definition (`PluginsAssumption`,
`FetchAssumption` and so on), of which `PartsAssumption` is the conjunction. They
say that limits are numbers and sets finite, that `NONE` is none of the values it
stands beside, and what kind of value the program's inputs are: a report's
tools, a tool's texts and a project's files are sequences, a default is a tree, the
files of a project come in the order of `_MANIFESTS`.

**SnapshotStoreProofs.** `SnapshotIntegrity` is not inductive: it says nothing
about a transaction under way. `StoreInv` adds who holds which id (`CurInv`:
an id in hand is neither stored nor in other hands), who holds the lock
(`LockInv`) and what an open transaction would publish (`TxInv`: the committed
tables plus the first `step - 1` child tables of the report, or minus the doomed
ids). From it: `TypeCorrect`, `SaveIsAtomic`, and `Refinement` (every step maps to
a step of SnapshotTable or a stutter, `Commit` being the step that is visible).
`LoadsAreWhole` needs `LoadInv` on top: what has been read of a snapshot is cut
off at some table, and only if it is no longer stored; ids never come back,
hence a cut load cannot pick up rows again. `PurgeKeepsNewest` needs the same of
what a purge has selected (`FloorInv`): no scan in hand has one of its ids, so a
save can only add newer snapshots, and the number of newer ones only grows
(`NewerGrows`) until another purge commits and marks this one as raced.

**ScannerProofs.** `ScanInv` relates the position in an honest list to the pages
received (`ListInv`), says what every closed surface's status stands for
(`ClosedInv`) and that findings cover what was collected (`FindingInv`). From it
`TypeCorrect`, `CompleteIsAll`, `NothingMissed`, and `SessionIsOne` as an action
property.

**WatchProofs.** `WatchInv` ties the point in the loop to the reports in hand
(`LoopInv`), to the channels dealt with so far (`TriedInv`: an untouched receiver
knows the old report, one already tried the new one) and to the last audit event
(`AuditInv`). From it `TypeCorrect`, `ReceiverIsCurrent`, `AlertsAfterSave`,
`ChangesAreTried`, `AuditIsOrdered`.

**RegistryProofs.** `OnlyWholeWalks` and `AgeBounded` look only at what is kept;
`RegistryInv` adds that a walk of an honest registry has read the first pages in
order and its cursor counts them (`WalkInv`), that a process saves only unbounded
listings (`HeldInv`), and that a stamp is at most `kept` times to live later than
its walk (`StampInv`). `FileStep` and `TakeStep` say all that a step can put into
the file or into a process's hands. From it `RegistryTypes`, `WholeOrNothing`,
`AgeIsBounded`.

**MigrationProofs.** `OpenHasAll` is about a process that is through with its
upgrade, while another may set the version back by committing its own, older
one. It holds because nobody takes a column away (`Grows`): `MigrationInv` says
of each process that what it has passed is in the database (`Fits`), whatever
the version says meanwhile. From it `UpgradesAreWhole`. `BackupIsKept` is about
commands that do not overlap: one at most is not idle (`Alone`), and it changes
the database only once the original is in its backup (`Kept`); while the backup
lacks it, the database is still the original (`Home`).

**PluginsProofs.** `ListedIsWhole` is not inductive, for a removed package may be
filled again: an entry must be of a package that had rules. `PluginsInv` says
this of the manifest, of the manifest a process holds, and of a package that was
validated (`Sound`, `Lists`, `Relies`); every step that touches a directory keeps
it (`SoundStays`). From it `PluginTypes`, `EntriesAreWhole`. `AnswersAreTrue`
needs that without an overlap one command at most is not idle, and that what it
holds is what was answered, save for its own package (`Solo`).

**CveFeedProofs.** `FeedInv` says of every sync that what it has found covers the
pages it is past (`Covered`), unless it gave a request up; a page it collects is
added (`CollectCovers`), and after the last keyword nothing is missing
(`AllCovered`). From it `FeedTypes`, `SyncAsksForAll`. `NothingForgotten` again
needs that syncs that do not overlap are one at most, whose feed has the file's
entries from the load on (`Carries`), for a merge takes the later of two dates
(`MergeGrows`).

**PartsProofs.** A behaviour of Parts is one of a part's specification, or `part` is
another (`PluginsPart` to `ContextPart`); so an invariant of the part is one of Parts
on that condition. By this the theorems of the three modules above are taken over
(`PluginsListed`, `PluginsTold`, `UpgradeOpens`, `UpgradeKeepsBackup`, `FeedIsThorough`,
`FeedKeepsAll`), and those of the other parts proved:

- *ScanAll*: the types, the count of the semaphore and `EveryServerAnswered` are
  inductive together (`ScanAllInv`): in parallel a server is answered only when all
  scans are over, and a scan that is over stays so; in sequence none begins. What
  takes an argument is the count, which `Enter` raises by one. `ScanAllTypes`,
  `ResultsMeetServers`, `ScansMeetServers`.
- *Fetch*: `FetchInv` says at each place how many requests may have been made and
  bytes read by then (`FetchBounds`), that what is being read is an answer of the web
  (`FetchHears`), and that the destination holds the members extracted so far of an
  archive all of whose members passed (`DiskOfFetch`). `FetchAsksWithin`,
  `FetchWritesVetted`; with the types of the five parts with files or concurrency,
  `PartsTypes`.
- *Endpoint*: `EndpointInv` says at each point of the discovery what is known of the
  server and whose document it is, what the findings R112 are once they are judged
  (`Lacking`), and at the end what the handshake was, of which `AboutRule` and `Heard`
  give the findings the floor lets through. `FindingsAreDocumented`.
- *ProbeArgs*: a default is a tree, what is generated from trees is one
  (`NestedIsTree`, `MinimalIsTree`), and what remains of a tree holds a bad string at no
  place but those of `KeptAsItWas` (`SanitizedIsSafe`): for what is kept, its parents
  are kept. `CallsAreSafe`.
- *Identity*: `IdentityInv` says that of the rows of a server the one last seen shows
  the look that was taken last, though a server that changes back replaces an older
  row. That a comparison is silent only for equal looks needs that no version is
  lower than itself (`NotLess`). `ComparisonsAreWithLast`.
- *Policy*: what is active only grows, with days and with findings (`ActiveGrows`), and
  so do the scores (`RoundGrows`, `BaseGrows`, `ScoreGrows`, over exact fractions);
  `GateStaysClosed` is the action property. `GradesReflectWorst` is arithmetic: the
  worst finding's floor (`BaseGrows`) is above what the grade admits.
- *Differ*: no induction, for a comparison is a function of two reports:
  `HasChangesExact` takes it apart surface by surface, in both directions, and
  `WorseIsCounted` finds for each way to get worse the change that counts it, and for
  each change that counts the way (`ToolIsSevere`, `SurfaceIsSevere`). That a server
  cannot get worse unnoticed in steps is then about what got worse alone
  (`WorseInAStep`). `ChangesAreExact`.
- *Dependencies*: `DependenciesInv` says that what is listed of an ecosystem is from
  files that count (`From`), where the order of the files matters: no loose file
  precedes a lockfile of its ecosystem without being overridden by it
  (`LockfilesFirst`, `ManifestRead`). `ChecksAreInstalled`.
- *ContextAnalysis*: C007 searches simple paths of edges, the property speaks of what
  three feeding steps reach; that every tool reached is reached by a simple path, the
  shortest, is `SearchIsReach`, and that up to the last step every feeding pair is an
  edge, for a tool in between has outputs, is `EdgesAreFeeds` with `ReachIsFed`.
  `EscalationsAreExact`. A further server leaves the earlier
  tools, their order and hence the edges as they are (`NodesStay`, `MoreOnward`), so
  each path stays a path (`MorePaths`), and each check finds what it found
  (`MoreFindings`). `MoreServersTakeNothingAway`, an action property.
- *Rules*: a step adds words to the description, properties to the input schema, or
  makes a schema too deep, and takes nothing away (`RulesStep`, `Grown`); so a rule
  finds again, no less severely, what it found (`Again`), rule by rule
  (`TextsFoundAgain` to `PathsFoundAgain`), save where its exception applies.
  `AdditionsHideNothing`, an action property.

Model-checked only: `Ends` of Scanner and of RegistryClient and `Converges` of
Watch, the three liveness properties: they rest on fairness, and ENABLED and
well-founded induction over the steps of a behaviour are beyond the prover. All
other properties of passing runs are theorems. The properties that a run
violates are false, and stay so.

## 6. Not modelled

- What a regular expression or a keyword list matches (rules, writing tools,
  capabilities, secrets): a text is the set or sequence of what is found in it.
- Source analyzers (Python, JavaScript, Go) and the scan of client
  configurations: walks over a syntax tree with one pattern per node kind.
- Typosquatting (string distances to a fixed list) and the popularity lookup (a
  cache of the kind RegistryClient has).
- Statistics, confidence and enrichment: counts of rows and texts attached to a
  finished report. The rule catalog is a table of texts.
- Output formats, leaderboard, plugin scaffolding: layout and files written once.
- Snapshot signing and the container sandbox: one call of a library, one command
  line.
- Validation metrics: plain arithmetic over labelled results.
- Of the schema walker only its limits; the order in which it yields properties
  and schemas that refer to themselves are not.
- Configuration (`mcpradar.toml`): one file read once at the start of a command.
- Of the audit trail only the events and their order; its queries are single
  statements. Of the store, the `list` and `stats` aggregates likewise.
- Sessions of the SDK and SQLite, httpx, pip and git are external: modelled by
  what the code relies on. Hashes are taken as collision-free.

## 7. What is left

- Types of the parts without files or concurrency (`TypeOK` of Parts is about the
  other five); their invariants say what their proofs need.
- A refinement for the caches: RegistryClient and CveFeed each keep one file that
  promises no more than "some whole listing", which an abstract cache could state.
- Models of the parts in section 6, where they come to keep state.
