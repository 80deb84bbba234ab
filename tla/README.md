# Networked Players: TLA+ models, checks and proofs

This directory is the verification development for the Networked Players
repository: TLA+ modules of the parts of the program that have state, concurrency,
failure or ordering to get wrong, TLC configurations that check them on small
instances, and TLAPS proofs of the safety properties that matter most, for every
value of the constants. Paths below are relative to the root of the repository;
`graph-core`, `catalog`, `contracts` and `platform` are the packages of that name.

`tlc -config X.cfg M` checks a module; `tlapm M.tla` checks the proofs of a
`*Proofs` module. `PROJECT.json` is the index: components, runs, mutants, the map
from definitions to source lines, hazards, findings and theorems.

## 1. Inventory

The repository is a family of programs around one body of data, Discogs credit
evidence. A dump becomes a one-hop corpus, the corpus becomes a catalogue, a graph and
game rounds, these become public JSON artifacts, and a static site plays them.

| Component | State it keeps | Operations | What is hard |
|---|---|---|---|
| **Research workbench** `apps/review/review_server.py` | a bounded LRU of opened `CreditGraph`s with reference counts and a build lock per key; a scope-tier result cache | `/api/compare`, `/api/graph`, shutdown | one thread per request; corpora are rebuilt in place underneath; eviction while in use; daemon threads at shutdown |
| **Round engine** `apps/web/src/game/engine.ts`, `scoring.ts` | phase, step, attempts, strikes, clues | deal, present, choose, useClue, reveal | counters that are per step next to counters that are per round; the tray disables chips across steps |
| **Round generation** `graph-core/connection_rounds.py` and its contract | the rounds pool and its universe | discover, select, publish, validate | answers, distractors, clues, choices and evidence are computed in different places and graded by the engine |
| **Daily calendar** `connection_daily_manifest.py` (graph-core, contracts), `dailyManifest.ts` | the manifest, frozen rounds files, the published site | build, extend, upgrade, freeze, migrate, gate, resolve | pools are regenerated under a published schedule; a migration waits while days pass; a page fetches its files one by one |
| **Daily page and store** `flagship.ts`, `store.ts`, `localDate.ts` | `localStorage`: results per date, streak, totals, seen rounds | load, recordDaily, recordRound, save | several tabs, midnight, time zones, replay guard read once |
| **Connect page** `connect.ts`, `connectUrlState.ts` | picked records, filter, last search, the rendered route, browser history | pick, search, swap, filter, copy link, Back/Forward, shared links | three asynchronous loads, each may fail; everything is editable while a search awaits |
| **Credit graph and one-hop corpus** `graph-core/graph.py`, `catalog/discogs/onehop.py` | Parquet corpora | edges, neighbours, degree, path, expansion | two role lists, an allowlist and a denylist, must agree; caps |
| **Cohort pipeline** `graph-core/cohort_*.py`, `catalog/cli.py` | the files of an analysis directory, datasets by snapshot date | import, resolve, score (here or dispatched), review, promote | any command may be repeated on another snapshot or be killed while it writes; the search is cut short by caps and failures |
| **Record Routes** `graph-core/rounds_generator.py`, `rounds.py`, `record_routes.py` | a pool of routes and its universe | candidates, selection, distractors, contract | a length is read off a corpus that holds only part of the dump |
| **Catalogue expansion** `graph-core/relationship_pool.py`, `score_expansion_candidates.py`, `expansion_policy.py`, `marginal_evaluation.py`, `analysis.py` ... | candidate, score and selection files, the album catalogue | find, score, filter, select, assemble | five commands, each with its own notion of an album's release, artist and performers |
| **Public artifact set** `graph-core/challenge.py`, the builders and gate of `catalog/cli.py`, `contracts` | some twenty JSON files in the working tree and on the site | the runbook of `docs/EXPANSION_PIPELINE.md` | each file is built from others; steps are left out, begun again or interrupted |
| **Job platform** `packages/platform`, `scripts/_platform_client.py`, `scripts/submit_cohort_score.py` | RQ queues, run directories on the worker and the controller | select, stage, enqueue, execute, publish, fetch, remove | work-horses are killed, jobs time out and are requeued, transfers are damaged, clients give up |
| **Runtime deployment** `infra/ansible/playbooks/deploy-platform-runtime.yml`, `scheduler.py`, `runtime.py` | environment file, `current` link, running worker, advertisement | deploy, restart, heartbeat, select | plays stop half way; systemd restarts the worker between two tasks |
| **Dataset fetch** `catalog/discogs/dataset_fetch.py`, `dataset_locator.py` | the cache directory, its `.partial` sibling, the verified marker | verify, fetch, overwrite, resolve | a crash between any two steps; another manifest on the server; a damaged disk |
| Dump download, XML ingestion `catalog/discogs` | files | streaming conversion | a resume after the object changed |
| Research comparisons, Connect's route ranking, explorer pages | none at run time | batch analyses, an algorithm over data, drawing | |
| Infrastructure (swarm, dask), static pages | configuration | | |

How they meet: the **pages** read frozen JSON artifacts and write only `localStorage`
and the address bar; `DailyPlay`'s pages play a round through the engine, of which they
take no more than `RoundContract`, and the date they play is resolved by the calendar
of `DailyManifest`. The rounds the engine plays are those `RoundPool` generates
(`RoundPlay` composes the two). The **platform client** on the controller and the
**executor** on a worker share the run directory and the RQ job; the **play** changes,
under both of them, which release the worker runs and which commit it says it runs.
What a dispatched cohort scoring brings back is promoted into the **cohort pipeline**'s
analysis directory. The pipeline's corpora are what **Record Routes** and **catalogue
expansion** read (`CohortRoutes`, `CohortExpansion`); the resulting catalogue starts
the runbook of the **public artifact set**, whose gate is the last step before a
deployment. The **workbench** opens graphs over the same corpora while they are rebuilt.

What makes each correct:

* graph cache: never close under a reader, serve a hit of the corpus asked for unless its
  build met a rebuild, never leak, come back under the bound, build once per corpus, answer
  every request;
* engine and its rounds: a rating is earned, a step has its own attempts, a dealt round
  is winnable, no true answer is struck but for what the family exclusions hide, the
  evidence is that of the release it names, and a round resolves once;
* calendar: a date a player may have reached keeps its round unless a migration comes too
  late for it, whatever is published resolves, two adjacent days repeat a record only if
  they must;
* daily page: a streak means consecutive solved dates, and no result is lost;
* Connect: what is on screen, what Swap reverses, and what the address bar says are one
  route, of the records selected now;
* cohorts and corpora: a corpus is whole for its frontier, "no path" is an established
  absence, a cap hides little and says so, what is published was approved and documented;
* Record Routes: the length a player is asked to guess is the true one;
* expansion: what a selection reports is what the catalogue build and the graph make of it,
  and it loses no more than records the owner had picked;
* public artifacts: what is live stays, new records are documented, and the gate and the
  order of the runbook catch what is stale;
* platform: a completed directory is one whole execution, what the controller has is
  verified, no finished run is lost, every queued run settles;
* deployment: a run is recorded under the commit asked for, and a finished play leaves
  exactly its own release running;
* dataset fetch: a validated cache is whole, and a whole one is never given up.

## 2. The modules

| Module | Models | Abstract specification | Proofs |
|---|---|---|---|
| `WorkbenchCache` (`MCWorkbenchCache`) | `WorkbenchGraphCache` | | `WorkbenchCacheProofs` |
| `RoundEngine` | `createEngine` and the tray | `RoundContract` | `GameProofs` |
| `RoundPool` | `connection_rounds.py`, both validators | | |
| `RoundPlay` (`MCRoundEngine`, `MCPages`) | the engine over generated rounds | | `GameProofs` |
| `DailyManifest` (`MCDailyManifest`) | the calendar, its gate, pages that resolve | `FrozenCalendar` | `DailyManifestProofs` |
| `DailyPlay` (`MCPages`) | daily pages over one store | (uses what `RoundContract` promises) | `GameProofs` |
| `Connect` (`MCConnect`, `MCPages`) | `initConnect` | | `ConnectProofs` |
| `CreditEdges`, `OneHop` | the edge rules, the one-hop expansion | | `CohortProofs` |
| `CohortScoring` | reaches, verdicts, `find_path` | (`Walks`, `Connected`: the definition) | `CohortProofs` |
| `CohortPipeline` | the files of a cohort, from import to promotion | | `CohortProofs` |
| `RecordRoutes`, `CohortRoutes` | routes; routes on the pipeline's corpora | | `CohortProofs` |
| `Expansion`, `CohortExpansion` (`MCCohortPipeline`) | a round of expansion; on the pipeline's corpora | | `CohortProofs` |
| `ChallengeWalk`, `PublicationSet` (`MCPublicationSet`) | the challenge's walk; the runbook, the gate, the site | | `PublicationSetProofs` |
| `PlatformRun` (`MCPlatform`) | client, queue, executor, staging | `RunContract` | `PlatformProofs` |
| `PlatformDeploy` (`MCPlatform`) | the play, the units, the advertisement | | `PlatformProofs` |
| `DatasetFetch` (`MCPlatform`) | `fetch_dataset`, `verify_dataset`, `resolve_dataset` | | `DatasetFetchProofs` |

A definition whose comment begins `MUTANT of X` is a broken form of `X`,
the way a plausible bug would break it. No specification uses it: `PROJECT.json`
pairs each with the property that must catch it.

### WorkbenchCache
One action per stretch of `checkout` between two lock operations. `Acquire` takes the
build lock and reads the corpus identity (which fails when the manifest goes between two
calls: `IdentityFails`); `Reuse` is the hit, found, promoted and counted in one critical
section; `Miss`, `OpenGraph` (or `OpenRefused`, without a manifest), `FinishOpen` or
`OpenFails`, and `Insert` are the miss; `OpenCursor` and `Release` the use and the
`finally`. Opening takes two steps and `content` collects what the tables held in them, so
a rebuild may fall in the middle. A corpus is the content its manifest describes and the
content its tables hold. A rebuild is `rmtree`, which takes the manifest (`UnlinkManifest`)
and the tables (`UnlinkTables`) in either order, and the rename of what was staged
(`PutInPlace`), which may be what was there before. The identity is a hash of the file
hashes the manifest lists, so a content stands for its identity and brings it back; without
a manifest it is `<name>:unknown` (`Missing`), which is no error. `overtaken` is a history
variable: the requests during whose reading of the corpus a rebuild was under way.
The `OrderedDict` is the function `cached` with the relation `older`; `Victims` says which
idle entries `_evict_excess_locked` deletes. Each thread makes one request, and so opens at
most one graph, which is therefore named by the thread. `ServerClose` and `CloseAll` are
`main`'s `finally`. Not modelled: what the query reads (the relations are views over the
corpus files, so an in-flight query may see both sides of a rebuild; only reuse after it
is claimed).

### RoundEngine and RoundContract
An action is one call of the engine's API. `Tray` and `Enabled` are the chips
`flagship.ts` offers and has not disabled, so the picks are those a player can make.
`RoundAssumption` is what the publishing validator demands (answers nonempty and
disjoint from the distractors, clues eliminate distractors only, the hidden record is
among the choices). `misses` is a history variable.
`RoundContract` is the round seen from outside: dealt, presented, resolved once.

### RoundPool and RoundPlay
A catalogue is albums, their performers and the pairs no round may join. `one_hop_pairs`,
`middles`, `_build_one_hop_round`, `_build_two_hop_round`, `_pick_distractors`,
`ClueLadder` and `Evidence` are the discovery; `_select_diversified` the greedy
selection with its usage caps (a bounded fold); `build_connection_universe_and_rounds`
the two files, and `validate_connection_rounds_artifact` and `connection_rounds_failures`
the two validators. A pick the code makes with a seeded shuffle is the first of the
ordered set: no property depends on which. `RoundPlay` plays any candidate, and what a
player is told right or wrong meets the catalogue (`TrulyAnswers`: every record that
shares a performer with both ends, family or not). `TruthIsRight` is what the documents
claim and `OnlyFamilyIsStruck` exactly what the code keeps of it. Difficulty, wording, ids,
shuffles and provenance are left out.

### DailyManifest and FrozenCalendar
`tree` is the operator's working copy and `site` what is published; each is a manifest
and its rounds files. A rounds file is the pool it says it is and the content of every
round, an entry's fingerprint the content its round had. The commands of the code are
actions of the same names, each with its validations; `Regenerate` and `EditFile` are a
pool rebuilt, or a file edited, under a schedule; `Deploy` passes the gate
(`_daily_manifest_failures`) on whatever day the change is merged; `Discard` is
`git checkout`. A migration is told its `generated_at`, any day the operator hands in, and
cuts over `_MIN_CUTOVER_LEAD_DAYS` after it at the earliest; `migrated` is the first such day
of the migrations that wait for their publication, and `overtaken` the dates players
reached between that day and the publication. A page opens on one of the dates a clock may
show, fetches the manifest and then resolves, with a publication possible in between.
`FrozenCalendar` is the promise: a publication keeps every day that was reached on the day
it is made as of (`asOf`), its own day or the one a waiting migration names.
Diagnostics, expiry reports and the wording of failures are left out. The working
copy of a command killed half way is not modelled: the manifest is one file. Nor is a
`git revert` of a published artifact (`docs/OPERATOR_SETUP.md:1154`).

### DailyPlay
`Open`, `TakeDate`, `ReplayGuard` and `Finish` are the page's four moments: the date is
taken after the first fetches, the guard is read later, the result is recorded at the
end. `recordStreak` and `recordTotals` are `recordDaily` and `recordRound`; load, record
and save run in one callback, so `Finish` is atomic. `ClockMoves` is midnight or a time
zone. Dates are numbers; the UTC arithmetic of `store.ts` on local ISO dates is exactly
`d - 1` on them. A tab may be reloaded at any moment.

### Connect
One action per browser event and one per continuation of `runSearch` (after the graph,
after the evidence, and the late evidence callback of a filtered route). `Quiet` is the
event loop: a settled continuation runs before the next event. `searchGeneration` is
modelled by what it decides, a `live` flag per search and callback that
`NextGeneration` clears. `hops`, `patched`, `results`, `copyLink`, `status`, `disabled`
are the parts of the page the properties speak of; `entries` and `at` are the browser
history, with `syncUrl`'s choice between replace and push. Which route is found is the
relation `Connected`; routes are named by pair and filter.

### CreditEdges, OneHop, CohortScoring
A credit is a record of release, track, scope, artist and the set of its role's
components. `edge_credits` and `EdgesOn` are `credit_edges_sql`: release-scope
collaborators, co-performers of a track, billed artists, the caps per release and per
track, compilations, same-recording tracks, quoting roles and excluded placeholders;
`EvidenceRelease` is the collapse to the lowest release, `classify_hop_quality` the
warnings of a hop. `OneHop` keeps every release on which a frontier artist performs, by
the other role list, and refuses to finish if its self-check fails. `CohortScoring`
expands each seed's reach, meets two reaches, and reads a verdict and a path off them;
`find_path` is the breadth-first search the tests compare it with, `Walks` and
`Connected` the definition both are checked against. The options are the commands'
defaults: no format policy, performing roles only, no evidence preference (ADR 0059's
changes only which release is cited).

### CohortPipeline
A file is absent, torn or holds its content; commands may run in any order, on either
snapshot, while datasets are expanded anew under the same date. `Next` is
`expand_one_hop`, `import_cohort_source`, `resolve_cohort`, `score_cohort_to_directory`,
`submit_cohort_score` (which takes a copy of what it scores) with `_promote_outputs`
later and file by file, `review` and `promote`. A corpus of a dump and a seed is the
function `Corpora`. A hinted release leads to its master's main release, or to the lowest
pressing the corpus has (`PressingOf`). Status, preflight and editorial reports only read
and are left out.

### RecordRoutes, CohortRoutes, Expansion, CohortExpansion
These are pure commands over a corpus, so they are operators, evaluated on whatever
corpora the pipeline reaches: what a build would publish if it were run now.
`RecordRoutes` has the candidates, the performing-role gate, bridges, selection,
distractors, the universe and both contracts. `Expansion` has the three candidate lists,
eligibility by release and master, scores, the automatic lanes of the policy, the greedy
selection by new edges, the assembly of the lanes and the graph's anchors. Its loops over
queries, albums, candidates and picks are recursive functions from the list before the
loop to the list after each turn (`WithMatch`, `WithResolved`, `WithCandidate` and
`SelectNext` are the turns), and `Ranked` is the sort by score and master.
`CohortExpansion` composes them into a round, with every choice `any_value` has for a
co-billed release and with or without the owner's own picks. `RoundsFrom` are the rounds a
corpus admits: `PicksAreKept` is what the selection's docstring claims of them, and
`SelectionIsReal` what holds, with `PickedByTheOwner` exactly the picks that are dropped.

### ChallengeWalk and PublicationSet
An artifact is what the others and the gate can tell of it, and a version string, being
a hash of content, is that content. `Runbook` is the order of
`docs/EXPANSION_PIPELINE.md`; `leave_out` skips a step, `begin_again` restarts a pass,
`die` interrupts a builder between two files, `publish` runs the gate and the
contributor continuity check. A corpus is a generation number: corpora widen only and
old ones stay readable. `ChallengeWalk` is the candidate walk: `WalkRounds` gives every
round the first open pair of each album, in catalog order, until no pair is open; what is
searched first (`ahead`) is the first round and the carried pairs, up to the budget of
paths. The walks of all catalogs are one table, computed once. A first catalog has albums
of two artists at least, since the command refuses fewer. Scores, art, prose, the privacy scan
and key sets are left out; an already-published lane is always passed, the frontier cap
is off and the eligibility policies are fixed, as in the runbook.

### RunContract, PlatformRun
A file is the number of the execution that wrote it, so "whole" means that all numbers
agree. `Submit` is select, stage and enqueue; `PollFinished`, `PollFailed`, `TimeOut`
and `ClientStops` are the ends of `enqueue_and_wait` and of the ansible calls;
`FetchOutput` may receive a damaged file and verifies it. On the worker, `StartHandler`
is `execute_run` up to the handler, `WriteOutput` the handler, `SaveResult` and
`Publish` are `publish_completed_run`, `Return` is RQ storing the result. `Raise` is any
exception including RQ's job timeout, possible even after the publication; `Crash` is
a killed work-horse and `Requeue` the operator. Redis losing data is not modelled.

### PlatformDeploy
The play is four steps (`InstallRelease`, `WriteEnv`, `SwitchLink`, `Restart`), any of
which may be the last (`PlayFails`). `StartWorker` is the unit's ExecStart: the process
takes `worker.env` and the link as they are. Runs are submitted for the commit that
was last advertised and executed by the worker's environment's commit; `ran` is the
history of what code really did it.

### DatasetFetch
Directories are records of files, manifest and marker; contents are values, so that a
file of the right name and the wrong content exists. `Fails` covers a failed download
and the death of the process at any step, `RemoveEntry` is `rmtree` an entry at a time,
`ServeNew` another manifest under the URL, `Damage` the disk.

## 3. The runs

All passing runs explore the whole state space of their instance.

| Run | Instance | Distinct states | Question |
|---|---|---|---|
| `workbench_cache` | 3 requests, 2 keys of 1 corpus, cache of 1, 2 contents; 1 rebuild, or 2 under requests for 1 key | 1,500,644 | is a graph ever closed in use, leaked, built twice, served for another corpus; does the cache settle |
| `workbench_liveness` | 3 requests, 1 key, 1 rebuild | 292,230 | is every request answered |
| `pages` | engine: 7 performers, 5 albums, 6 catalogues, every round each of them publishes; daily: 2 tabs (symmetric), 3 dates; Connect: 3 records, 1 filter, 2 history entries, 3 waiting searches or callbacks | 2,813,925 | are ratings earned, rounds winnable, verdicts true of the catalogue, rounds resolved once; streaks and lost results; one route on screen, in Swap and in the address bar |
| `daily_manifest` | 5 rounds of 2 pools, 2 contents, 2 URLs, 2 generations, 2 days, 5 commands | 809,446 | which reached dates keep their round; does what is scheduled resolve |
| `cohort_pipeline` | 5 artists, 2 snapshots of 2 dumps each, 2 seeds, 3 pages, 5 commands | 251,321 | corpora, verdicts and promoted routes; Record Routes and expansion on the same corpora |
| `publication_set` | 7 albums, 2 corpora, 1 slip, 1 round | 290,772 | what stays published, what the gate and the order of the runbook catch |
| `platform` | runs: 2 of 2 outputs on 1 worker, 2 executions each; deployment: 2 plays of 3 commits, 2 runs; datasets: 2 manifests of 2 and 3 files, 2 damages, 2 changes on the server | 130,614 | wholeness, verification, loss, the contract, progress; commits asked for, recorded, deployed and running; validated means whole, whole is kept |
| `round_truth`, `round_evidence`, `connect_lockout`, `daily_late_migration`, `cohort_kept` | the engine, or Connect, of `pages`; `daily_manifest` and `cohort_pipeline` as above | | one statement of a document each, which the code does not keep (section 6) |

Why the bounds are enough to be interesting:

* **Parts that do not meet.** The three parts of `platform` share no variable, nor do the
  three of `pages`: `MCPlatform` and `MCPages` move one of them in a behaviour and leave
  the others as they began. That shows every state of each without the product of all,
  which would show nothing more.
* **Workbench.** Three requests and two keys in a cache of one: a hit, a build and an
  eviction can overlap, and both cached graphs can be pinned at once. Two rebuilds over two
  contents let an identity come back; `OneViewOrOneRebuild` keeps the second one to
  requests for one view. The proofs cover any number.
* **Rounds.** The six catalogues have one-hop and two-hop pairs, a family pair that is
  excluded, middles that are not unique, choices that run out of easy distractors and
  clues that eliminate. Two `ASSUME`s of `MCRoundEngine`, evaluated on every run, go
  further than the six: over some 24,000 small catalogues, what `RoundPool` publishes
  passes both validators (`PoolsAreValid`) and consists of candidates
  (`PoolsAreCandidates`).
* **Calendar.** Five rounds in two pools are enough for an extension, an upgrade, a
  freeze, a regeneration that drops scheduled rounds, and a migration with a published
  day on each side of it, before or after days pass. `MaxCommands` bounds the operator's
  commands and `LastDay` the days.
  Generations are symmetric. The page fetches its manifest and resolves in two steps.
* **Daily page.** Three dates let a streak be built, broken and built again; two tabs
  give every order of two finishes, and a tab can be reloaded without end.
* **Connect.** Two history entries with the oldest dropped, as the browser does: replace,
  push, Back and Forward all occur. `MaxHistory` is that bound and `MaxPending` the
  number of searches and callbacks waiting at one time: three let a current one overlap
  two superseded ones. With three entries and two waiting the same properties hold
  (239,310 states).
* **Cohorts.** Two snapshots with two dumps each, so a dataset may be rewritten under
  its date; the seeds differ in an artist, so a corpus is whole for one and cut for the
  other; frontier caps of 1 and 4 cut a search short and do not; three hops are the
  longest route the scorer meets in the middle. `MaxCommands` bounds the commands,
  `MaxFailed` the queries that fail in one scoring, `MaxPairs` a pages list. The
  contract of Record Routes is also evaluated for every assignment of own albums on
  every corpus (`PoolsKeepTheirContract`).
* **Public artifacts.** Of seven albums five are live, one brings a new artist, one is
  the second album of an artist who has one: a walk has several rounds, the budget of
  paths is tight, and it is inherited, given (`--max-paths` 7) or derived.
  `MaxSlips` bounds the departures from the runbook and `MaxRounds` the rounds of
  expansion. An interrupted pair of files is met by a later step of the same pass.
* **Platform.** Two runs on one worker: the second waits behind a run that crashes, times
  out or is requeued; two executions are a first try and a retry over what it left.
  `MaxAttempts` caps requeues. Two plays: one that fails half way and one after it;
  `MaxPlays` caps them.
* **Datasets.** The server changes twice, so a fetch can meet the staged files of another
  manifest and the first manifest can come back. `MaxPublish` and `MaxDamage` are bounds.

Deadlock is checked except where the system stops by design or a bound is spent: all
requests answered, a round revealed, all runs settled, the last command or day. That a
run or a request which waits is never stuck is what the liveness properties say.

**Fairness.** `WorkbenchCache` assumes weak fairness of every request thread's own
steps: the operating system schedules threads, and Python's locks are freed by their
`with` statements. A `CreditGraph.open` that never returns is excluded. `PlatformRun`
assumes weak fairness of the worker taking its next job (systemd keeps the worker up)
and of an execution going on (RQ's job timeout ends an endless handler, so every
execution comes to `Return` or `Raise`). Nothing is assumed of clients, crashes,
requeues or the operator. No other module states liveness: the remaining
parts move only when an operator or a visitor does.

**Composition.** Two specifications of single components are combined into larger ones by
`RoundPlay` (the engine over generated rounds), `CohortRoutes` and `CohortExpansion`
(two batch commands over the pipeline's state). `PlatformRun` is shown to implement
`RunContract` and `RoundEngine` `RoundContract` (`ContractHolds` of `platform` and of `pages`);
`DailyManifest` implements `FrozenCalendar` (`CalendarIsFrozen`).

## 4. The proofs

All are for every value of the constants, under the named `ASSUME`s of the modules.

* **`WorkbenchCacheProofs`** (`CacheAssumption`: threads and keys are finite sets).
  `CheckoutsSafe` proves `NoUseAfterClose`, `TypeCorrect` proves `TypeOK`. A close is
  decided by `refcount = 0`, so the invariant must say what a count means:
  `RefsCounted`, it is the number of checkouts holding the entry. That is preserved
  only because a graph under construction has no other holder (`BuildPrivate`), what is
  cached is fully built, under its key and not stale (`CachedBuilt`), and the entry a
  miss remembers is still an inserted one of the same key (`ExistingOld`);
  `OpenWhileUsed` is the conclusion in inductive form. `HoldersFinite`, `HolderAdded`
  and `HolderRemoved` count holders.
  Over it stands a second invariant, `LockInv`, about the build lock: a builder holds
  its key's lock and what its miss found is still cached or was evicted (`Exclusive`);
  an inserted graph is cached, stale and held, or closed (`Reachable`); what a miss
  found has another identity than the one it read (`Differs`); and where no rebuild came
  between, things are what they are called (`Clean`): outside a rebuild manifest and
  tables agree, a request that met none finds its corpus as its identity says, a graph
  whose build met none holds just that, and a hit is on the identity read. Identities may
  recur, and nothing is said of their order. From these `NothingLeaks`,
  `BuildsAreShared` and `HitsAreFresh` prove `NoLeakedConnection`,
  `OneGraphPerIdentity` and `HitIsFresh`. `OverflowIsInUse` proves `OverflowIsPinned`
  by counting (`EvictionSettles`): take an idle entry the eviction spared with fewest
  idle ones before it; all of those were evicted, and they are as many as the excess.
* **`GameProofs`**, the engine (`RoundAssumption`). `CleanIsEarned` and `AttemptsAreFair`
  prove `RatingEarned` and `AttemptsPerStep`. The invariant adds `Progress` (the
  solved steps are those before the one in play), `MissesCounted` (the engine's
  counter is zero exactly when nothing was struck) and `AttemptsPaid`.
  `RoundsAreWinnable` proves `Winnable` over a second one, `Spared`: strikes and
  clues only ever take distractors and wrong records.
  `EngineKeepsContract` proves the refinement `ContractHolds`: every engine call is a
  step of `RoundContract` or a stutter (`ResolveRefines` is the last pick).
* **`GameProofs`**, the generated rounds, discharges that assumption.
  `CandidatesAreValid`: whatever the catalogue, a candidate satisfies what
  `RoundEngine` assumes of its round. `PublishedPairIsValid`: a universe and a rounds
  file made from any subset of the candidates pass both validators.
  `VerdictsFollowTheCatalogue` proves `OnlyFamilyIsStruck` for the engine over any such
  rounds: what it accepts the catalogue supports, and of what the catalogue supports it
  strikes only a middle that the family exclusions kept apart from an end, the case of
  `round_truth`. That the selection returns candidates is an induction over a fold; it is
  left to `PoolsAreCandidates`.
* **`DailyManifestProofs`** (`ConstantsFit`, `NothingIsNothing`).
  The scheduler's forward pass is a recursive function; `PassDefined` unfolds it, and
  `InductionUpTo` is the induction over its index (a least counterexample, from the
  well-foundedness of the naturals). `PassForces` is what the pass achieves: it only
  reorders, and where two neighbours conflict, so does everything that could have been
  put there. `ShuffleOrders` and `QualityOrder` carry this through the shuffle and the
  boundary with the day before, `NewEntriesDealt` to the entries a command appends.
  The invariant `IInv` has three parts. Of every manifest, in the working copy or
  published: it is `Sane` (dates are contiguous, no round twice, generations
  distinct, each entry in one of them), `Drawn` (an entry is an eligible one-hop round of
  its generation's pool, and so the pool still knows what was free), and `Forced` (a
  repeat is forced by what was free that day). Of the site: it is `Gated`, what the gate
  accepts. Of a page: it is open only on a site with a calendar. Every command but the
  publication leads to a step of `Edits` (only the working copy changes, to a manifest
  that has these), with one lemma per command (`BuildEdits` to
  `EditFileEdits`), so the invariant is preserved once, in `EditsKeepIInv`.
  `TypeCorrect`, `RepeatsForced` (`RepeatsAreForced`) and `GateMeansResolved`
  (`ScheduledResolves`) follow from it.
  What a player saw needs more (`FrozenInv`): the working copy keeps each published day
  but those at or after the cutover of a migration that waits (`KeepInv`); what a page
  holds, and what was shown, is for its reached date what the site's calendar says, if no
  migration overtook the date (`PageInv`, `ShownInv`). `OnlyLateMigrationsRewrite`
  (`OnlyOvertakenDatesChange`) and `CalendarFrozen` (the refinement `CalendarIsFrozen`, a
  publication to a `Publish`, a midnight to a `Tick`, a command to a `Name` of the day it
  is as of, all else to a stutter) follow, however long a migration waits and whatever day it names:
  the calendar is published as of that day, and what it keeps are the days reached then.
  Without the exception `DateKeepsItsRound` is refuted (`daily_late_migration`).
* **`GameProofs`**, the daily page (`DailyAssumption`). `StreakIsEarned` and `ResultsAreKept` prove
  `StreakNeverInflated` and `NoLostResult`; with the types they are inductive as they
  stand, and everything is in `FinishIInv`. `StreakIsExact` proves `StreakExact` from
  `ExactInv`: a date has a result only if it was played, the streak's last date was
  played, and in order none after it was, so a gap before a new date is a real one.
* **`PlatformProofs`**, a run (`PlatformAssumption`). `CompletedIsWhole` proves
  `CompletedWhole`. The invariant says that what an execution finds in its staging
  directory is its own (`OwnStaging`), which holds because a leftover directory keeps
  the handler from starting. A second invariant, `LifeInv`, ties the parties together:
  only queued jobs stand in a queue, each once (`QueueInv`), so a finished job is never
  executed again; an execution that published left the files it will report
  (`JobInv`); a client fetches from a finished job only, and keeps what it verified
  (`ClientInv`). `LocalIsTheReport` and `ResultsSurvive` prove `LocalIsVerified` and
  `NoResultLost` from it, and `RunsKeepContract` the refinement `ContractHolds`:
  `PublishCompletes` and `ClientDelivers` are the contract's two steps, and a remote
  directory that is removed was delivered (`RemovalStutters`), so that the contract
  does not see it.
* **`PlatformProofs`**, the deployment (`DeployAssumption`). `PlaysTakeEffect`,
  `OnlySystemdParts` and `CommitsAreHonoured` prove `DeployedMeansRunning`, `OneReleaseRuns` and
  `RequestHonoured`. The first two need `PlayProgress` (each task left behind what the
  next one builds on), without which a restart could start anything; the third needs
  that only a submitted run is executed.
* **`ConnectProofs`** (`ConnectAssumption`). `ScreenIsSelected` and `BackGoesBack` prove
  `ShownIsSelected` and `BackLeavesPair`. `LiveInv` says that at most one search is
  live, that it is for the selected records and that nothing is shown while it runs;
  `PageInv` that the route on screen is the last search's and the address bar's, which
  is what Swap reverses; `HistoryInv` bounds the history and `FreshInv` says that
  nothing happens before the catalog is there. `SyncedHistory` is the lemma about
  `syncUrl` that both theorems turn on: it replaces an entry of the same pair and
  pushes over another.
* **`CohortProofs`** (`RolesAgree`, `HopsFit`, `ArtistsAreIds`, `PipelineFits`,
  `DumpsFit`; `RouteTargetsFit` for the routes; `ExpansionFits` and `MastersFit` for the
  expansion), for any dumps. The invariant is about files that may be older than one
  another: whatever resolution is read, the one in place or the copy a run took, has one
  album an artist (`ResolvedOK`), and a scoring names, for every pair, a verdict of the
  corpus it was made on (`ScoredOK`, `Judged`), though that corpus may be gone.
  `ResolvesOne`, `OrderedOne` (ranks) and `ScoredPairs` follow the recursive functions of
  resolution and pairing. `FrontiersAreWhole` proves `FrontierIsWhole`: whoever
  an edge rule joins performs on the release by the expansion's rule (`JoinedPerform`,
  where `RolesAgree` is needed), so every release that shows the edge is retained, and with
  all its credits (`RetainedWhole`). `VerdictsHonest` proves `VerdictsAreHonest`.
  `ChainLeads`, `PathsJoin` and `BestPath` say that what is read off two reaches is a path
  of the reported length, and a shortest over their meetings; `WalksMeet` that a walk whose
  middle no cap hides makes the reaches meet within its length; `SearchesAgree` compares
  with the breadth-first search, by a walk to whatever it visits (`VisitedByWalk`) and a
  visit to whatever a path reaches (`PathIsVisited`). `HopsFit`
  bounds the length to four (the commands' default is three): the reaches of the model
  are two hops deep at most. `PublishedEvidenced` proves the action property
  `PublishedIsEvidenced`: the path of an approved pair is a walk of the corpus it was
  found in, whose neighbours are neighbours in the dump of that date (`CorpusNeighbors`).
  `RoutesTrue` proves `RoutesAreTrue`, for the routes a build would publish over any corpus
  the pipeline reaches. The invariant links a corpus in place to its dump and seed
  (`CorporaLink`), so that an edge at a frontier artist is an edge of the whole dump
  (`EdgesOn`); the performing-role gate leaves a one-hop pair with an edge and a two-hop
  pair with none. That the greedy selection returns candidates, none twice, is an induction
  over the recursive function `_select_diversified`.
  `SelectionsAreReal` proves `SelectionIsReal`, which holds five steps to one another that
  each have their own idea of an album's release and artists. Masters of a dump are
  finitely many ids, its credits are finite and on releases with a master (`MastersFit`);
  the rest is derived. `Listed` is what the three candidate lists have in common: one
  album a master, none published, each on the release the catalogue would cite and may
  show (`CitedIsAllowed`), so that what was scored is what will be anchored
  (`FilteredJoins`). `WellPicked` is the invariant of the greedy loop: a pick is of an
  artist not picked before (`PicksAreNew`) and adds the edges told, no fewer than any
  other that was open then; a best one exists because the key orders the finalists
  strictly (`AheadOrders`, `BestFinalistIs`). `Grown` and `Filled` say what a lane leaves of the list before it,
  and `NextKeeps` combines them: whatever displaces a pick has its master or its artist.
  A pick is left out exactly if the owner picked its master (`OfTheOwner`), and then it is
  told to add no edge. Since scopes join
  (`ScopesJoin`), the edges told never rise (`MostFirst`) and add up to the growth of the
  scope (`ReportedInAll`).
* **`PublicationSetProofs`** (`WalkFits`, `PublicationFits`). What is compared by no check
  holds because catalogs only grow. `OrderedEnumerates` (ranks in a finite set of numbers),
  `LaneDefined` and `LaneKeeps` (the lane is a recursive function, unfolded and followed by
  the same induction as above) give `CatalogGrows`: an assembled catalog keeps the one it
  started from. The invariant is `CatalogInv` (what is live is in the tree's
  catalog; the index's catalog is in the routes', and that in the tree's), `WritingInv` (a
  second file waits only between its own step and the next, and is what the first one is),
  `Gated` (what is published passed the gate) and `PassInv` (in a pass without a slip, each
  artifact built so far is still what its sources make it, because no later step writes a
  source of an earlier one). `Made` says of the ten builders of one file what the
  invariant needs of their artifacts, so that `WriteKeepsIInv` is one proof for all.
  `RoutesFollow`, `PublishedWhole`, `AlbumsStay` and `FullPasses` prove
  `RoutesFollowTheCatalog`, `PairsArePublishedWhole`, `PublishedAlbumsStay` and
  `FullPassIsConsistent`. `ChallengeInv` adds what is known of a challenge, in the tree or
  live: it is what the walk over some earlier part of the tree's catalog found within its
  budget. `AlbumsAreDocumented` (`AlbumsDocumented`) and `PairsStay`
  (`PublishedPairsStay`) follow from facts about the walk, an induction over its rounds:
  it claims every pair that is not family exactly once, its first round leaves no album
  without a claim, and at most the first round and the other carried pairs are searched
  before a carried one. So a budget that covers the first round documents every album that
  can be, and one that is not smaller than the published challenge's keeps its pairs.
* **`DatasetFetchProofs`** (`DatasetAssumption`). `ValidatedCachesAreWhole` and
  `WholeCachesAreKept` prove `ValidatedIsWhole` and the action property `WholeIsKept`.
  The invariant is `Staged` (a file the fetch has looked at is staged whole; manifest
  and marker come after all of them) and `NothingToLose` (a fetch runs only over a
  cache that is not whole and, unless the disk damaged it, that no job takes for
  validated), so neither a crash nor the removal of the old cache can cost anything.

**Only model-checked.** Liveness (`RequestsFinish`, `QueuedRunsSettle`): the prover does
not handle `ENABLED` and fairness. Of the induction over data: the library's induction
theorems take an operator, which the installed provers cannot instantiate, so only a
recursive function whose unfolding can be proved (as `PassDefined` and `LaneDefined` do)
is within reach, by a least counterexample; the community modules' folds are not. No
module declares a `RECURSIVE` operator. So every invariant and action property of a
passing run is a theorem, and the two liveness properties are not. `ASSUME`s that
evaluate an operator over small inputs (`PoolsAreValid`, `PoolsAreCandidates`,
`PoolsKeepTheirContract`) are of course checked by TLC and not used in any proof.

## 5. Every property has a mutant

For every property of a passing run `PROJECT.json` names a plausible bug in a mapped
definition that makes TLC find it violated under the same configuration: a build lock
that does not exclude, a cached graph reused whatever its identity, an eviction on the insert
path only, a streak compared with the wrong
day, a record picked without superseding the search under way, a worker restarted before
the link is switched, staged files reused by size, a migration that cuts over tomorrow,
carried pairs that displace an album's first, a budget inherited from a smaller
catalogue, a registry of the documented releases only, a capped search reported as
finished, a two-hop route between artists who have a one-hop one, and so on.

## 6. Where code and documents part

Five have a run that TLC refutes; `PROJECT.json` quotes both sides.

1. `NeverLockedOut` (`connect_lockout`): choosing another role filter during a search
   leaves Search and Swap disabled until a picker is edited (`connect.ts:1375`).
2. `EvidenceIsOfItsRelease` (`round_evidence`): a two-hop round reads the two
   credit rows of a pair as if its first album were always the one with the lower id, so
   rows are exchanged and show a release next to the credits of the other
   (`connection_rounds.py:383`). Of the published two-hop rounds 123 of 200 have such
   rows, 282 of 1,876 rows in all.
3. `TruthIsRight` (`round_truth`): a two-hop middle is not unique "across the entire
   eligible catalog" (`data/contracts/game-rounds-v1.md`): pairs excluded as family are
   missing from `one_hop_pairs`, so a record that really joins both ends, one of them as
   family, can be a distractor and is struck, as in 9 of the 200 published two-hop rounds
   (`conn-0e5bd4a623` is one).
4. `DateKeepsItsRound` (`daily_late_migration`): the two days a migration keeps clear
   count from the `--generated-at` it is given, and no one compares that with the day of
   the publication; a migration that waits, or names an older day, changes dates players
   have opened, against "can never" in `connection_daily_manifest.py:870`.
5. `PicksAreKept` (`cohort_kept`): an owner's co-billed album can be selected again under
   its other artist, and is then dropped by the assembly, against
   `marginal_evaluation.py:182-184`: the selection knows the baseline's artists and not the
   masters of the owner's picks.

Two more configurations, beside the runs, refute a sentence of the documentation each:

* `MCWorkbenchStale.cfg` checks `StaleNeverReused`, that a graph is "never silently reused
  once" its corpus is rebuilt (`review_server.py:799-802`). Identities are hashes of the
  files' digests and recur, for a corpus rebuilt back to earlier content, and for any
  whose manifest is missing, in the moment of its replacement (`<name>:unknown`). A graph
  opened across a rebuild can thereby be reused as if it were of one corpus.
* `MCWorkbenchShutdown.cfg` checks `NothingCheckedOut`, that at shutdown nothing is checked
  out (`review_server.py:916-920`). `close_all` closes graphs in use: the request threads
  are daemons that `server_close` does not join (1272). `NoUseAfterClose` is about
  eviction and rebuilds, before the shutdown.

Others were met while modelling and are part of the models, without a run:

* Two tabs opened before either finishes both record the daily, and the second solved
  result of one date resets the streak to 1 (`flagship.ts:443`, `685`). `StreakExact`
  names that case.
* A worker restarted by systemd between the environment and the link task records a
  commit whose code did not run; `OneReleaseRuns` shows that only such a restart can.
* After a re-search without a route, Swap exchanges the records and Copy Link still
  copies the old pair (`connect.ts:894`). The status line stays at its loading message
  when a pick supersedes a search, and `connect.ts:1280-1283`, that Swap is unreachable
  during a search, does not hold: a pick enables both buttons again.
* `build_rounds_v1`'s docstring says only endpoints appear in `universe.albums`;
  distractors do too.
* A verification that fails leaves an older marker in place, which the docstring of
  `verify_dataset` (83-85) does not quite say.
* The registry of evidence releases is compared with the catalogue's version only
  (`contracts/evidence_release_registry.py:146`), while its document (21-23) has it fail
  when stale; `FullPassIsConsistent` is what the order of the runbook gives instead.
  `connection_guesser` is not compared with the catalogue at all, and
  `album_hop_distances` names no contributor index version.
* `EXPANSION_PIPELINE.md:405` says that `make check` will not catch stale Record Routes;
  the index build before it does (`RoutesFollowTheCatalog`). Its greedy selection
  (196-198) is said to stop when nothing adds value; the code stops at the count. Step 4
  of the runbook omits `--expansion-policy`, which the model takes as given.
* The relationship pool counts any release of a master while scoring reads the selected
  main release; "new" edges are relative to the baseline albums' own releases; the packet's
  `proposed_addition_count` counts a master in two buckets twice; no code reads the
  policy's `collection_relaxation`.
* `match_albums` does not deduplicate masters: two queries for the two artists of one
  record produce one id twice, which the contract refuses.
* The help of `--existing-rounds` differs from what `validate_v2` accepts; the resolver
  prefers a loaded live file of the same provenance over the frozen one; two generations
  may have the same pool triple.
* `data/contracts/record-routes-v1.md` describes `artifact_version` as a hash of the rounds; the
  code hashes albums, routes, releases and artists. A route's true length is guaranteed
  only if an endpoint is of the corpus's frontier, and `build-record-routes` does not
  compare the snapshot dates of catalogue and corpus. "No known path" of a distractor is
  checked against the first album only; the two artists of one record abort the build.
* In a cohort, the artist of a reviewed pair may differ from the album's after another
  resolution (promotion compares date and URL); a co-billed album listed twice is paired
  with itself; approvals name pairs and not paths, so a rescoring after the review
  publishes hops nobody reviewed; and a corpus expanded again under its date cannot be
  told from the first. The guarantee stated near `cohort_connectivity.py:420` holds for
  at most three hops. `cohort-pipeline-status` looks at presence only, so a torn file
  makes it repeat its advice. A seed release without a performing credit aborts the
  expansion; the two hubs of the expansion are fewer than the graph's excluded
  placeholders, so a placeholder can be of the frontier; and a hop in the
  `same_recording` scope is not always so flagged (`contracts/cohort.py:12`).

## 7. Not modelled, and why

* **Route search and ranking** in the browser (`pathfindingGraph.ts`,
  `recommendedRoute.ts`): an algorithm over data; `Connect` takes its answer as a relation.
* **`ScopeTierCache` and the HTTP handlers**: a memo of a pure function and request
  parsing; the memo's hazard is listed.
* **Dump download, XML ingestion**: streams and files of the outside world. A resumed
  download that appends to another file's beginning is left to its checksum.
* **Practice sets, seen rounds, the store's schema migration; two concurrent dataset
  fetches**: not modelled yet; the plan has them.
* **Status, preflight and editorial reports; research comparisons; notebooks**: read only.
* **Within modelled components**: selection scores are compared exactly and not as
  floats; albums without a master (none of the 217 published), coverage deltas, bridge
  span, exploration tier, private weights and `--limit` of the expansion; the validators
  of the search index, hop distances and prominence beyond the versions and ids they
  compare; the writing of the manifest file itself. The legacy `build-rounds` shares
  `RecordRoutes`' generator.
* Formatting, wording, layout, art, the Astro pages, infrastructure configuration.

## 8. Plan

Order: what can lose or falsify data under concurrency first, then pages, then the
pipelines that make the data. Done: all modules of section 2 with their runs, and the
proofs of section 4. Next, in this order:

1. New modules: `ScopeTierCache` with rebuilds that roll back, practice sets with their
   seen rounds, two concurrent dataset fetches, a reference definition of the ranked
   route.
2. A composition of `PlatformRun` and `PlatformDeploy`: runs queued over a redeployment.
