# Formal models of Sales Journal

Sales Journal is a FastAPI service on PostgreSQL. Operators import 1C sales
reports, and the service keeps several projections of the sales: catalog
attributes fetched from VRCatalog, seasonality profiles, RFM segments and
analytical signals that end up as tasks in a telephony system. Nearly
everything that can go wrong goes wrong *between* transactions: a worker reads a
row, waits for a network or a lock, and writes; a process dies; an import
commits in the middle; two parties change the same control row.

The TLA+ modules here describe that part of the code. TLC checks them on small
instances; TLAPS proves most of their safety properties for every instance. Paths are
relative to the repository, and `app/` stands for `src/backend/app/`.

    tlc -workers 2 -config catalog_data.cfg MCCatalogSync
    tlapm SeasonalityWorkerProofs.tla

## 1. Inventory

| Component | State | Operations | What makes it hard | What makes it correct |
|---|---|---|---|---|
| **Catalog synchronisation** `services/catalog_sync*.py`, `catalog_sync.py`, `catalog_worker.py` | `catalog_sync_control`, `catalog_sync_state`, `catalog_lookups`; advisory locks 734190117 (run) and 734190118 (leader); locals of the worker | web `start`, `pause`; `serve`, `boot`, `heartbeat`, `run_request`, `prepare`, `synchronize`, `refresh_batch`; CLI `run` | HTTP between reading and writing a page; three writers of the control row; crashes; broken lock sessions; imports in flight | no sale item skipped, cursors only advance, a command never outlives a boot and is always settled |
| **Seasonality** `services/seasonality_worker.py`, `seasonality_storage.py`, `seasonality.py` (commands) | `seasonality_state`, `_months`, `_store_months`, `_profiles`, by generation; locks 734190221 (leader), 734190220 (source), 734190117 (catalog) | `run_batch` (begin, scan, calculate, cleanup), `worker`, `enable/pause/rebuild/run/scheduled`, `attach` by reports | additive sums under repetition, imports and deletions between batches, reports that read in three statements, change of the month | sums count every sale once, a report never uses a history that never was, pause stops, an enabled worker gets ready |
| **Imports, deletions** `services/imports.py`, `importer/parser.py`, `routers/imports.py`, `routers/sales.py` | `import_batches`, `sales`, `sale_items`, temporary files | upload, background `process_import` (one commit per row), delete | a crash leaves `processing`; fingerprints are looked up and inserted in two steps; tasks queued before the commit | no sale twice, the revision of the source moves with every change |
| **FTP autoload** `services/ftp_autoload.py` | FTP directory, `auto_import_logs`, process-local lock | list, download, import, delete or rename | crash between import and deletion of the remote file, retries | a file goes only when its sales are stored |
| **RFM snapshot** `services/rfm_snapshot.py`, `rfm.py` | snapshots and an active pointer; locks 734190222, then 734190220 | rebuild after imports, coalescing | overlapping rebuilds, failures that are only logged | at rest the active snapshot is that of the sales there are |
| **Analytics signals** `services/analytics_signal_*.py`, `analytics_worker.py`, `churn_pilot.py` | runs with checkpoints, episodes and their change rows, active and published pointers; lock 734190223 | scan, evaluate, supersede, publish, `record_failure`, paged report | resumption after the source changed, late failure records, two kinds of worker | a published run says what an atomic evaluation would have said |
| **Churn automation** `services/churn_schedule.py`, `analytics_automation.py`, `scripts/run_churn_automation.py` | policies with revisions, jobs, releases, receipts; lock 734190225; budget and tasks of the receiver | tick, authorize, page, acknowledge, retry, host script | lost answers, a page sent twice, revocation in flight, midnight | the ledger is true, at most the page in flight goes out late, the day's job ends |
| **Product analytics cache, admission** `services/product_analytics_cache.py`, `product_analytics_runtime.py`, `report_execution.py` | LRU with a generation; waiters, an asyncio lock, a file lock | cached load, invalidate, evict; `heavy_operation`, `run_cpu` | invalidation during a load, cancellation and timeouts of waiters | one heavy operation at a time, an answer has every change its process was told of; sections 3 and 5 say where the code falls short of both |
| **Scenarios** `services/scenarios.py` | scenario runs | hourly retry plan, mail | a crash after the mail and before the commit, removal during a pass | one mail per scenario and date, but for those that could not be recorded |
| **Access devices** `routers/access.py`, `deploy/mtls-helper/service.py` | devices; certificates, revocation list and packages of the helper | issue, register, download, revoke, replace, delete | two stores without a common transaction, timeouts | a device shown as revoked stays outside |
| **Start, migrations** `src/backend/start_backend.py` | `alembic_version`, tables, schema lock 734190249 | check, start, migrate | two containers, a lost session | only checked schemas are served, one migrator |
| **CatalogVR client** `services/vrcatalog.py` | directories with locks, users and errors; bounded cache of products | `_cached_integration_get`, `get_catalog_batch_info` | cancellation of waiters and of threads' owners, failures of single batches | one request per list, no failure cached as an answer |
| **Pure algorithms** `services/seasonality.py`, `rfm.py`, `inactivity.py`, `report_periods.py` | none | windows and advice, segments, cycles | the turn of the year, leap days, ties | agreement with what the documents promise |
| Reports, PDF, integrations, frontend, PHP plug-in | none of their own | queries, formatting, foreign services | — | not modelled |

**How they interact.** Imports and deletions hold the source lock 734190220
shared; a seasonality or signal batch *tries* it exclusively and gives up when
it is busy; RFM snapshots and releases wait for it exclusively. Seasonality
also takes the catalog run lock, so a catalog run and a seasonality batch never
overlap. Every import and deletion advances `seasonality_state.source_revision`
and invalidates the local report cache; every saved catalog check advances
`catalog_sync_state.revision`, by which report caches in other processes notice
it. Signals decide by the source revision whether an answer still holds, the
churn automation calls the signal worker for a day and hands its published run
to the receiver. The web never calls a worker: it writes a command into a row
the worker polls. The hazards of the code, each with its line and the
properties that cover it, are listed in `PROJECT.json`.

## 2. The modules

| Module | Component | Checked by | Proved in |
|---|---|---|---|
| `Sql` | PostgreSQL and SQLAlchemy as the services use them | all that extend it | `SqlProofs` |
| `CatalogSync` | catalog synchronisation | `MCCatalogSync` (3 runs) | `CatalogSyncProofs` |
| `SeasonalityWorker` | seasonality projection | `MCSeasonalityWorker` (3 runs) | `SeasonalityWorkerProofs` |
| `PurchaseCycle`, `AnalyticsFeed`, `AnalyticsSignals` | shadow signals; the feed is the abstract specification | `MCAnalyticsSignals` | `AnalyticsSignalsProofs` |
| `ChurnDelivery` | churn automation, host script and receiver | `MCChurnDelivery` | `ChurnDeliveryProofs` |
| `ReportCache` | admission of heavy reports and the cache | `MCReportCache` (2 runs) | `ReportCacheProofs` |
| `SalesFile`, `RfmSegments`, `SalesIntake` | parser, RFM arithmetic; imports, FTP, deletions, RFM snapshot composed | `MCSalesIntake` | `SalesIntakeProofs` |
| `BackendStart` | starts and migrations | `MCOperations` | `OperationsProofs` |
| `ReportScenarios`, `AccessDevices`, `CatalogDirectory`, `CatalogInfo` | the other services | `MCOperations` | `OperationsProofs` |
| `SeasonAdvice` | seasonal advice | `MCOperations` | |

`Sql.tla` holds what the services ask of PostgreSQL and SQLAlchemy: a maximum, a
page of `ORDER BY ... LIMIT`, and what a column holds after the commit of an ORM
session, which writes only the columns it has changed in memory (`Written`).

### CatalogSync.tla

One step is one transaction, one HTTP exchange or one decision between two
awaits. `control`, `state`, `revision` and `lookups` are the tables; `stored`,
`inflight`, `nextId` and `pair` are the sale items, whose ids are allocated
before they are committed; `syncLock` and `leaderLock` are the advisory locks.
`pc`, `run`, `page` and `shutdown` are a process's program counter, the locals
of `run_request`, the locals of `synchronize`/`refresh_batch` and its stop event.

| Actions | Code |
|---|---|
| `Allocate`, `Commit`, `Rollback`, `DeleteSale` | rows of an import (`services/imports.py:46-58`), `routers/sales.py:38-67` |
| `Start`, `Pause`, `Stale` | `services/catalog_sync_control.py`, heartbeat older than `STALE_SECONDS` |
| `Launch`, `Boot`, `Heartbeat`, `Poll`, `Idle`, `Unstop`, `Final`, `Close` | `serve`, `boot`, `heartbeat` |
| `Acquire`, `ReadMode`, `Prepare*`, `Loop`, `Mark`, `Guard`, `Account`, `Error`, `Wait`, `Finish`, `Release`, `Unwind`, `Report` | `run_request`, `prepare`, `finish` |
| `Begin`, `ReadPage`, `Request`, `Verify`, `Save` | `synchronize`, `save_results` |
| `ReadLookups`, `Request`, `Verify`, `SaveRefresh` | `refresh_batch` |
| `CliStart`, `CliEnd` | `app/catalog_sync.py` |
| `Signal`, `Crash`, `DatabaseError`, `LoseLock` | stop signals, process death, failed statements, a broken lock session |

Read-modify-write of the control row without its lock is two steps (`Loop` then
`Mark`, `Error` then `Wait`, `Final` then `Close`), so that a `pause()` can come
between. Abstracted: product attributes, counters, timestamps other than the
freshness of the heartbeat, error codes. An identity is a number; the lookup
service answers anything or fails temporarily or permanently.
`run`, `page` and `pc` are those of one attempt: a crash clears them. The
variables `commands`, `losses`, `dead`, `scope`, `checked` and `late` are bounds and
history: `late` are the sale items whose import committed them when the current
cycle had already passed them (`Passed`).

### SeasonalityWorker.tla

A batch is one step, because `run_batch` holds the source and catalog locks
exclusively and the row `FOR UPDATE` until it commits sums, profiles and cursor
together. Everything around it is one step per transaction: the worker's checks,
the accounting of a failure (read and written without the row's lock), imports
row by row, deletions, commands, and the three statements of a report's
`attach`. `months[g][id]` is how often sale item `id` was added to the sums of
generation `g`: exactly what a double count would change.

Abstracted: a sale is one item; store sums go with the month sums; name
conflicts and ambiguous articles; the algorithm version is fixed; the batch
limit of a worker's burst (`After` may end it at any round); a lock lost inside
a batch (it is verified before the commit and rolls the batch back, like
`Failure`). `catalog` stands for everybody else who holds one of the two locks.
`recent` and `late` are history. The month that changes during the cleanup
(`seasonality_worker.py:598`) is modelled: the projection is then published
without a usable profile until the next day.

### PurchaseCycle, AnalyticsFeed, AnalyticsSignals

`PurchaseCycle` is the arithmetic of `churn_pilot.py`: the distinct days of
purchases in a window, their gaps, the inclusive quartiles (kept four times
their value, so that they stay whole) and the verdict. `AnalyticsFeed` is the
abstract specification of what a consumer of the signals may rely on: runs are
published in one step, each saying of every client in scope what the stored
sales say at that moment. `AnalyticsSignals` is the code: `Start`, `Running`
(decide, begin, scan and evaluate batches, reconciliation of the episodes,
publication, supersession, blocking), `Fault`, `Shutdown`, `Leave`,
`LoseLeadership`, `Enable`, `Pause`, the paged report (`ReadPage`, `Conflict`),
and around it `Source`: imports in their stages, deletions, ClientsVR, the next
day, a deployment. Worker 2 is the churn command, which passes no date, keeps
no checkpoint and records no failure. Its deadline (`calculate` in
`churn_automation.py`) may stop it anywhere.

Abstracted: one signal type, names, phones, scores, counters, and the keys of a
client (the directory says its buyer types). A deployment changes the revision
of the policy or of the scope rules.

### ChurnDelivery.tla

A backend command is one transaction and one step; `tick` is several. The host
script (`Wake`, `Work`, `HostFails`, `Crash`, `AckOrphan`, `DelayPasses`) runs
the commands in the order of `run_churn_automation.py`; a command whose caller
has given up goes on as an orphan. The receiver decides on each event of a page
in a transaction of its own, against the day's budget and the client's
cooldown. `Policies` are the operator's approvals, revocations and changes;
`World` the imports, identities, proofs, day and time. `late` counts what
became a task after it should have been stopped.

### ReportCache.tla

Between two awaits of a request is one step. `queue` is the asyncio lock of a
process with those who await it, `waiters` its counter, `file` the file lock of
all processes, `threads` and `open` the calculations and report transactions
under way. A request may be cancelled or fail wherever it waits, more than once,
and what a thread does goes on without it. A report's transaction goes through
`transaction`, `rollback` and `close`: the rollback is an await like any other, so
that a second cancellation ends it; the close of the session is shielded, and a
request cancelled there too leaves its transaction to it (`LeaveOpen`, `left`).
Sales are a version; a data set remembers which version each of its statements has
read, its snapshot of `max(id)` and of the catalog's revision. `known` is the
version each process was last told about, `since` what it was when a request
came. `cancels` (how often a request was cancelled) and `began` (what the process
had been told when the loader looked at the generation) are history.

### SalesFile, RfmSegments, SalesIntake

`SalesFile` is `importer/parser.py` as operators over cells: signature before
suffix, workbook sheets and the mark-up of a page, the heading over up to three
rows with exact, packed and long names, the layout of old exports, excluded
rows, totals computed from positions. What a file says is a value the model
then imports. `RfmSegments` is the period, the scores (quintiles with
ties) and the segments of `rfm.py`.

`SalesIntake` composes them: coroutines `task` of an upload, a nightly FTP run
and a deletion take the steps of `process_import` (source lock, one commit per
row, fingerprint looked up in one statement and inserted in another, end,
announcement, unlink, RFM rebuild), of `ftp_autoload` (run lock, list,
download, import, delete or rename with retries) and of `rfm_snapshot.rebuild`
(period, two locks, coalescing, two reading statements, publication). `Fault`
and `Crash` may strike anywhere, bounded by `MaxMishaps`.

### BackendStart, ReportScenarios, AccessDevices, CatalogDirectory, CatalogInfo, SeasonAdvice

Small modules, one per service, whose comments name the functions:
`start_backend.py` with the schema lock shared by a check and kept by a
migration's session; the hourly pass of `scenarios.py` with its lock, its
flushed row, the report in a second session, the mail and the commit;
`routers/access.py` with the helper behind its socket, which finishes requests
nobody waits for any more; `_cached_integration_get` and
`get_catalog_batch_info` of `vrcatalog.py`; and `describe`/`recommend` of
`seasonality.py` walked through day by day. `MCOperations` puts them side by
side: they share no state, so every behaviour of that run is one of one part
(`part`), and each is checked on all of its own behaviours.

### MC modules

Each `MC` module gives the constants of its specification their values; the
`.cfg` files choose the bounds and the environment of each run.

## 3. What the runs check

Every bound is a constant in the guards. `Environment`, `MaxMoves` and their
like say what may happen around the component, so that a run pays only for the
interference it is about. State counts are distinct states.

**`catalog_sync_data`** (one worker and the CLI; 2 items, 2 identities of which
one is malformed, pages of 1 for the worker and of 2 for the CLI, 2 full cycles,
2 commands, 1 retry; imports in any order of commit, deletions, crashes; 5.7
million states).
Two items and pages of one row are enough for a page to be read, abandoned and
read again by another process, for the boundary to move, and for an identity met
twice; two cycles for one to follow another.
- `Covered`: every committed item the checkpoint has passed has been checked in
  the current cycle, after any failure, crash, pause, deletion or change between
  worker and CLI. Items that commit when the cycle has already passed their id
  (`late`) are exempt: the code misses them, which `catalog_commit_order` shows.
- `RefreshCovers`: a refresh that calls itself complete has checked every
  identity it found when it was opened, over all its continuations.
- `SnapshotsHold`: why `Covered` holds — one writer at a time, and the page read
  before the request still describes the rows it is saved against.
- `CheckpointAdvances`: the cursor and the boundary never go back in a cycle.
- `ChecksAreVisible`: no saved check without a new revision.
- `OnlyCliLocksOut`: commands never bring the web where each mode waits for the
  other to be finished, although the worker prepares a pass long after `start()`
  has checked that it may begin and the CLI may have run in between. Only a cycle
  the CLI opens beside a paused refresh does, and the run reaches it.

**`catalog_sync_control`** (two incarnations of the worker, no sale items, one
command, one retry, one lost lock, every fault except the CLI; 0.72 million states;
fair). Without items a batch still passes through all of `run_request`: a failed one
waits and is tried again, with the status `waiting` written without the row's lock,
and a second failure in a row gives up.
- `OldCommandsAreDead`: no command accepted before a boot is pending after it,
  whatever a dying worker and a stale transaction write.
- `CommandsSettle`: an accepted command does not stay pending while a worker
  lives, nor does a status that refuses the next start. The second half exempts
  lost locks: two leaders, one of which crashes, can leave `running` behind
  until somebody presses pause.

**`catalog_commit_order`** shows a disagreement with lines 82-87 of
`docs/catalog_background_sync.md`, by which a discovery processes everything above the previous
boundary and what is added meanwhile goes to the next one. The boundary is
`MAX(id)` of the *committed* items. Of two imports that allocate ids from one
sequence, the one that commits last can end below the boundary; no later
discovery visits it.

**`seasonality_data`** (2 imports, 3 items of 2 products, scans of 2, profiles
one at a time, deletions while the source revision is below 2, both processes
crash; 1.9 million states). Three items over two scans let an import end, or a
sale go, between the batches of one generation.
- `ProjectionIsTrue`: the sums of the current generation count every item up to
  the cursor once and nothing else (`docs/promotion_seasonality.md`: a
  repetition does not double the sums), and on the day of its publication a
  projection that calls itself ready has an exact profile of every product with
  sales. The second half is stated for that day because a change of the month
  during cleanup leaves a projection that is ready and has no usable profile
  until the next day.
- `ReadersSeeTruth`: what a report computes with was, at some moment of its own
  run, exactly the product's history.

**`seasonality_generations`** (1 import, 2 items of 2 products, every scan,
profile and cleanup batch of one; source revisions up to 4; 0.43 million
states). Deletions and rebuild commands make up to four generations, some of
them abandoned half way, so that cleanup has old ones to find.
- `CleanupIsExact`: no step takes a product out of the active generation, the
  one before it, or the one being built, and a projection at rest holds nothing
  of older ones.

**`seasonality_control`** (1 import, 2 items of 1 product, 2 days in 2 months;
commands, failures, busy locks, crashes, aborted imports; 0.75 million states;
fair).
- `PauseStops`: after a pause at most the batch already decided commits.
- `BecomesReady`: once nobody disturbs the enabled worker and no batch fails any
  more, the projection is published again and again, on every day. Without the
  last two premises it is false, and rightly so: an import that died stays
  `processing` and blocks every batch, and three failures disable the worker.

**`signals`** (2 clients with six sales, two of which an import may add to and a
deletion may take from; a worker and the churn command; scans of 4, one client
at a time; two closed days, two releases; two interventions anywhere; 0.61
million states; fair). Scans of four of six sales and batches of one client give
every run two interruptible batches in each phase; one client is overdue from
the first day on, the other has one purchase too few, so a single sale turns
either verdict.
- `FeedIsAtomic`: the runs refine `AnalyticsFeed`. However many batches a run
  took, and whatever was stopped, superseded or repeated on the way, what is
  published is what an atomic evaluation at that moment says.
- `ProjectionExact`: the purchase days add up, batch by batch, to what the sales
  say up to the cursor.
- `EpisodesSound`: a client has at most one open episode, and the change rows of
  an episode are its revisions without a gap.
- `PublicationOrder`: a consumer that takes publications in order never meets an
  older revision.
- `ReportsStay`: a closed run never changes, and the pages of a report joined by
  their cursors are one such run.
- `WorkerSettles`: a worker that keeps running ends with a published or blocked
  run that answers for the present revision.

**`churn`** (2 clients, 2 days, pages of one event, two pages a run, two
attempts, a budget of two tasks, three interventions; 1.4 million states; fair).
Pages of one of two events make a release that is half delivered when something
changes; two days make a job that is left over.
- `LedgerStaysTrue`: what the ledger says is so at the receiver, whatever was
  lost or sent twice, and an ended job and its ledger never change.
- `OnlyThePageInFlight`: after a revocation, an import, a review, the end of a
  proof or of the day at most one page may still become tasks.
- `JobComesToRest`: while transmission stays on the day gets its job, and a job
  of the policy in force is delivered or failed for the operator to see.

**`cache`** (3 requests on 2 processes, one place to wait in, two entries of up to
2 units and 3 units together, with and without the local catalog, two of imports,
deletions, catalog changes, expiries, cancellations, failures; 3.9 million states).
Two requests on a process with one waiter make one run, one wait or one be refused;
the third, on a process of its own, contends for the file lock. Two entries of two
units do not fit together, so that eviction by bytes takes one that the limit of
entries would have left. Two interventions may both be cancellations of one report.
- `OneAtATime`: calculations and report transactions belong to the one holder of
  the file lock, except a transaction whose request has been cancelled twice; no
  slot or waiter is lost or counted twice, whoever is cancelled or timed out when.
- `AnswersFresh`: an answer has everything its process was told of before the
  request. With the local catalog it is of one moment and has the newest sale and
  revision of its request's snapshot, and there is one exception: a data set whose
  snapshot was taken before an invalidation that its loader's generation is after.
- `TypeOK` holds the limits and the account of the cache's bytes.

**`stale_publication`** shows a disagreement with
`docs/product_analytics_cache_memory.md:96-98`, by which a calculation begun before
an invalidation is never published after it and the next request recalculates. With
the local catalog the snapshot is opened and `max(id)` read
(`routers/product_analytics.py:176-178`) before the request waits for its slot, and
the generation after (`product_analytics_cache.py:364`). A deletion of a sale that is
not the newest, announced in between, changes neither the key nor, for the loader,
the generation: what it saw before is published and answers later requests until it
expires.

**`intake`** (an upload of a torn and a good page, up to two nights with one
workbook, one deletion, on 28 and 29 February of a leap year, one fault or crash
anywhere; 2.7 million states). The workbook repeats a sale of the page, so that
the two imports race for one fingerprint; the deletion takes that sale; the last
days of February are where the year's period moves by two days.
- `NothingLost`: a file leaves the FTP server only when every sale it tells of
  has been stored.
- `SourceAnnounced`: whoever gets the source lock exclusively can tell that the
  sales have changed, or is told to wait by an unfinished batch.
- `SnapshotCatchesUp`: at rest, and if nothing failed, the active snapshot is
  that of the sales there are, by a second definition of period and scores, and
  calls nobody new who is known for longer.
- `NobodyStuck`: among those who wait for locks somebody can go on.
- `ScoresAssumption`, which TLC evaluates before the run: one rebuild agrees with
  that second definition on every set of the files' sales and on every subset of a
  ledger of nine with ties, a returning client, the edges of the period and of the
  last 30 days and a sale without a client, on both days.

**`operations`** (1.4 million states) checks the small modules one beside the
other: three containers, three revisions, four launches, one lost session; two
schedulers, one scenario, two days of two hours, one failed mail and one test;
two access requests, one signed and one earlier certificate, one fault; two
lists, room for one, three readers; three products of which the catalog knows
two, batches of one in two threads, room for two; seasonal profiles of up to
nine months, starting before, at and after the turn of the year, day by day
over a leap year and two months.
- `StartsChecked`: while no migration loses the session it locks with, a check
  ends well only on a schema that, at that moment, is what the container was
  started for, with no migration under way. The check's lock ends with it and
  `execvp` comes later (`Serve`): a migration may run in between, and what then
  holds is that the tables of the contract are still whole and the revision is one
  that reviewed transitions lead to (migrations only create tables and indexes). The
  revision moves by one migrator along a named transition.
- `SentOnce`: a second mail of one date needs an outcome that could not be
  recorded; none goes out when the table says it has, or after a removal.
- `RevocationTakesHold`: a device shown as revoked or deleted is on the list
  nginx works with and on the one it would load, and has no package left.
- `SingleFlight`: one request at a time for each list; its lock, users and
  shared error go with the last reader.
- `InfoSound`: no failure and no cancellation leaves "does not exist" in the
  cache, whose limit and account are kept.
- `AdviceFollowsSeason`: it is the season in the months of each run of two to
  eight high months and no other, none begins unannounced, nothing is cleared
  too early or promoted against a stop.

**Deadlock** is checked in every run except `cache`, `intake` and `operations`,
whose bounded requests, nights and launches end: every request answered is a
state that stops. `NobodyStuck`, `OneAtATime` and the accounts of waiters say
what deadlock checking would.

**Fairness.** `CatalogSync`: weak fairness of each worker's own tasks (`Serve`,
`Heartbeat`) and of a running CLI, because every wait in them has a timeout.
Nobody has to launch a worker, press a button, import or crash.
`SeasonalityWorker`: weak fairness of a running runner only. `AnalyticsSignals`:
of a worker that runs and of the stages of an import that runs, not of starting
either, and not of the churn command, which its deadline may stop anywhere.
`ChurnDelivery`: of the script being started and working, because a systemd
timer starts it every five minutes, of the delay after a failure passing and of the
time of day coming; what the operator and the receiver's failures do is free.
The other modules state safety only.

Each property of a passing run has a mutant: a definition next to the one it
replaces (`Unmet` for `Unseen`, `ScanAgain` for `ScanBatch`, ...) with a
plausible bug, under which TLC finds the property violated.

## 4. What is proved

Each theorem holds for every value of the constants that satisfies the module's
assumption.

**`CatalogSyncProofs`**, for any number of workers, items and identities:

- `TypeInvariant`: `Spec => []TypeOK`, in every environment.
- `SnapshotsInvariant`: `Spec => []SnapshotsHold` if `MaxLosses = 0`, that is, if
  no live session loses its advisory lock. Imports commit in any order.
- `CoveredInvariant`: `Covered` under the same assumption, for every item but the
  `late` ones; `catalog_commit_order` shows that the exemption is needed.
- `CheckpointAdvancesTheorem`: `Spec => CheckpointAdvances` under the same
  assumption; that the cursor of a page is the row's is what makes the saved
  checkpoint an advance.
- `ChecksAreVisibleTheorem`: `Spec => ChecksAreVisible`, in every environment.
- `OnlyCliLocksOutTheorem`: `Spec => OnlyCliLocksOut` if `MaxLosses = 0`. It rests on
  `ModeHeld`: whoever works on a command works in the mode the row has, because
  `start()` probes the run lock.

`Covered` is not inductive: whether saving a page keeps it depends on what the
page still means. The inductive invariant `SnapshotsHold` adds

1. `OneWriter`: a process between acquiring and releasing the run lock holds it;
2. `Cycles`: the cursor never passes the boundary, an open cycle is at least 1,
   a pending identity is of cycle 0, and what is late is late for good: it lies
   below the boundary;
3. `PageIsCurrent`: the page of a process in the middle of `synchronize` has the
   cycle, cursor and boundary of the row, and each item up to its checkpoint is
   checked, among the identities the page will save, or late.

The proof has one lemma per group of actions (`HarmlessServe`,
`SnapshotsImports`, `SnapshotsPrepare`, `SnapshotsBegin`, `SnapshotsFetch`,
`SnapshotsSave`, `SnapshotsSaveRefresh`); steps that touch neither rows nor
pages go through `HarmlessStep`, and `Alone` turns `OneWriter` into "every other
page is idle". The action properties split on `Writers`: only five transactions
write the checkpoint or the lookups; and on `ModeWriters`.

About the commands, on the same types and lemmas:

- `OldCommandsAreDeadTheorem`: `Spec => []OldCommandsAreDead`, in every
  environment. It is inductive with the types: every transaction that writes the
  control row either starts a command after the boot or takes one back.
- `RefreshCoversTheorem`: `Spec => []RefreshCovers` if `MaxLosses = 0`; imports
  may commit in any order, because a refresh reads lookups and not sale items.

The invariant behind the second, `RefreshHolds`, adds `OneWriter`; that only
malformed identities are marked invalid (`Marks`); that what the open refresh
found is stored and lies below its boundary (`Opened`); and that the batch in a
process's hands still begins where the row's cursor stands and leaves out nothing
up to its checkpoint (`BatchIsCurrent`). A step that touches none of it goes
through `CalmStep`; `RefreshPrepare`, `RefreshRead` and `RefreshSave` are the
three that do.

**`SeasonalityWorkerProofs`**, in every environment, for any number of products,
sale items, imports, days and source revisions and any page sizes:

- `SeasonalityTypes`: `Spec => []TypeOK`.
- `ProjectionIsTrueTheorem`: `Spec => []ProjectionIsTrue`.
- `ReadersSeeTruthTheorem`: `Spec => []ReadersSeeTruth`.
- `PauseStopsTheorem`: `Spec => []PauseStops`.
- `CleanupIsExactTheorem`: `Spec => CleanupIsExact`, that is the action property
  `GenerationsKept` and `[]OldGenerationsGo`.

The inductive invariant is `SeasonalityInv`. That sums are exact up to the cursor
says nothing about the next batch unless one knows what lies behind the cursor,
what an older generation still holds, and what a report has already read:

1. `InOrder`: ids are given in order, a sale item has an import that has begun;
2. `Sound(row)`: generations above the current one are empty (`Fresh`) and there
   is always a revision to pay for the next one (`Bounded`); the boundary is a
   stored item or 0, everything up to it belongs to an import that is over, and,
   unless the source has moved since, everything above it to one that is not
   (`Boundary`); what the phase says of cursor and publication (`PhaseSays`);
   the sums are those of the items up to the cursor (`Counted`); a ready profile
   is a copy of the sums (`Copied`), every product with sums has a profile
   (`Known`), and after `calculate` none is left dirty (`Complete`);
3. `Dated`: the month of the coverage is not ahead of the calendar;
4. `Promised`: what the report has read so far may be answered with: each ready
   profile of the generation it has seen is one of the histories since it began,
   as long as no import has come between.

`Sound` has the row as its argument, because a batch changes the row several
times before it commits: `Prepares`, `Scans`, `Calculates` and `Cleans` carry it
through the parts of `run_batch`, and `BatchStep` puts them together. `Voids` is
the step of a deletion or rebuild, `ImportSteps` that of an import, `QuietStep`
that of everything which leaves rows and sums alone; `PromisesStay` keeps what
the report has read. For the cleanup one has to know in addition that a profile
which is absent is empty (`Vacant`), because the cleanup looks for profiles by
their status; `Swept` is what each kind of batch then owes.

**`AnalyticsSignalsProofs`**, for any number of clients, sales, workers, days and
policies and any page sizes, in every environment:

- `SignalsTypes`: `Spec => []TypeOK`.
- `ProjectionExactTheorem`, `EpisodesSoundTheorem`, `PublicationOrderTheorem`,
  `ReportsStayTheorem`: the safety properties of the run `signals`.
- `FeedIsAtomicTheorem`: `Spec => FeedIsAtomic`, the refinement of `AnalyticsFeed`.

The inductive invariant is `SignalsInv`. A publication is the last of many
batches, so that it tells the truth needs what the earlier ones have left:

1. `RunsOK`, `ControlOK`: only the newest run is worked on, published runs are
   complete and numbered in the order of their publications, and the active run's
   day is not behind the published one;
2. `ProjectionExact`: purchase days are those of the sales read so far;
3. `EvaluationOK`: the rows of the active run are the verdicts of its purchase
   days (`RowsTell`), and everybody to be evaluated up to the client cursor has a
   row (`Reached`), also those whose episodes the run itself opens;
4. `EpisodesSound`, `ChangesOK`: change rows of a later run come later in every
   client's history;
5. `ReaderOK`: the report's pages are the rows of one complete run.

`Follows` says what a batch may do to a client's episodes, and `HistoryMoved`
that its change rows keep up. `WorkStep` is the step that saves a run without
publishing it, `QuietStep` the same with the episodes left alone, `StillStep`
everything that leaves runs and episodes alone. `RiskIsTrue` is the heart of the
refinement: a run may only be completed while no import is pending and nothing has
come since its boundary, so that its purchase days are the sales table, its
scope is today's, and with no client left its rows at risk are those of
`Feed!AtRisk`. `CompleteStep` is the only step that publishes. The verdict
itself stays unexpanded; both specifications share it (`FeedVerdict`), and that
it is the rule of `churn_pilot.py` is for the reader of `PurchaseCycle`.

**`ReportCacheProofs`**, for any number of processes, requests and changes and any
limits of the cache, with and without the local catalog:

- `TypesTheorem`: `Spec => []TypeOK`, the limits and the account of bytes with it.
- `OneAtATimeTheorem`: `Spec => []OneAtATime`, with requests that are cancelled any
  number of times at any await.
- `AnswersFreshTheorem`: `Spec => []AnswersFresh`.

What the two exempt is what the code reaches (`stale_publication` shows the second):
a transaction is outside the slot only after two cancellations of its request, and
with the local catalog an answer lacks an announced change only if its loader's
snapshot is older than what its process knew when it looked at the generation.

None of the three is inductive. The invariant `Inv` adds

1. `WorldInv`: what a process has been told of is not newer than the sales, and
   what it has changed and not yet told its cache of is newer than what it was
   told of;
2. `QueueInv`: a request is in the queue of its process exactly while it is under
   way, once, and first as soon as it has the lock; without it a cancelled
   waiter could take somebody else's place;
3. `SlotInv`: who holds the file lock, and that threads belong to requests that
   still wait for them, whatever has cancelled these, and transactions to requests
   that do, or were cancelled in their statements and in their rollback;
4. `WaitersInv`: the counter is the number of those who wait, so that what a
   cancellation gives back is what it took;
5. `CacheInv`: each key once, the limits, the bytes, and for each entry
   `Usable`: it is not older than the last invalidation, or with the local catalog
   its loader's snapshot was older when it began; and there its key names the
   boundary and the revision its data were read at;
6. `LoaderInv`: the same of what a loader has read so far, statement by
   statement, as long as its generation is the current one.

`CacheInv` and `LoaderInv` carry each other: an entry is usable because a
publication compares generations, and a loader's reading because an invalidation
advances the generation in the same step in which it empties the cache.

**`OperationsProofs`**, about the five small modules and their composition
`MCOperations`:

- `StartTypes`, `StartsCheckedTheorem`: for any number of containers, images,
  revisions and tables. `StartInv` adds, while no session has been lost,
  `LockDiscipline` (a migration between its lock and its end holds it alone, a
  check shares it), `ReadingsHold` (what a check or a migration has read is
  still so) and `CheckedHold` (what a check has accepted and its lock no longer
  protects: tables are not taken away, and the revision has moved along
  transitions only).
- `RevocationTheorem`: `AccessSpec => []RevocationTakesHold`, for any number of
  requests, certificates and faults. Two stores without a common transaction
  agree because of what is under way between them: `Answerable` (a request in
  the socket or in the helper is the one its client waits for, or nobody's,
  which takes a fault), `Listed`, `OnItsWay` (a new certificate comes to the
  table from one place only), `Outside` (what the table shows as revoked, *or
  will once an answer is saved*, is already on both lists and unpacked) and
  `Accounted` (without faults no certificate is lost).
- `SingleFlightTheorem`: `DirectorySpec => []SingleFlight`, for any number of
  lists, readers and entries; `LocksApart` is needed because a lock's identity
  is given out again, `InOrder` because eviction goes by the order of use.
- `SentOnceTheorem`: `ScenarioSpec => []SentOnce`, for any number of processes,
  scenarios, hours and failures. `LocksHeld` says whose transaction has which
  scenario's lock, `PlansInv` that what a pass has planned or begun has not
  succeeded since, `MailsInv` that each mail is on record, about to be, or lost.
- `InfoSoundTheorem`: `InfoSpec => []InfoSound`, for any number of products, any
  batch size, window and limit. `CacheHolds` adds one entry for a product and
  the account, `BatchesHold` that no product is asked for twice,
  `NothingForgotten` that a product in the catalog is in the result, among the
  failed, or still to be asked for.
- `OperationsTypes`: `OperationsSpec => []OperationsTypeOK`, from the five
  invariants side by side: types and the limits of the caches, which no run checks
  apart.

For the last two the cache of `CatalogInfo` is defined by what a batch of
insertions leaves (`Newest`, `Order`, `InsertAll`: the newest entries within the
limit, in the order of their insertion) and not by inserting one after the other
and evicting the oldest each time. On all caches and batches of up to three
entries the two agree, as TLC has been asked.

**`ChurnDeliveryProofs`**, for any number of clients and days, any page size,
pages per run, attempts, cooldown and daily limit, and however often calendar,
imports, operators, crashes and lost answers intervene:

- `ChurnTypes`: `Spec => []TypeOK`.
- `OnlyThePageInFlightTheorem`: `Spec => []OnlyThePageInFlight`.
- `LedgerStaysTrueTheorem`: `Spec => LedgerStaysTrue`, that is `[]LedgerIsTrue`
  and the action property `TerminalStays`.

The inductive invariant is `ChurnInv`. A receipt is written long after the
decision it reports, by a command whose caller may have given up, for a job that
may meanwhile have failed or been retried; the invariant therefore follows what is
true of a receipt from the receiver through the host to the ledger:

1. `WorldInv`, `PolicyInv`, `RunInv`, `ReleaseInv`: types; a release names a run;
2. `JobInv` (`Sound`): a job has a release exactly when it delivers, has ended or
   has failed on the way, and then as many events as the release; its receipts
   are for events of the release and `Tells` says that each is true of the
   receiver's tasks; one that ended is `Closed`, with a receipt for every event;
3. `HostInv` and `OrphanInv`: the receipts that the host holds between two
   commands (`Carried`), and those of an acknowledgement it has given up, are
   true of the release which the job still has;
4. `LateInv`: the tasks made since the last page that was current are not more
   than the receipts of the page in flight, and a page is not longer than
   `PageSize`, which is not visible in `late` alone.

`Grows` is what every step does to the rows that receipts refer to: tasks,
releases and runs are only added, so that a true receipt stays true
(`TellsStays`, `CarriedStays`). `Steady` is a step that leaves jobs, receipts and
releases alone, `Final` the frame that `TerminalStays` needs: what has ended is
left as it is. `AcknowledgedJob` is the heart: adding the receipts of a page,
whichever command brings them, leaves the job sound, and marks it as ended only
if the page was the last. `FirstIsShort` says that a page of the pending events
has at most `PageSize` of them.

**`SalesIntakeProofs`**, for any number of tasks, files, names, filters, retries,
uploads, runs and removals, and whatever throws or dies in between:

- `IntakeTypes`: `Spec => []TypeOK`, the account of a completed import and the
  places of the locks with it.
- `SourceAnnouncedTheorem`: `Spec => []SourceAnnounced`.
- `NobodyStuckTheorem`: `Spec => []NobodyStuck`.
- `NothingLostTheorem`: `Spec => NothingLost`, an action property.
- `SnapshotIsOfTheSalesTheorem`: at rest, unless something failed that nothing makes
  up for, the active snapshot is what one rebuild makes of the sales there are.
- `SnapshotCatchesUpTheorem`: `Spec => []SnapshotCatchesUp`, if one rebuild agrees with
  the reference on the sales that the files give (`ScoresAgree`).

They rest on `IntakeAssumption` and on `FilesAssumption`, what the parser gives: a
row that is passed over has no sale, a row has one sale at most, and the
fingerprint an older import may have given it is of the same document. TLC
evaluates both on the contents that `SalesFile` reads. The file leaves the server
several awaits after its last row was stored, by a run that may have slept through
other imports; the inductive invariant `IntakeInv` therefore follows a batch from
the upload or the download to its end:

1. `TaskInv`: what a coroutine holds at each of its places (`Fits`), and that no
   two claim the same batch (`Claimed`), so that nobody else writes its counters;
2. `LockInv`: each lock is held between exactly the statements where the code
   holds it, the exclusive one never beside a shared one;
3. `SaleInv`: a stored sale has a batch that counted it, one fingerprint and a
   document that is remembered when the sale is deleted;
4. `BatchInv` and `CountInv`: the counters of a batch add up; while it is imported
   they are those of the rows so far, and as long as none failed each of these
   was passed over or its document is stored (`Told`);
5. `DiskInv`: while nothing fails, a file on disk is kept by the task that will
   import it (`Keeps`);
6. `AnnouncedInv`: a change that no revision tells of comes from a batch that is
   still `processing`. The lock is not needed for it, and the theorem says more
   than `SourceAnnounced` does.

For the snapshot `SnapshotInv` adds that it is up to date or somebody owes it a
rebuild (`Owes`): an import or a deletion does from its first sale to its request,
and a request as long as nobody has built a snapshot after it; and that what the
first statement has read is still so when the second reads (`Reads`), because the
exclusive lock keeps everybody out who shares it. The proof says nothing of the
arithmetic, which is a sum and a ranking over sets; `ScoresAgree` is the hypothesis
that isolates it. Nothing says that the snapshot is of the newest day: a rebuild
takes its period before it waits for its locks (section 5).

Most actions are steps of one task: `OthersStay` is the frame for the tasks beside
it, `OwnStep` the step that leaves the tables alone, `TaskStep` and `CountStep` put
the parts together again. `ResumeFits` says where a coroutine goes on after an
import, `RebuildEnds`, `RunOn` and `RunEnds` how a rebuild and a nightly run end,
wherever they are called from. `ToldAll` and `WhoRenames` finish `NothingLost`: only a
run at `finish` takes a name off the listing, and only with a batch that is
completed without an error.

**`SqlProofs`** has what both workers need of a page of `ORDER BY ... LIMIT`
over a finite set: it leaves out nothing below one of its rows
(`FirstIsPrefix`), which is why a cursor may stand at the last row of a page, and
it is empty only when there is nothing (`FirstIsEmpty`).

**Only model-checked**: liveness (the prover has no ENABLED): `CommandsSettle`,
`BecomesReady`, `WorkerSettles`, `JobComesToRest`; `ScoresAgree`, the arithmetic of
RFM, which sums over sets; and `AdviceFollowsSeason`, which compares a walk over
the days of a year with a definition, an induction over data.

## 5. What the models show beyond their properties

The following behaviours are reachable in the models or were met while
translating the code. No document promises otherwise, unless it is said, so that
no run counts them as violations; they are listed for whoever changes the code.

- *Catalog, the start button.* `docs/catalog_background_sync.md:47` says that it
  continues an unfinished pass. `start()` refuses a discovery while a refresh is
  unfinished (`catalog_sync_control.py:54`) and a refresh while a discovery cycle is
  (line 52). After a paused refresh and one bounded CLI run that opens a new cycle
  both are, every start is answered 409, and only the CLI gets out. That is the
  exception of `OnlyCliLocksOut`.
- *Reports, cancelled twice.* `report_execution.py:43-45` says that the slot is held
  through the rollback, so that a report cannot overlap an unfinished cancelled
  transaction. The rollback (line 62) is awaited without a shield: a second
  cancellation gives the slot back with the transaction still open, and another
  report begins beside it. Cancellations do repeat: the middleware's task group
  cancels again at every await until the request's task has ended. `run_cpu` in the
  same slot waits through them. That is the exception of `OneAtATime`.
- *Churn.* With transmission on and the time of day past there is always a daily
  job, and `churn_automation.py:106-107` looks for a diagnostic job only when
  there is none: the diagnostic queued in `ChurnAutomationControl.tsx:25` waits.
- *Churn, late answers.* `acknowledge` sets `DELIVERING` whatever the job has become
  (`churn_schedule.py:182`): the answer of a command whose caller has given up
  (`AckOrphan`) reopens a job that was marked `FAILED` meanwhile. `LedgerStaysTrue`
  holds there too, its second half for the statuses in `TERMINAL`, to which
  `FAILED` does not belong.
- *Start.* A migration may begin between the end of the check, which gives its
  shared lock back, and `execvp` (`start_backend.py:235-246`): the container then
  serves on a revision newer than the one it was started for.
- *Imports.* An import that dies leaves its batch `processing` and those behind
  it `queued` for ever. A failing `unlink` of a completed import skips its RFM
  rebuild. The period of a snapshot is taken before it waits for its locks.
- *FTP.* A database error outside the run's handlers ends the scheduler's
  coroutine: no later night imports anything. A rename to `EROOR_` may meet a
  name of an earlier night.
- *Scenarios.* A removal that waits for a flushed run, while the pass waits in
  its second session, is a deadlock through two sessions. A scenario removed
  during a pass ends the pass for the others until the next hour. A disabled
  scenario may still be mailed from a list read earlier. An error of SMTP after
  the mail has gone repeats it; the report of a later date is skipped while an
  older failed one is retried.
- *Access devices.* A lost answer to an issue leaves a certificate without a row,
  a lost download the package's only copy.
- *Seasonality.* The failure counter is read and written without the row's lock
  (`seasonality.py:75`). A month that changes during the cleanup leaves a ready
  projection without usable profiles until the next day.

## 6. Plan

Done: every component of the inventory with state of its own has a module. What
would add most next:

1. **Proofs**: every safety property of the runs has its theorem except
   `AdviceFollowsSeason`. What is worth stating next is what the invariants already
   know and no run asks, such as which night's failure leaves which remote file.
2. **Models**: the category map and the product search of `vrcatalog.py`;
   expiry and use of certificates.

## 7. Not modelled

Presentation (frontend, PDF, formatting), report queries, the calls of CLIENTS
VR, VRCatalog search and telephony dashboards, password and session handling,
and the PHP plug-in. They keep no state of their own between requests, or their
correctness is that of a foreign service; what the code in the repository relies
on is modelled where it is used (`ChurnDelivery` for the receiver,
`CatalogDirectory` and `CatalogInfo` for CatalogVR).

Left out of modelled components: the script that rebuilds an RFM snapshot by
hand and an FTP run started by hand take the steps of the automatic ones
(`Autoloads` would admit the latter); a copy of `crl.pem` torn by a crash; in
`ReportScenarios` a pass that loses its database session, and with it the
transaction's advisory lock, before or during the report or the mail (it loses it at
the commit only), and a mail whose thread runs on after its pass was cancelled; in
`CatalogInfo` the aliases of a product (one key stands for code and article,
`vrcatalog.py:353-366`) and an answer of status 200 in an unknown form, which
`_source` reads as an empty list, so that its products are cached as unknown: what
`InfoSound` says is for answers of the known form. That its `charged` is the size
of the entries is so by the shape of `Settle`. Left out is also the
statistics behind a seasonal profile (correlations and weights in floating
point); and the comparisons of dates in `inactivity.py` and
`report_periods.py`, which have no state and no case distinctions beyond a
comparison.
