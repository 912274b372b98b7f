# Verification of the dollar-tehran-bot

TLA+ specifications of the parts of this repository whose correctness depends on
the order of steps: workers and a broker, threads and a lock, processes and a
lease, coroutines and a cache, overlapping scripts and the files they share. Each
specification is translated from the Python source and model-checked with TLC on a
small instance, and nearly every safety property is proved with TLAPS for every value
of the constants.

Paths below are relative to `src/`.

Contents: 1 the system; 2 the modules and the code; 3 the runs; 4 fairness;
5 what the code does not keep; 6 the proofs; 7 what is not modelled; 8 the plan.

## 1. The system

The repository holds three generations of a scraping platform. They share ideas
(a queue, a checkpoint, a retry count) and little code.

| component | state it keeps | operations | talks to | module |
|---|---|---|---|---|
| durable job runtime (`divar_bot/infra/durable_job_runtime.py`, `divar/runtime_worker.py`) | idempotency keys in Redis | `process_event`, `_handle_failure`, `process` | Kafka, WAL, limiter, Redis, handler | `DurableJobs`, `JobDelivery` |
| Kafka adapter (`divar_bot/infra/kafka_adapter.py`) | consumer, producer; topics and offsets live in Kafka | `publish*`, `consume`, `commit` | Kafka | `DurableJobs` |
| WAL (`divar_bot/infra/wal_recovery.py`) | a JSONL file, a snapshot file | `append`, `replay`, `recover_state`, `compact` | files | `WalStore` |
| browser pool (`divar_bot/infra/browser_pool.py`) | `_slots`, `_leases`, `_started` under one lock | `start`, `acquire`, `release`, `shutdown` | Playwright | `BrowserPool` |
| leader election (`divar_bot/infra/etcd_client.py`) | the lease; key and leases live in etcd | `elect_leader`, `renew_lease_forever`, `release` | etcd | `LeaderLease` |
| rate limiter (`divar_bot/infra/distributed_rate_limiter.py`) | a bucket in Redis and one in each process | `acquire` | Redis | `TokenBucket` |
| orchestrator (`divar_bot/orchestrator/runtime_orchestrator.py`) | none: it plans from lists it is given | `build_plan` | a deployment adapter | `Orchestration` |
| probes (`divar_bot/infra/draining.py`, `health_api.py`) | a marker file, an event, counters | start/stop draining, `/readyz`, `/metrics` | the host | `RuntimeProbes` |
| SQLite queue (`divar_bot/core/queue.py`, `worker.py`; again in `app/core`) | `jobs`, `extraction_results`, audit tables | `add_job`, `process_next_job` | SQLite, plugins | `JobQueue` |
| supervised worker (`divar_bot/core/worker_runtime.py`, `worker_supervisor.py`) | a shutdown flag, a memory guard | `run`, `process_next` | queue, plugins, results | `WorkerCore` |
| Divar pipeline (`divar_bot/divar/pipeline.py`, `export`, `data`) | the export files | `run` | Divar | `AdPipeline` |
| Divar storage (`divar_bot/divar/storage.py`, `resume_state.py`) | runs, ads, details | discover, resume, mark | SQLite | `AdRuns` |
| traffic governance (`divar_bot/divar/session_persistence.py`, `proxy_rotation.py`, `anti_ban_throttling.py`) | profile files, proxies, signal counts | allocate, report, decide | - | `SessionProfiles`, `TrafficGuard` |
| Maps harvester (`google-maps-bot/app`) | `businesses` table, checkpoint file | `Orchestrator.run` and its phases | Google Maps, SQLite | `MapsHarvest` |
| settings of the harvester (`google-maps-bot/run.py`, `app/config.py`, `local_io.py`) | three workbooks, `Config` | bootstrap, sync, load, check, generate | Excel files | `SettingsFlow` |
| the harvester as a driver (`afra_market_data/drivers/google_maps`) | the same table, `website_extractions`, `sync_status` | run, crawl, sync | the central server | `LeadSync`, `Selection` |
| views of the leads (`.../api_mapper.py`, `output_model.py`, `excel_exporter.py`) | none | one SELECT each | SQLite | `LeadViews` |
| sheet and AfraKala tools (`google-maps-bot/app/sync_to_*.py`) | `sync_status`, a Google sheet | one pass over the pending rows | Google, AfraKala | `SheetSync`, `Selection` |
| market data (`afra_market_data/core.py`, `source_check.py`, `cli.py`) | observations, snapshots, payload and configuration files | collect, aggregate, save, enable, disable | web sources | `MarketSnapshot`, `MarketReading`, `MarketHistory` |
| panel (`local_panel_app.py`, `panel_worker.py`, `run_panel_job.py`) | queue, state and result files | request, prepare, run | subprocesses | `PanelRunner` |
| credentials (`app/infra/credentials`) | an encrypted cache | `resolve` | a provider | `CredentialCache` |

How they interact: the durable runtime calls the Kafka adapter, the WAL, the limiter
and the handler for every event; the orchestrator, the probes and the election stand
beside its workers. The harvester, the driver, the crawler, the sync tools and the
views meet in one SQLite database, and nothing but its transactions keeps them
apart. Panel, dashboard and shell start the same scripts side by side, and these
rewrite shared JSON and Excel files in place.

What makes it hard, and the correctness each part owes:

* **Durable runtime.** At-least-once delivery out of five calls that can each fail
  (WAL, Redis, handler, publish, commit), by members that can be thrown out of the
  group while they work. *No job is lost; offsets cover only what was dealt with; a
  job is run twice, or buried although it ran, only after a fault.*
* **WAL.** Crashes in the middle of a line, of a character and of a compaction. *A crash
  costs no more than the line it cut, as long as the file can be read; compaction is
  invisible; recovery is deterministic.*
* **Browser pool.** A lock that is not reentrant, Playwright raising anywhere,
  `shutdown` while leases are out. *Counts, leases and contexts agree; the bound
  holds; calls return.*
* **Election.** Leases that run out under a leader, deaths, releases of a key one no
  longer has. *One leader that was not displaced; a free key is taken.*
* **Limiter.** Clocks read before the lock, skewed clients, an expiring key, a fallback
  per process. *Never more than the rate allows; no wait but for an admission.*
* **Orchestrator.** Plans are applied to a fleet that has moved on. *A plan places
  shards where they could go and spreads them; the loop comes to rest.*
* **Queues and workers.** `SELECT` and `UPDATE` are separate; audits, results and the
  queue raise before or after they took effect. *Results precede completion; every
  anomaly is paid for by a fault.*
* **Harvester and leads.** A checkpoint that is an index, overlapping runs that mark
  rows unconditionally, answers that get lost after they took effect. *A harvest skips
  queries only after a death; what is marked synced was accepted; every view tells the
  same harvest.*
* **Files of the desk.** State, payload, configuration and settings files that are
  truncated before they are written. *A run obeys the sheet it read; every harvest
  beyond the first was let in by a step that can be named.*
* **Market prices.** Digits of three scripts, four separators, two units, two
  calendars, slow collections. *The price stored is the price shown, at its day.*
* **Credentials.** Answers that overtake each other. *A cached credential was replaced no
  longer ago than the ttl and a timeout, a degraded one than a whole resolution and a
  timeout.*

## 2. The modules and the code

`PROJECT.json` maps every definition to its lines. A step is always the code
between two effects that another process, thread, coroutine or a crash can see.
History variables (marked so at their declaration) are written and never read by
the code's actions; properties weigh anomalies against them.

**`DurableJobs`** (abstract promise: **`JobDelivery`**). `log`, `position`,
`committed` and `owner` are Kafka as the adapter uses it: two topics of one
partition, an owner each, a position that starts at the committed offset, eviction,
redelivery. `pc[w]` is where worker `w` is in `process_event`; each action is one
call. `SkipWhileDraining` is the early return of `DivarRuntimeWorker.process`;
`NotSeen` covers both a missing Redis key and a swallowed Redis error;
`SuccessPathRaises` is the `except` clause that also covers the WAL append and the
commit after a successful handler; `Commit` moves *every* topic the member owns, as
`consumer.commit()` without arguments does, and `CommitRejected` is the same call by
an evicted member; `faults` counts what the environment did wrong. The repository has
no loop that feeds `consume()` to `process`; the model's loop hands over events one by
one and ends with the exception that leaves `process`. `Subscribed` is what `consumer`
was given: `consume()` gives the jobs topic alone, and a deployment that passes both is
the only way to a second attempt. A WAL record of a duplicate or limited event carries
no attempt (`RecordOf`). `JobDelivery` has three sets,
submitted, finished, buried; the refinement maps them to the jobs topic, the
completed handlers and the dead-letter topic.

**`WalStore`.** A line is what its text parses to (a record, nothing valid, or bytes that
are no UTF-8: text is written with `ensure_ascii=False`) and whether its newline was
written. `FileAfter` is the one subtle operator: text appended to a file whose last
line lacks its newline continues that line. `CrashInAppend` leaves a prefix, cut
between characters or inside one, or the whole line, with or without its newline.
`Recovered` is what `recover_state` returns, or no state when `replay` raises. `compact`
is two actions with a crash between.

**`BrowserPool`.** A method that runs under the lock without leaving the pool is one
action. `acquire` is several, because `_launch_browser` calls `start()`, which takes
the same `threading.Lock`. `slots` is `active_contexts`; `contexts` is what is really
open in the browsers.

**`LeaderLease`.** `LeaseTick` is time: it counts leases down and expires them with their
key. `Renew` is a turn of the loop of `renew_lease_forever`, which only sleeps:
`refresh_lease` of python-etcd3 is a generator, and nothing iterates what line 115 gets.
`displaced` records who lost lease or key without knowing, `tardy` that time passed
while a process was awake.

**`TokenBucket`.** `Serve` is the arithmetic both buckets share, the Lua script and
`LocalTokenBucket.acquire`. A call reads its clock (`Call`, `ReadClock`) before the
bucket serves it (`EvalScript`, `LocalAcquire`), so calls can be served in the wrong
order; `rewound` is the time by which that set a bucket back. `RedisFails` goes to
the local bucket of the process or raises, as configured.

**`Orchestration`.** `Placements`, `DesiredReplicas` and `Moves` are the three plans as
operators over an observation; `BuildPlan` takes them from the present fleet,
`ApplyPlan` applies them to whatever the fleet is by then, in the manner the code's
comment leaves to "a deployment adapter". Lists come in any order; the loop over the
shards that have no owner is a recursive function over its turns, `line`, which the
proof unfolds.

**`RuntimeProbes`.** `start_draining` and `stop_draining` are two accesses each, to the
process's event and to the marker file that processes of a host share; a probe reads
both; an increment is a read and a write of the metrics dictionary.

**`JobQueue`.** `Select` and `Claim` are the two statements of `get_next_job`; every
other step is a call of `process_next_job` with its own transaction. The updates have
no condition on the status. `app/core` holds the same code and is mapped too.

**`WorkerCore`.** The loop of `WorkerSupervisor.run` with its shutdown and memory
checks, and `process_next` with every backend call that may raise before or after it
took effect. The retry policy restarts the plugin on each attempt.

**`AdPipeline`.** A lead is the set of ads merged into it; `IdentityKey` and `Merged`
are the deduplicator's rules on what the extractor may find. The two files of an
export are opened (truncated) and written in separate steps.
**`AdRuns`** has one action per method of the storage, each a transaction, and any
number of workers on one run. **`SessionProfiles`** keeps the profile as the file has
it, as each manager's memory has it, and as all reports together make it (`record`).
**`TrafficGuard`** holds proxies with their failures and cooldown, and the throttler's
decision as an operator on the counts of signals.

**`MapsHarvest`.** `StartRun` generates the queries anew, in any order, since
`list(set(...))` follows the hash seed of the process, and loads the checkpoint;
`CollectQuery`, `FetchBatch`, `Succeeds`, `Fails`, `SaveCheckpoint`, `ClearCheckpoint` are
the transactions and file writes of a run; `DieInRun` is possible between any two, and in
the middle of the checkpoint write it leaves a file that `load_checkpoint` reads as 0.

**`LeadSync`** is the driver's copy of that code with what comes after it: several
harvests and syncs on one database, the website crawler and the post to the server.
A post may be accepted without the answer arriving (`PostTimesOut`), and the mark may
fail (`MarkFails`). Rows are numbered in order of insertion, which the `ORDER BY id`
of the selections depends on. **`Selection`** is what such a `SELECT` returns, with its
`LEFT JOIN`, order and limit, for this module and the next but one. **`LeadViews`** has the same tables reduced to what the
exporter, the mapper and the counts tell apart, and each view as an operator.
**`SheetSync`** has the three hand-run tools: the two sheet tools run the same loop
(definitions are mapped to one or the other), and a sheet is the sequence of its
keys. **`SettingsFlow`** follows a run from `import app.config` to its harvest, each
read and write of a workbook a step. `Setting` are the eight keys that
`load_from_excel` takes, in its order (`Rank`), and the three of the sheet that nothing
reads (`Unread`); `Taken` is the load that stops at the first cell it cannot convert.

**`MarketSnapshot`** has collections as threads whose answers arrive one by one, one
transaction, then a payload file truncated and written; the two editors of the
configuration; runs that overlap. Each source has a price of its own; the median is that
of `statistics.median`, rounded half to even. **`MarketReading`** is the text-to-price conversion
and the Gregorian-to-Jalali conversion as operators, driven over prices, ways of writing
(a price is its digits, a text is read one character at a time) and days after 1600
(`gregorian_to_jalali` has other constants for older ones). **`MarketHistory`** is what
`live_payload` and `changed_sources` read back while collections save. **`PanelRunner`** has the panel's three files and any number of runners and preparers;
the harvest is the child of `subprocess.run`, and a kill of the script ends it
(`DieRunning`) or leaves it to itself (`Orphan`).

**`CredentialCache`.** Coroutines of one loop: a step is what runs between two awaits.
A credential is its version; the provider rotates it, and an answer carries the
version of the moment it was made. The waits for the provider and the sleeps after a
failed attempt (`Pause`) take their time.

Mutants: beside the definitions are variants of them, each a slip the code could have
made (their comments begin with "Mutant" or stand in a section of that name). No
specification uses them; every property comes with one that breaks it.

## 3. The runs

| run | instance | question |
|---|---|---|
| `DurableJobs_faults` | 1 job, 2 workers of which one may drain, 2 attempts, 2 faults, 1 denial | what the runtime promises under faults, and that every job is taken or dropped by a draining worker |
| `Runtime_drain` | 2 jobs, 1 draining worker, 1 fault; and see below | offsets and the refinement of `JobDelivery` when events are dropped; credentials, probes and metrics, supervised worker |
| `BrowserPool_sessions` | 3 threads, 2 browsers of 1 context, 2 exceptions | counts, bound, lock, answers |
| `Coordination_race` | see below | queue, election, harvest: what the next process takes over |
| `Divar_crawler` | see below | limiter, profiles, exports, resumed runs, proxies, throttler, WAL |
| `Desk_tools` | see below | market, prices and dates, history, panel, sheet tools, settings, views |
| `Platform_loops` | see below | plans of the orchestrator, syncs of the leads |
| `DurableJobs_retries`, `BrowserPool_shutdown`, `LeaderLease_renewal`, `MapsHarvest_order`, `Settings_phases` | smaller | section 5 |

Five of the passing runs hold several modules each. Those share no state in
the code, so a behaviour has a `focus`, one of the modules, and the others rest in
a fixed state: the run explores the sum of their state spaces and
not the product. `PROJECT.json` names the module of every property.

| module | instance |
|---|---|
| `JobQueue` | 2 jobs of 2 priorities, 2 workers, 2 faults |
| `LeaderLease` | 2 processes, 3 lease ids, ttl 3, 1 death |
| `MapsHarvest` | 2 queries, 2 businesses, 2 failures, batches of 1, 2 deaths |
| `LeadSync` | 2 harvests, 1 sync, 2 leads (one refused, with a website), 1 fault |
| `TokenBucket` | 2 callers in 1 process, capacity 2, rate 1, ttl 3, skew 1, 4 units of time, requests of 2, 1 restart |
| `SessionProfiles` | 2 managers, 2 profiles, 3 reports, scores 0 to 4 with a limit of 1 |
| `AdPipeline` / `AdRuns` | 2 pipelines, 2 ads, 2 runs / 2 workers, 2 runs, 2 urls |
| `TrafficGuard` | 2 fetchers, 2 proxies, 3 units of time; 3 signals of each kind |
| `WalStore` | 3 events, 2 payloads, 3 lines, 2 crashes, cuts inside characters |
| `MarketSnapshot` | 2 collectors, 2 sources (one unstable), 1 checker, 1 disabler, 1 rise of each price |
| `MarketReading` | 6 prices of 1 to 7 digits in every way of writing; the days round 1402/1403, 28 February 2100 and 1408 |
| `MarketHistory` | 1 source, 2 collections, 3 saves, 3 minutes, a window of 1 |
| `PanelRunner` | 2 runners, 1 preparer, 1 request (prepared again and again), 2 slips |
| `SheetSync` | 2 places (keys equal or not, one without a name, one with a website), 2 sheet tools, 1 uploader with 2 attempts, 1 mishap |
| `SettingsFlow` | 2 runs, 8 sheets, 3 times of day, 1 edit |
| `LeadViews` | 2 leads, 2 extractors, 2 crawlers, 2 tries |
| `Orchestration` | 2 workers, 3 shards, 1 to 3 replicas (4 at first), 2 changes of the fleet |
| `CredentialCache` | 2 resolutions with 2 retries, ttl 2, timeout 1, 2 versions, 12 seconds, degraded mode on |
| `RuntimeProbes` | 2 runtimes of a host; 2 threads, 2 metrics, 3 increments |
| `WorkerCore` | 4 jobs (one flawed, one garbled), 2 tries, 2 errors of backends |

Why the bounds are enough. Two faults are the least that let an event be redelivered
*and* the redelivery meet a second fault (a lost Redis key, another eviction); one
job suffices for them because jobs interact only through offsets, which
`Runtime_drain` covers with two jobs behind one another. Two attempts give one
retry and one dead letter; the code compares `attempt` with the limit and nothing
else. `DurableJobs_faults` and `Runtime_drain` subscribe to both topics, so that what a
second attempt does is seen; every behaviour of a consumer of the jobs topic alone is
among theirs. Two browsers of one context and three threads reach a full pool, a refusal, a
launch beside an existing slot and a release after a shutdown. A lease of 3 outlives two
turns of the renewing loop and not a third. Three lease ids
let a process come back while its old lease still lives. Two crashes of the WAL tear
two lines, or a line and a compaction. Two queries in two orders are enough to skip one
and search the other twice; the violation run has three. Two attempts last eight
seconds at most with their sleeps, less than the 12 of the credentials, so the bound on
a degraded answer is reached. Three shards are more than
two workers can share evenly. In `TokenBucket` the ttl is shorter than the run, so a key expires and
comes back full, and two callers suffice to serve two clock readings in the wrong
order. In `LeadSync` the refused lead is the older one and the one with the website: it
stays at the head of every selection, and once two crawls have doubled its row it fills
the limit of 2. That a second post of a lead costs a lost answer or an overlap is proved
for all. The overlapping scripts need two of each kind: what is not known of one overlap is not known of two. The dates of `MarketReading`
cross a leap year of both calendars and the century that is none of the Gregorian one.
The orchestrator's first replica count, 4, is above its maximum, so the bound has to
be restored. Counters the code leaves unbounded have a named bound among
the constants (`Max...`), and the comment at the constant says what it bounds.

`Desk_tools` has a constraint, `Bounds`: it stops following a behaviour once both
kinds of overlap of the market tools have happened (the properties promise nothing
after that), keeps to two programs at work at once in each of `MarketSnapshot`,
`SheetSync` and `LeadViews` (any two, of one kind or of both, so every pairwise
overlap is explored), and ends the calendar on the second of April. It is a safety run: no liveness property meets the constraint. Symmetry is used
in safety runs only (`Divar_crawler`, `Desk_tools`, `Settings_phases`).

Deadlock is checked in `MapsHarvest_order`; in the composed runs a module that rests
would hide one. The configurations say `CHECK_DEADLOCK FALSE` because the system or its bounds really stop there: all jobs
are settled, every request was run, the WAL is at `MaxLines`, time has come to its
bound, or, in the pool, all threads wait for a lock whose holder never releases it
(section 5).

## 4. Fairness

- `DurableJobs`: weak fairness of a worker inside `process_event` (a running process
  goes on) and of the assignment of the jobs topic (the coordinator does that); strong
  fairness of delivery of the jobs topic, since eviction interrupts it again and again.
  Nothing is asked of the retry topic, which `consume()` does not read, and nothing of
  producers, operators or faults.
- `BrowserPool`: strong fairness of a thread's next step, since the lock is
  contended and `threading.Lock` does not starve a waiter for ever; weak fairness of
  giving a lease back (`session` releases in `finally`). Nobody is obliged to call
  `acquire` or `shutdown`.
- `LeaderLease`: time passes; every process that can elect or finish a release does, and
  does not reach its transaction too late for ever. Stopping is never forced.
- `JobQueue`: every worker keeps calling `process_next_job`.
- `MapsHarvest`: a run goes on until it ends or dies, and the operator starts the
  next one. Deaths are bounded by `MaxCrashes`.
- `LeadSync`: every sync is begun again and again and goes on (`FairLeadSpec`); the operator's
  `ALTER TABLE` is not assumed, `LeadsArrive` speaks of the case that it was made.
- `Orchestration`: the control loop keeps building and applying plans
  (`WF` of `BuildPlan` and `ApplyPlan`); changes of the fleet are bounded by
  `MaxChanges`, which is how "once it stops changing" is said.
- The other modules have no liveness property and no fairness.

## 5. What the code does not keep

Five disagreements have a run in which TLC finds the behaviour:

| run | behaviour |
|---|---|
| `BrowserPool_shutdown` | `acquire` on a pool nobody started calls `start()` under the lock it holds; it and every later call, `shutdown` included, waits for ever (`browser_pool.py:124`) |
| `DurableJobs_retries` | `consume()` subscribes to the jobs topic alone (`kafka_adapter.py:196`, `:217`), and nothing reads the retry topic: a job whose first attempt failed is neither executed nor dead-lettered, though "jobs that fail repeatedly must move into a dead-letter queue" (`docs/05-queue-design.md:47`). `JobsAreTaken` is what is left |
| `LeaderLease_renewal` | `renew_lease_forever` is to "keep a lease alive" (`etcd_client.py:110`), but drops the generator that `refresh_lease` returns (`:115`): the lease of a leader that is never late runs out |
| `MapsHarvest_order` | `list(set(...))` orders the queries differently in each process, and the checkpoint is an index into the list (`query_generator.py:75`; `docs/01-final-requirements.md:48` asks for resume): a resumed harvest skips queries for good. `ResumeIsBounded` is what is left |
| `Settings_phases` | the operator is told that the sheet `Phases` switches phases off; nothing reads it, and phase 4 crawls (`main_orchestrator.py:203`) |

The others are visible in the models, and the properties state what does hold:

Durable runtime, WAL, election, limiter
- a draining worker drops the event it was handed, and the commit of the next event
  passes over it (`kafka_adapter.py:225`), although the contract commits "only after
  durable success or durable retry/DLQ routing" (`durable_job_runtime.py:15`):
  `CommittedIsAccounted` counts it as `skipped`;
- a job whose handler completed can be dead-lettered, when the append or commit after
  the handler raises (`durable_job_runtime.py:204`): `DeadLettersAreJustified` says that
  this takes a fault;
- a record acknowledged after a torn line is glued to it, and replay skips both
  (`wal_recovery.py:132`; `docs/DEPLOYMENT.md:82` speaks of corrupted lines only):
  `LossCostsCrash` allows one event per crash. A line cut inside a multi-byte character
  makes the file undecodable, and `replay` raises (`wal_recovery.py:149`): nothing is
  recovered, then or ever after, and `LossCostsCrash` asks only that a crash preceded it;
- since no lease is ever refreshed, the old leader and its successor can both think that
  they lead, and `OneCurrentLeader` is what remains. `release` deletes the key whoever put it. A displaced leader
  never campaigns again, hence the exception in `LeadershipIsTaken`;
- the limiter's clients pass their own clocks: `LimitsHold` grants the skew and what
  the clocks were set back on top of the rate.

Queues, harvester, leads
- two processes select one pending job before either updates it, and both run it
  (`core/queue.py:57`; `docs/05-queue-design.md:11` lists "Worker locking"):
  `WorkerSafety` says once *per worker*;
- the audit entry after `complete_job` is inside the `try` block: when it raises, the
  completed job is failed (`worker.py:53`); `LoneCompletionIsFinal` says that this
  takes a fault or a second worker;
- `sync_status` is selected by every sync, but no code adds the column: the migration in
  the driver's `Database.close` uses names that do not exist there
  (`drivers/google_maps/app/database.py:369`), and google-maps-bot has none. The models
  let somebody add it, or the sync raise;
- a lead whose accepted post was answered too late is posted again
  (`SecondPostCostsFault`), and refused leads are selected first for ever: once
  their rows fill the limit no younger lead is posted (`CrowdedOut` in `LeadsArrive`);
- a crawl inserts a new row of `website_extractions` each time, and the joins of the
  sync tools send a business once for every row (`SecondRowIsExplained`);
- of the views, `output_model.py:10` calls itself the single source of truth, but the
  exporter has a SELECT and a grade of its own; they differ, and `ViewsAgree` states how
  far. Sorting by quality is alphabetical; rating, city and province are exported and
  never written.

Settings, market, panel, credentials
- the sheet offers `extract_emails`, `extract_social` and `delay_between_queries`
  (`local_io.py:48`, `:51`), and nothing reads them (`config.py:83`): the last conjunct of
  `SettingsAreObeyed` says that they stay as they were made;
- a workbook that cannot be loaded prints "Using default settings" and keeps the values
  of the run before; a window over midnight never opens (`start <= h` and `h <= end`);
  blank cells become the word "nan" in queries; the pause is looked at once, before the
  queries are made; nobody reads the workbook of `create_simple_management.py`;
- a collection that meets a half-written configuration fails; one that was outrun writes
  an older payload over a newer one (`FilesFollow`); which sources answer moves the median,
  whatever their prices do (`SnapshotsAdvance` compares runs in which the same ones did);
  a slow one saves old
  readings under new ids, which `changed_sources` takes for the newest
  (`HistoryIsTold` excepts overlaps);
- a fraction after a Persian decimal separator, or a thousand set apart by a space
  and followed by more digits, is read into the price (`PriceIsRead` names the three
  ways of writing that are read otherwise);
- two runners that read the state file before either writes it start two harvests, and a
  request prepared beside a harvest, or beside one whose script was killed, starts
  another (`run_panel_job.py:44`): `HarvestsAreExplained` counts them;
- the degraded mode of the credential resolver cannot serve what expired, since the
  lookup at its start has removed it: only what another resolution stored since.

Some properties characterise a hazard and do not prevent it: the code lets it happen, and
the property says what it takes. `CommittedIsAccounted` counts what a draining worker
dropped; `SyncIsHonest` leaves out leads of overlapping extractions; `ExportTellsRun` the
files of overlapping pipelines; `ViewsAgree` the rows of sites that two crawlers chose;
`HistoryIsTold` the readings of collections that cross; `ProbesAreHonest` a stop of
draining that races with a start, and metrics whose increments cross.

## 6. The proofs

TLC's runs show the properties on small instances; the theorems below show them for
every set of workers, jobs, processes, queries, businesses, proxies, sources and so
on, and for every value of the bounds. A theorem assumes the specification and the
named `ASSUME`s of the module it is about, which TLC evaluates in the runs. Most of
them say only that bounds are numbers, that two kinds of processes are disjoint, or
that a set of processes or rows is finite (needed where something is counted or put in
order). Four are worth a look, because the statement is false without them:
`ProbeAssumption` says that no metric is called "none", the name the model gives to the
absence of one, `CredentialAssumption` that the provider has a credential (`MaxVersion`
is not 0), `SheetAssumption` that no lookup key reads like the heading of its column
(a key is a place id of Google, or name, phone and website with underscores between),
and `CalendarAssumption` that a behaviour begins on a day of the Gregorian calendar,
after 1600.

Every property of the passing runs that is a safety property has a theorem.

| module | theorem | statement | inductive invariant |
|---|---|---|---|
| `DurableJobs_proofs` | `TypeCorrect` | `[]TypeOK`, and a worker's event is in its topic | itself |
| | `CommitSafety` | `[]CommittedIsAccounted` | `IInv` |
| | `DeliveryRefinement` | `DurableJobs` implements `JobDelivery!Spec` (`DeliverySpec`) | `IInv`, `SubmittedInLog` |
| | `JobsAreSafe` | `[]JobsAreKept` | `LInv` |
| | `DeadLettersAreSound` | `[]DeadLettersAreJustified` | `DeadInv` |
| | `RerunsAreBounded` | `[]RerunsCostFaults` | `CostInv` |
| `LeaderLease_proofs` | `TypeCorrect`, `LeaderSafety`, `KeySafety` | `LeaseTypeOK`, `OneCurrentLeader`, `KeyExpiresWithLease` | `IInv` |
| | `LeadershipIsSafe` | `[]LeaseSafety`, the three together | `IInv` |
| `JobQueue_proofs` | `RunSafety`, `ResultSafety` | `RunsOncePerWorker`, `CompletedHasResult` | `IInv` |
| | `WorkersAreSafe` | `[]WorkerSafety`, these and the types | `IInv` |
| | `BalanceIsKept`, `OutcomeSafety` | `[]AccountsBalance`; `OutcomesAreSound` | `OutcomeInv` |
| `BrowserPool_proofs` | `BooksAreRight`, `RefusalsAreJust` | `[]ContextsAreCounted`; `RefusesOnlyWhenFull` | `IInv` |
| | `PoolSafety` | `PoolIsBounded`, both | `IInv` |
| `MapsHarvest_proofs` | `TypeCorrect`, `BacklogSafety` | `HarvestTypeOK`, `BacklogCostsCrash` | `IInv` |
| | `BacklogIsKept` | `[]BacklogIsSafe`, both together | `IInv` |
| | `SettledSafety` | `SettledIsFinal` | `IInv` |
| | `ResumeSafety` | `[]ResumeIsBounded` | `ResumeInv` |
| `Divar_proofs` | `WalLosesLittle`, `RecoveryIsStable` | `[]LossCostsCrash`; `RecoveryIsFaithful` | `WalInv` |
| | `RateIsLimited`, `WaitsAreKept`, `LimiterSafety` | `[]LimitsHold`; `OnlyAdmissionsDelay`; `LimiterIsFair`, both | `BucketInv` |
| | `ProfilesAreFit` | `[]HandedOutIsFit` | `ProfileInv` |
| | `AdsAreResumable` | `[]DiscoveredIsResumable` | `RunInv` |
| | `GuardSafety` | `TrafficIsGuarded` | `GuardInv` |
| | `ExportsAreTold` | `[]ExportTellsRun` | `PipelineInv` |
| `Desk_proofs` | `HarvestsAreBounded` | `[]HarvestsAreExplained` | `PanelInv` |
| | `MarketSafety` | `MarketIsTold` | `MarketInv` |
| | `HistoryIsKept` | `[]HistoryIsTold` | `HistoryInv` |
| | `SettingsAreKept` | `[]SettingsAreObeyed` | `SettingsInv` |
| | `ViewsAreOne` | `[]ViewsAgree` | `ViewInv` |
| | `CalendarIsFollowed` | `StampFollowsCalendar` | `ClockInv` |
| | `ReadingSafety` | `ReadingIsTrue`: the prices, and the calendar | `ClockInv` |
| `Platform_proofs` | `CredentialSafety` | `[]CredentialsAreFresh` | `CredentialInv` |
| | `ProbeSafety` | `[]ProbesAreHonest` | `ProbeInv` |
| | `WorkSafety` | `[]WorkIsAccounted` | `WorkInv` |
| | `SyncSafety` | `SyncIsHonest` | `LeadInv` |
| | `SheetSafety` | `[]SheetIsFaithful` | `SheetInv` |
| | `PlacementSafety` | `[]PlansAreSafe` | `FleetInv` |

`Divar_proofs`, `Desk_proofs` and `Platform_proofs` prove about the modules of the
composed runs one by one: each theorem is about the specification of one module
(`WalSpec`, `BucketSpec`, `PanelSpec`, ...), which is what that module does while it is
the focus of its run. Every invariant in the last column was checked by TLC on the
module's run before it was proved.

**Offsets.** `CommittedIsAccounted` is not inductive, since a commit copies positions,
of which it says nothing. `IInv` adds `ReadIsAccounted` (whatever an owner has read is
accounted for, except the event in its hands), which in turn needs to know that the
event in hand is accounted for at the points where a commit may follow
(`SettledIsRouted`), that a duplicate was run (`KeyImpliesRun`, `MarkAfterRun`), and that
offsets and the event in hand lie in the log (`OffsetsInLog`, `CurInLog`). The proof
separates what only grows: `Grows` says that no step takes a log entry, an execution, a
dead letter or a dropped event back, `StepGrows` proves it of every action, and
`AccountedIsStable` draws the conclusion. The refinement uses only that an event in
hand was submitted (`SubmittedInLog`). `LInv` repeats the scheme for the WAL: what is
committed, read or in hand past its outcome is logged. That no job is lost follows from
it by taking the *last* copy of a job in a topic: if it is committed and was routed
on, there would be a later one.

**Dead letters and reruns.** `DeadInv` says that an event of attempt *n* is in a topic
only after attempts 1 to *n* - 1 were logged as failed (`AttemptsFailed`), and, as long as
`faults` is 0, that a job has at most one place that the group will still read (`Open`)
and none once it ran or was buried (`Calm`). `RerunsCostFaults` is the deepest of
these: no invariant about single places gives it, because an eviction turns one copy
of an event into two, of which either may run. `CostInv` bounds a potential instead:
`Cost(j)` is the number of executions of *j*, plus one if its event in the jobs topic may
still run (`JobsLive`), plus one if one of its events in the retry topic, or on the way to
it, may (`RetryLive`; the first of them that runs keeps the others away until its key is
lost), plus the number of workers that may still run it after they have lost their topics
(`Strays`). Every step without a
fault leaves the potential alone or lowers it (an execution spends what the copy was
worth, a routed retry moves it to the other topic), every fault raises it by at most one,
and the potential bounds the executions.

**Leadership.** `OneCurrentLeader` follows from `UndisplacedHoldsKey`: a leader that was
not displaced holds the key with a living lease. For that, leases must have one owner
(`LeasesAreOwned`), and a process that ends its lease must not be ending the key's
(`KeyIsElsewhere`). Nothing in it rests on a renewal.

**The queue.** `RunsOncePerWorker` needs that waiting jobs are fresh, that a selected job
is one the worker has not run, and that a claimed job never returns to the queue
(`WaitingIsFresh`, `SelectedIsFresh`, `HeldIsClaimed`). `OutcomeInv` counts: the retry
count of a job is at most the number of workers that ran it and are done with it
(`Closed`), the jobs in nobody's hands (`Abandoned`) are at most as many as the faults,
and without a fault a completed job was completed by its worker. The sets that are
counted are finite because they grow by one element at a step, which the invariant says
too, so that nothing has to be assumed of the sets of jobs and workers.

**The pool.** `ContextsAreCounted` is inductive with three facts about threads: the lock is
held by whoever is inside `acquire`, a launch has room in the list of browsers, and a
registered lease is the one in its thread's hands. The work is in the cardinalities:
a session that is opened or released moves one lease in or out of one slot's set.

**Files and stores of a Divar worker.** `WalInv` bounds the lost events *plus* one for a
last line without a newline, which is a loss to come, counting as if the file could be
read; that it cannot costs a crash of its own (`RaisingIsPaid`) and lasts. `BucketInv` bounds what was issued
plus what is in the bucket by the capacity and what time has refilled (`CountIsFair`),
and says that a bucket that was forgotten (an expired key, a restart) would be full for
whoever is under way (`RedisForgetsLate`, `ProcessStartsFull`): otherwise a fresh bucket
would hand out more. `ProfileInv` says that memory, file and the reports together agree
about a profile nobody meddled with. `RunInv` says that ads in hand are owned by the
worker's run. `GuardInv` ties the health of a proxy to its failures in a row.
`PipelineInv` accounts for every ad of a listing, and its last part says what the two
files hold when no exporter is at work; a lemma says which ads deduplication merges.
The proof of `GuardSafety` found that the model of the throttler's decision had
overlapping guards in a `CASE`, where the code has a chain of `elif`; it is an
`IF` ... `ELSE IF` now.

**The desk.** `PanelInv` counts harvests, orphans and one more for a state file that would
let the next runner in (`Ticket`), and has the first and the slips pay for them. The other
four have one form: unless the programs overlapped in the way a history variable
records, what one has in hand fits what is in the file at the point it has
reached. `MarketSafety` needs that readings are no older than what is saved, unless the
run was outrun (`AgesStory`), and that a median is monotone: of two readings of the same
sources, the one that is nowhere smaller has the greater value at every rank
(`RankedGrows`, by counting who is below it) and so the greater median, through the
rounding (`MedianGrows`), for every number of sources. `SettingsAreKept` needs what a
load makes of a workbook whose cells may be refused (`LoadedTakes`), and that the
management workbook is the sheet with its missing rows filled in (`ManagedSays`).
`HistoryIsKept` rests on a lemma that rows saved by collections that do not cross are in
the order of their stamps.

**Services.** `CredentialInv` measures age by when a version was replaced (`replaced`): an
answer is as old as its wait at most, an entry of the cache as its wait and the ttl, and
a resolution past its lookup finds in the cache only what another one stored since
(`FoundIsNew`), which is no longer ago than its attempts and sleeps last so far
(`ResolutionsEnd`). `ProbeInv` counts the increments under way of each metric and says that
one which was never counted by two threads is exact; a scrape can raise only when an
entry was added, so there are no more raises than entries. `WorkInv` counts the jobs that
ended wrongly (`Spoilt`) plus the one in hand that is about to (`Troubled`), and has the
faults pay for them.

**Leads.** `LeadInv` follows the rows that a process has taken into a loop. Unless two
processes have been in the same loop at once (`overlapped`), the one inside has each row
once and every one still among the leads it selected from: not done when it extracts, not
crawled when it crawls, not marked when it posts (`ExtractAlone`, `CrawlAlone`,
`PostAlone`). That a lead is posted twice only at a price is then a count,
`PostsAreMarked`: the posts the server took are at most the answers that left no mark,
plus one if the lead is marked or about to be. The third depends on the second, through
the join: a lead crawled once has one row in a sync.

**The sheet.** `SheetInv` says where the rows of a batch are at each point of the loop.
Rows are never moved, so the row numbers of a plan stay right and an update writes what
its row has (`UpdatesInPlace`); past its plan a tool has each row of its batch on the
sheet or among those it is about to append (`BatchReaches`), which is all that the marks
need, whoever dies or overlaps. For a key that one place has, with one row of the crawler
at most, `SingleOnce` follows the way to the sheet: once in a batch, once in a plan, and
not on the sheet yet. Only a second tool with a plan of its own can break that, and it
sets `staleAppend`.

**The calendar.** `CalendarIsFollowed` holds for every first day after 1600 and any number
of years. `gregorian_to_jalali` is a day count and a division of it. The count grows by
one from each Gregorian day to the next (`DayNumberAfter`, over the leap days that
`LeapDay` counts). The division takes the count apart into cycles of 33 years, periods
of four and days (`Parts`); the parts of the next number are the next parts, year by year
and month by month the next day of the Jalali calendar (`NumberAfter`), whose long years
fall where the code's `days > 365` puts them (`LongYears`). `ClockInv` says that the clock
shows a date; the rest is where midnight in Tehran lies among the half hours of UTC.

**Prices.** A text is as long as its source likes, and both the number that digits write
(`Value`) and the search of `clean_number` (`Reads`) are ways along it, step by step
(`Along`). A way exists and is the only one (`AlongIs`, `AlongReaches`), and along two
texts it is the way along the second from where the first one led (`AlongBoth`). So a
text is read in its parts: the words before the price, the digits in groups of three
(`GroupRead`, where `PlaceOfDigit` counts the separators between them) and what follows
(`TailRead`). `TenTimes` and `TomanOfRials` are the way of a price through rials and back.

**Plans.** `FleetInv` is the types of fleet and plan with the property itself: a plan is
safe when it is built, whatever the fleet was, and the steps that follow change the
fleet and not the plan. The work is in `Placements`. After each turn the line of healthy
workers is sorted again with the one just chosen behind all others, whatever their load
(`NextLine`); every line is an arrangement of the same workers (`LineStays`), so with two
of them no two turns in a row go to one worker (`PlacedInTurn`), and he gets at most every
second shard (`SpreadTurns`). That a list can be sorted at all
and that the recursion over turns has a value is shown for every length, without an
induction theorem: the shortest list without an order, or the first turn without a line,
would be a contradiction (`CanBeOrdered`, `LineExists`).

**Selections.** Both proofs need to know what a `SELECT` returns, and so that rows can be
put in the order of their ids at all, however many. That is an induction on their number,
done without one: of the sets that could not be sorted one would have the fewest rows
(`RowsAreSorted`), and its first row goes in front of the others. From this come the facts
the actions use: a selection has rows of its result only, an id with one row at most once,
and everything if the limit allows it (`SelectedIds`, `PendingPlaces`, `NextIsUndone`,
`SyncIsUnmarked`).

**Least and greatest elements.** The newest row of a feed, the last copy of a job, the
first line of an event and the browser with the fewest contexts exist because `<` on the
naturals is well founded: `WFMin` and `NatLessThanWellFounded`, both theorems about sets,
give what an induction would.

**Resuming.** `ResumeInv` is inductive whatever order a process has: what a run searched
itself (`RunIsSearched`), that every place passed or skipped by the checkpoint cost a
search of some run (`PlacesCostSearches`), and that only a run after a death skips
anything (`SkipsCostDeath`). A run that skipped nothing searched the whole list, which is
every query.

Only model-checked is everything under fairness (`JobsAreTaken`, `AcquireReturns`,
`LeadershipMoves`, `JobsFinish`, `HarvestEnds`, `LeadsArrive`, `FleetSettles`), which the
installed provers cannot reach.

## 7. What is not modelled

`PROJECT.json` lists every component with its status and reason. In short:

- the Redis queue helpers (`divar_bot/queue`) and the unused helpers of
  `divar_bot/core`: each wraps one or two commands and has no caller, so the order of
  calls, which is where they could go wrong, is written nowhere;
- the registries of `app/`: in-memory dictionaries that one coroutine writes and reads
  without an `await` between;
- AI inference and voice: wrappers around external services;
- extraction from pages: heuristics over texts, whose outcomes (a phone, a captcha,
  nothing) are any outcome in the modules that use them;
- logging, tracing, dashboards, reports, deployment, configuration, tests.

Within the modelled files: the serialization of events (well formed),
`replay(stop_on_corruption=True)`, which nothing calls, `put_state`/`get_state` of the
etcd client, the encryption of the credential cache, `/healthz` and `/snapshot`, the
layout of the workbooks, `save_final_lead` and `record_event`, which store rows nothing
reads back, and `sync_to_remote`, which posts a payload once and keeps nothing.
`compact` has no caller either; the model's one passes what it recovered and appends
nothing in between.

## 8. The plan

The durable runtime came first, since every other part of `divar_bot` feeds it; then
what it stands on (WAL, pool, lease, limiter); then the older queues and the harvester;
then what surrounds them (driver, sync tools, views, settings, market, panel,
orchestration, probes, credentials). Still to come:

1. A composition of `DurableJobs` with `WalStore`: what a restarted worker can rebuild
   when the WAL itself loses a line.
2. The Redis stream helpers, once a caller says in which order they are used.
