# TLA+ models of dozer's incremental view-maintenance path

This directory holds TLA+ models of the part of dozer that turns row-level
changes into a committed, queryable cache: the window and MAX aggregation
operators, the cache sink and the cache, and the CLI's app-UI state that starts
and stops pipelines. It has four kinds of files:

- the modules;
- the TLC configurations that model-check them on small instances;
- TLAPS proofs of their main invariants;
- `PROJECT.json`, which lists the components, the runs, the mutants, the
  map from every modelling definition to its source lines, the findings and
  the hazards.

## 1. The system and its parts (inventory)

Data flows from the connectors, through the SQL operators (windows and
aggregations), to a `CacheSink` per API endpoint. The sink writes the
endpoint's LMDB cache and notifies the API layer. Control flow comes from an
external executor:

1. It opens one transaction per epoch.
2. It calls `process` on every node for every change.
3. It calls `commit` on the sinks at the epoch boundary.
4. It counts each node's errors against `error_threshold`. A node is halted
   once the count exceeds it.

The inventory table below lists each part, its state, its operations, what
makes it hard, and the properties that cover it.

| Part | Source | State | Operations | What makes it hard | Properties |
|---|---|---|---|---|---|
| RecordStore (`RecordDatabase`) | `dozer-cache/.../record_database.rs` | the `records` LMDB database: id -> record | `insert` (id = live entry count, put with `NO_OVERWRITE`), `delete`, `get` | ids are not monotonic: after a delete the next id collides with a live one or reuses a freed one | `ValidStreamNeverFailsCache`, `PrimaryIndexConsistent` |
| Cache | not among the sources; spec 4.5 | record database, primary-key database, one open write transaction | `insert`, `update` (delete then insert, version + 1), `delete`, `commit` | `update` is two steps and can fail between them | `PrimaryIndexConsistent`, `CommittedMatchesUpstream` |
| CacheSink | `dozer-orchestrator/.../sinks.rs` | the cache, the optional bounded notifier channel | `process` (Insert/Update/Delete arms, then `try_send`), `commit`, restart through `open_or_create_cache` + `CacheSink::new` | notifications leave before the commit; a full channel is an error after the write; crashes lose the open transaction | `SubscriberConverges`, `CommittedMatchesUpstream` |
| CacheSinkFactory: schema derivation and cache opening | `dozer-orchestrator/.../sinks.rs` | the cache manager's persisted caches, their schemas, the endpoint's alias and the epochs committed into each cache | `get_output_schema`, `create_primary_indexes`, `prepare`, `build`, `open_or_create_cache`, `CacheSink::new`, `commit`, a crash at any step | four arms for the configured and upstream keys; indexes derived per field type; a crash or failure between `create_cache` and `create_alias` leaves an orphan cache | `SchemaMatchesSpec`, `DurableCommits`, `BuiltPrimaryWellFormed` |
| Executor error policy | `dozer-cli/src/utils.rs` (`error_threshold`) | per-node error count | skip a failed op, or halt | skipping a half-done update and then committing | `CommittedMatchesUpstream` |
| WindowOperator | `dozer-sql/src/window/processor.rs` | none (delegates to a window strategy) | `process`: Delete/Insert/Update/BatchInsert | Update = Deletes, then Inserts; either half can fail; a batch fails as a whole | `DownstreamNeverRejects`, `WindowViewMaintained` |
| AggregationOperator (MAX) | only its tests: `.../aggregation_max_tests.rs` | per-group value multiset | Insert/Update/Delete -> group deltas | a delete of the maximum needs the whole multiset; the order of deltas on a cross-group update | `TestExpectations` |
| AppUIState (CLI) | `dozer-cli/src/ui/app/state.rs` | four tokio `RwLock`s, the running pipeline's shutdown sender and temp dir | `build`, `run`, `stop`, `get_current`, `broadcast` | `run`/`stop` interleavings; the temp dir is closed right after the shutdown signal; the thread may panic | `NoDeadlock`, `CallsReturn`, `NoOrphanPipeline`, `OnePipelineAtATime`, `TempDirOutlivesPipeline` |
| Config helpers, live schema mapping, proto and Kafka tests | `utils.rs`, `live/helper.rs`, tests | none | pure conversions and I/O tests | nothing for a model checker | not modelled |

The sink file and the window file come from different versions of dozer.
`WindowProcessor` emits `BatchInsert`, but `CacheSink::process` matches only
`Insert`, `Update` and `Delete`. The model follows the sink's three
operations.

## 2. Plan

The modules are listed in order of importance. Items 1 to 3, 5 to 7 and 9 are
built; item 4 and item 8 are left for later.

1. `RecordDatabase`: the record store, from the source.
2. `Cache`: the primary-key database and the operations insert, update and
   delete, built on `RecordDatabase`. It is spec-modelled, because the
   cache's code is not under `src/`.
3. `CacheSink` with `MCCacheSink`. This module composes the cache, the
   upstream table, the notifier channel, the API subscriber and the
   executor's error policy, and it includes restarts.
4. The secondary index (IndexMaintainer) in `Cache`. The property to check
   is that the index entries equal the live records' projections.
5. `WindowProcessor`. Its Update arm is a Delete followed by an Insert, and
   it can fail halfway.
6. `AggregationMax`. It is spec-modelled and checked against the deltas the
   MAX tests expect. The group deltas of a cross-group update go in the
   test's order (new group first), while spec 4.1 says the old group comes
   first.
7. `AppUIState`. Each of `build`, `run`, `stop`, `get_current` and the
   pipeline thread is a process with its own program counter, and the
   tokio `RwLock`s are fair (FIFO) locks. The questions are these:
   - freedom from deadlock;
   - no pipeline left running unregistered;
   - the temp dir outlives its pipeline thread;
   - the staleness of `running`.
8. Composition: a window feeding a sink. A refinement of the sink's
   committed view by an abstract "snapshot at epoch boundaries" was built
   and dropped: its only content was `CommittedMatchesUpstream` again (a
   commit publishes the upstream table, a restart rolls back to it).
9. Proofs. `CacheSinkProofs` proves the type invariant, the primary-index
   invariant and `CommittedMatchesUpstream` under the halting policy.
   `AppUIStateProofs` proves the app UI's type invariant and
   `NoOrphanPipeline`. `WindowProcessorProofs` proves the window's
   two properties under the halting policy. `SinkSchemaProofs` proves
   `DurableCommits` across crashes and that the endpoint alias is never
   re-pointed. `SinkIndexProofs` proves `SchemaMatchesSpec`.
   `AppUIDeadlockProofs` proves the app UI's `NoDeadlock`.
   `CacheSubscriberProofs` proves the sink's `SubscriberConverges`.

## 3. Modules and how they correspond to the code

### `RecordDatabase`

- `records`: the function from ids to records, in the open transaction.
- `NewRecordId(db)` is `lmdb_stat(..).ms_entries`, and `CanInsertRecord(db)`
  is the `NO_OVERWRITE` condition of `txn.put`.
- `PutRecord` and `RemoveRecord` are the put and the `txn.del`.
- An id is the natural number it encodes, because `to_be_bytes` is
  injective.
- `GetRecord` and `RecordFound` are `get`. The cache's `CacheView` and
  `CacheContents` read records through them.
- `TestRecordDatabase` restates the first half of the module's unit test:
  insert into a new database, then get id 0. It is stated as the
  assumption `RecordDatabaseTest`, which every cache-sink run evaluates.

### `Cache`

- `pkIndex` maps a primary key to an id.
- Each operation is split into its effect on success (`CacheInsert`,
  `CacheUpdate`, `CacheDelete`) and its failure conditions (`InsertFails`,
  `UpdateNotFound`, `UpdateInsertFails`, `DeleteNotFound`).
- `CacheUpdatePartial` is an update whose delete half is done and whose
  insert half failed.

### `CacheSink`

One `Process*` action is one call of `CacheSink::process`. In a single step:

1. The upstream table changes by a valid operation: Update and Delete carry
   a row the table holds.
2. The cache call is made.
3. On success the notification is `try_send`-ed (`Notify`). A full channel
   is `Fail`.
4. On an error, `Fail` counts it. The node is halted (`status = "failed"`)
   when `errors > ErrorThreshold`, and otherwise it goes on. This is the
   executor's policy (spec 7); the executor's code is not under `src/`, so
   `Fail` is modelled from the spec.

The other actions:

- `Commit` is `CacheSink::commit`. `CommitFails` is a failed commit, which
  is fatal.
- `Receive` is the API-layer subscriber taking the oldest notification.
- `Restart` is a crash at any point followed by a rebuild, in five parts:
  1. the open transaction is lost;
  2. `open_or_create_cache` reopens the committed cache;
  3. the source resumes from the last committed epoch (`upstreamAtCommit`);
  4. the subscriber reloads the committed rows;
  5. the error count is reset.

  Parts 3 and 4 are assumptions about the parts outside this code: the
  source's checkpointing and the API client.

### `WindowProcessor`

- `upstream` is the keyed table the deltas come from and `down` the keyed
  downstream table (one row per row key and window), which rejects an insert
  of a present key and a delete of an absent one (spec 7).
- `Execute(r)` is the window strategy: the constant `Assign` maps a time to
  the windows it falls in (`MCWindowProcessor` gives a hop of size 2 and hop
  1). `Executes(r)` is false for a non-timestamp time (`WindowError`). The
  strategy's code (`operator.rs`) is not among the sources.
- One `Process*` action is one call of `process`, arm by arm, with the deltas
  it sends in order (`Send` delivers them, then the executor counts an error
  as for the sink). `ProcessUpdate` sends nothing when the old row fails and
  only the deletes when the new row fails; `ProcessBatchInsert` sends one
  batch or nothing.
- `Deliver` applies the zero, one or two batches a call sends, each to the
  table the previous one left, and records whether one was rejected (a
  rejected batch leaves the table as it was, `Step`).

### `AggregationMax`

The aggregation operator's code is not among the sources; its tests are.
The module follows spec 4.1 for `SELECT g, MAX(v) ... GROUP BY g`:

- `acc` is the accumulator per group, a multiset of values (value -> count);
  `live` is the upstream's live rows, which a Delete or Update must name.
- `InsertDelta`, `DeleteDelta` and `SameGroupDelta` compute the output
  delta; a cross-group `Update` emits the old group's delta, then the new
  group's.
- `out` is the last call's deltas.
- The operator's code is not under `src/`, so nothing about the operator
  itself is checked: with `acc` and the deltas written from the spec, a
  property of them would only restate the spec. The module serves the
  `max_test_scenario` run, which compares the spec with the repository's
  test.
- `MCAggregationMaxTest` feeds the eight inputs of
  `test_max_aggregation_float` and compares `out` with the test's `exp`
  after each.

### `AppUIState`

- The three `RwLock`s (`dozer`, `run_thread`, `error_message`) are `lk`:
  readers, writer and a FIFO queue of waiting requests. A tokio `RwLock` is
  fair: `Lock` grants at once only when no one waits and the holders allow
  it; otherwise the request queues, and `Grant` serves the head.
- Each handler task has a `pc`, the await point it is suspended at. One
  action runs it from one await point to the next: `build` (`BuildStart`,
  `BuildInit`, `BuildSetMessage`), `get_current`, the schema getters
  (`create_contract_if_missing` then `get_contract`), `run` (`RunStart`,
  `RunCheck`, the inner `stop`, `RunSpawn`, `RunRegister`) and `stop`.
- `dozer` abstracts the orchestrator to none, built or built with a
  contract; `runThread` is the registered pipeline.
- `ContractOutcomes` is `create_contract` with `create_dag`: either a
  contract, or an error that leaves the contract `None`. `build` and
  `create_contract_if_missing` both await it under the `dozer` write lock.
- `RunSpawn` has two cases. `RunFails` is the error exit of `TempDir::new`
  or of the `run` function, which can fail in `get_dozer_run_instance` on
  SQL that `statement_to_pipeline` rejects, or in `validate_config`.
  `SpawnPipeline` is `run`'s `std::thread::spawn`. The config rewriting of
  `get_dozer_run_instance` and the `override_*` functions is data, and it
  is left out.
- Each pipeline thread has `pipe` (none, running, exited), `shutdown` (its
  signal fired) and `dir` (its TempDir live or removed). `PipelineStops` is
  `run_all` returning after the signal; `PipelinePanics` is its `unwrap`
  panicking at any time.

### `SinkSchema`

- A field is a name and a type. The schema's fields, the upstream
  `primary_index` and the configured primary-key names are the inputs,
  chosen in `Init`. The upstream index satisfies the schema invariant,
  because the SQL pipeline produces it.
- `CreatePrimaryIndexes` is `create_primary_indexes`: the position of the
  first field of each configured name, or `FieldNotFound`.
- `PrimaryIndex` is the match on the two keys being empty. It has one
  arm per pair of empties, in the code's order, so the arms are disjoint
  and the last one compares the two keys.
  `SecondaryIndexes` is the `flat_map` over the fields, with `FieldIndexes`
  as the match on the field type.
- `Prepare` and `Build` both call `GetOutputSchema`. Proto generation is
  a step that may fail. `Build` may run without `Prepare`.
- `Build` goes on into `open_or_create_cache`. Its `open_rw_cache` fails,
  returns the cache the alias names (phase `opened`), or finds no alias
  (phase `creating`). `CreateCache` is `create_cache`, which adds a cache
  with a fresh physical name to `created` and records its schema in
  `cacheSchema`. `CreateAlias` is `create_alias`, which points `alias` at
  it. `NewSink` is `CacheSink::new`, whose record count can fail.
  `BuildFails` is the `?` on each of these errors.
- `CommitEpoch` is `CacheSink::commit` on the built sink. It adds an epoch
  to the open cache's `epochs` and to `committed`. `committed` is the
  pipeline's count of committed epochs, after which the sources resume.
- `Crash` kills the process at any step. The factory starts anew with the
  same configuration. The cache manager's state (`created`, `cacheSchema`,
  `alias` and `epochs`) persists, as spec 6's persisted layout requires.
  The cache manager's code is not among the sources, so that state is
  modelled from spec 4.5 and 6.
- `BuiltPrimaryWellFormed` is spec 2's rule that a schema's primary index
  has in-bounds, unique positions, applied to the cache a built sink holds.
  `SchemaMatchesSpec` takes the positions the configured names denote as
  the code computes them, repeats included, so it does not check this.
- `SchemaMatchesSpec` compares the result with a declarative reference
  written from spec sections 2 and 6. The reference gives the positions
  each name denotes, the set of derived indexes, and the conditions under
  which build must fail. A reopened cache is checked with the indexes it
  was created with.
- `DurableCommits` says that the cache a built sink opens holds every
  committed epoch, and that a cache the alias does not name holds none.
  Breaking it takes several steps: a failed or interrupted
  `create_alias`, a commit, a crash and a rebuild. The mutant
  `CreateAliasIgnoresError`, in which the sink runs on the unaliased
  cache, does break it: the rebuild creates an empty cache, while the
  sources resume after the lost epoch.
- `AliasStable` is an action property: once the endpoint's alias names a
  cache, no step points it at another. The mutant `BuildMissesAlias`, an
  `open_rw_cache` that does not find the existing alias, breaks it: the
  build creates a new cache and aliases it.
- `cacheSchema` is a function on `created` alone, so that its values are
  all records.

## 4. Runs

### The cache sink

Every sink run uses these bounds:

- 3 keys and 2 values, as model values, with symmetry over each set;
- a channel capacity of 2;
- at most 6 delivered operations and 2 restarts.

These bounds are enough for the cases that matter:

- a primary-key-changing update;
- a delete followed by an insert, which makes the id collide;
- a full channel;
- a restart after a half-done epoch.

The violations are found within 3 to 5 steps.

Deadlock checking is off. A halted node that has used its restarts, with
every operation delivered, really stops.

| Run | Config | Expect | Shows |
|---|---|---|---|
| `sink_halt` | `MCCacheSink.cfg` (notifier, threshold 0) | pass | Types hold. The primary index is consistent. The committed cache equals the upstream table of the last commit. The subscriber converges to the open transaction. |
| `valid_ops_never_fail` | `MCCacheSinkIds.cfg` | violation | insert k1, insert k2, update k1: the update fails because the record id taken from the entry count is live. |
| `threshold_partial_apply` | `MCCacheSinkPartial.cfg` | violation | Under an error threshold, a half-done update is committed. |

### The window, the MAX aggregation and the app UI

| Run | Config | Expect | Shows |
|---|---|---|---|
| `window_halt` | `MCWindowProcessor.cfg` (threshold 0) | pass | Every delta the window sends is accepted downstream, and while the node runs the downstream table is the window view of the upstream. |
| `window_threshold` | `MCWindowThreshold.cfg` (threshold 1) | violation | A BatchInsert with one non-timestamp row is skipped whole; the later Delete of a good row of it sends deletes the downstream rejects. |
| `max_test_scenario` | `MCAggregationMaxTest.cfg` | violation | The spec's operator meets every assertion of the MAX test except the order of the cross-group update's two deltas. |
| `app_ui_locks` | `MCAppUIState.cfg` | pass | Two handler tasks never deadlock, every call returns, and no running pipeline becomes unreachable. |
| `one_pipeline_at_a_time` | `MCAppUIOnePipeline.cfg` | violation | run's stop only signals the old pipeline, so two pipelines run at once. |
| `tempdir_outlives_pipeline` | `MCAppUITempDir.cfg` | violation | stop removes the TempDir while the pipeline thread still runs. |
| `sink_schema` | `MCSinkSchema.cfg` | pass | Build succeeds exactly on a consistent configuration and gives the cache the indexes the spec derives. Across crashes at any step of `open_or_create_cache`, a built sink's cache holds every committed epoch, and orphan caches hold none. The alias, once set, is never re-pointed. |
| `sink_repeated_key` | `MCSinkSchemaKey.cfg` | violation | A configured key naming one field twice, with an empty upstream key, is built into a cache whose primary index repeats a position (`<<1, 1>>`), which spec 2 forbids. Found in 4 steps: build, create_cache, create_alias, CacheSink::new. |

Bounds:

- The schema derivation: up to 2 fields, with 2 names and the types Int,
  String and Text, and up to 2 configured names. These inputs reach every
  arm of both matches, an unknown name, a repeated name, and a key that
  equals the upstream one or differs from it in order. Two physical cache
  names, 2 commits and 2 crashes: a crash or failure can orphan one
  cache, and a later build still has a name to create the next one under.
  A commit can also fall on either side of a crash (31,931 states).
- The window: 2 keys, times 0..2 and a non-timestamp, 3 windows, 5
  operations. A row falls in one or two windows, so an update can move a
  row to other windows, keep one window, or change its key.
- The aggregation: the test's two groups and three values and its eight
  inputs, in order.
- The app UI: 2 tasks, 4 calls, 2 pipeline threads. Two tasks are enough to
  interleave run with run, run with stop, and build with get_current. Two
  threads are enough for a replaced pipeline.

Fairness in `app_ui_locks`: the tokio runtime polls every task that can go
on (weak fairness on each busy task's step), the semaphore grants the head
of a queue whose permits are free (weak fairness on `Grant`), and a thread
whose shutdown fired returns (weak fairness on `PipelineStops`). A panic is
not required to happen. No symmetry is used, because the run checks a
liveness property. Deadlock checking is off in every run: each run is
bounded by a number of calls or operations, after which it really stops.

Each property of a passing run has a mutant in `PROJECT.json`: a plausible
bug in the mapped code that TLC shows breaks the property.

## 5. What is proved

`CacheSinkProofs` proves, for every value of the constants that satisfies
`ConstantsAssumption`:

- `TypeCorrect`: `Spec => []TypeOK`.
- `PrimaryIndexInvariant`: `Spec => []PrimaryIndexConsistent`.
  - Neither this nor `TypeOK` is inductive alone. Typing the new version
    of an update needs the old key to point at a live record, which is the
    consistency property. So the two are proved together as
    `IInv == TypeOK /\ PrimaryIndexConsistent`.
  - The supporting lemmas are `PkInsert` and `PkDelete`: the bijection
    survives a put under a fresh id and key, and a delete of a key with its
    record.
- `CommittedMatchesUpstreamInvariant`: under `ErrorThreshold = 0`,
  `Spec => []CommittedMatchesUpstream`.
  - The strengthening is `Mirror`: a running node's open transaction holds
    exactly the upstream table. Commit copies the open transaction, so the
    invariant needs it.
  - The lemmas `ContentsPut` and `ContentsRemove` compute the contents after
    the cache's two primitive steps.
  - Every failure halts the node (`FailHalts`), and only `Restart` resumes
    it, from the committed state.
- `MirrorInvariant`: under `ErrorThreshold = 0`, `Spec => []MInv` with
  `MInv == IInv /\ Mirror`. The results under the halting policy are drawn
  from it.

`CacheSubscriberProofs` proves, for a sink built with a notifier
(`HasNotifier`) and halted on its first error (`ErrorThreshold = 0`):

- `SubInvInvariant`: `Spec => [](IInv /\ SubInv)`.
  - `SubscriberConverges` is not inductive. It says nothing while
    notifications are in flight, and every process step sends one.
  - `SubInv` says that, while the node runs, the subscriber gets from its
    rows to the open transaction by applying the notifications in the
    channel in order.
  - It is stated as a chain of intermediate views (`ViewChain`), not as a
    fold over the channel. A send adds a view at the end (`ChainAppend`),
    a receive drops the first (`ChainTail`), and a restart starts a chain
    of one (`ChainEmpty`). So no induction over the channel is needed.
  - `ViewPut` and `ViewRemove` say that each notification describes the
    change the cache call made, versions included. A failed call or
    `try_send` halts the node, which makes the invariant vacuous until a
    restart.
- `SubscriberConvergesInvariant`: `Spec => []SubscriberConverges`.
  - Without a notifier the property fails, and the sink runs assume one.

`AppUIStateProofs` proves, for every number of tasks, runs and calls that
satisfies `AppUIAssumption`:

- `TypeCorrect`: `Spec => []TypeOK`.
- `NoOrphanPipelineInvariant`: `Spec => []NoOrphanPipeline`.
  - `NoOrphanPipeline` is not inductive alone. `RunSpawn` writes a task's
    `spawned` slot, and that loses nothing only because the slot was empty.
    The strengthening `SpawnedPending` says a task holds a spawned pipeline
    only while it waits at `r_reg` to register it. The inductive invariant
    is `IInv == TypeOK /\ SpawnedPending /\ NoOrphanPipeline`
    (`IInvInvariant`).
  - The lock lemmas (`LockType`, `ReleaseType`, `GrantType`) show that each
    RwLock operation leaves every lock well formed.
  - There is one lemma per handler step. `StopTakeStep` and
    `RunRegisterStep` carry the argument: whatever they take out of
    `run_thread` has its shutdown fired in the same step.

`WindowProcessorProofs` proves, under `ErrorThreshold = 0`, for every set
of keys, times and windows and every window strategy `Assign` that
satisfies `WindowAssumption` (which adds that `Absent` is not a row):

- `DownstreamNeverRejectsInvariant`: `Spec => []DownstreamNeverRejects`.
- `WindowViewMaintainedInvariant`: `Spec => []WindowViewMaintained`.
  - Both follow from `IInv`: types, every upstream row sits under its own
    key (`KeysMatch`), nothing was rejected, and a running node has
    `errors = 0` and `down = WindowView(upstream)`. The last conjunct is
    what makes `~rejected` inductive: a batch is accepted because the
    downstream table is the view of the upstream one.
  - `DeleteView`, `InsertView` and `BatchView` show that a delete, insert
    or batch-insert batch is accepted by the view and yields the view of the
    new upstream table. `DeleteSilent` and `InsertSilent` show that a row
    whose execute fails changes nothing.
  - `UpdateStep` chains `DeleteView` on the upstream table with
    `InsertView` on the table with the old row removed. That is the order
    in which `process` sends the two halves.
  - `CallStep` covers the error count: an error sets `errors` to 1 and
    halts the node, after which no `Process*` action is enabled.
  - With a positive threshold the theorem fails, and the `window_threshold`
    run shows why.

`AppUIDeadlockProofs` proves, under `AppUIAssumption`:

- `LockDisciplineInvariant`: `Spec => [](IInv /\ LockDiscipline)`.
  - `NoDeadlock` is not inductive: it says nothing of who holds which
    lock. `LockDiscipline` supplies that. `AwaitedLock(p)` is the lock
    a task at await point `p` requests. `Owned(p, c)` is the set of locks
    it holds by then. Over every reachable state:
    - a task holds only locks in `Owned` or its awaited lock;
    - it waits only in the queue of its awaited lock, and not while
      holding it;
    - no queue holds a task twice, so a grant removes the head from the
      waiters;
    - a task at `r_check` is in `run`, so its stop holds dozer.
  - `QueueAppend` and `QueueTail` compute the waiting tasks after a
    request and a grant. `LockEffect`, `ReleaseEffect` and `GrantEffect`
    say which holders and queues each RwLock operation changes.
  - The two step lemmas are `LockMove` (take a lock and move on) and
    `ReleaseMove` (drop locks and move on or return). Every handler step
    is an instance of one of them.
- `NoDeadlockInvariant`: `Spec => []NoDeadlock`.
  - The argument goes down the lock order (`Rank`). Suppose every busy
    task waits and no head can be granted. Then a non-empty queue is
    blocked by a holder, and that holder waits on a later lock
    (`BlockedByLater`).
  - So error_message's queue is empty, then run_thread's, then dozer's,
    and no task can be waiting.

`SinkSchemaProofs` proves, for every set of cache names and every bound
on fields, commits and crashes that satisfies `SchemaAssumption`:

- `CacheIInvInvariant`: `Spec => []CacheIInv`.
  - `DurableCommits` is not inductive alone. A crash at phase `creating`
    or `aliasing` is harmless only because no alias exists yet, so the
    rebuild cannot open a different cache. A commit lands in the aliased
    cache only because an `opened` or `built` sink always has
    `open = alias`.
  - `CacheIInv` therefore adds these facts: with no alias there are no
    commits; the aliased cache holds exactly `committed` epochs; every
    other cache holds none; the two middle phases see no alias, and
    `aliasing` has a created cache pending; an open sink uses the alias.
  - There is one lemma per action. `Prepare` and `Build` need
    `SchemaErrors`, which bounds the error `GetOutputSchema` can return.
- `TypeCorrect`: `Spec => []TypeOK`.
- `DurableCommitsInvariant`: `Spec => []DurableCommits`.
- `AliasStableProperty`: `Spec => AliasStable`. `CreateAlias` is the only
  step that writes `alias`. `CacheIInv` says it runs with no alias set.

`SinkIndexProofs` proves the schema derivation for every set of names,
every type set allowed by `SchemaAssumption`, and schemas and keys of any
length:

- `SchemaMatchesSpecInvariant`: `Spec => []SchemaMatchesSpec`.
  - `GetOutputSchemaSpec` covers `get_output_schema` for any fields, key
    and upstream index. It fails exactly when the endpoint is
    `Misconfigured`, and otherwise returns the spec's primary positions
    (or the upstream index) and `SecondaryIndexes`.
    - `PositionSpec` covers the search for a name. It yields the first
      matching position, or 0 when no field matches.
    - `ConfiguredPositions` lifts this to the whole configured key.
    - `PrimaryIndexArms` gives the four arms of the match.
  - `SecondarySpec` covers the flattened indexes. Their set is
    `SpecSecondary`, each appears once, and their first fields ascend.
    It rests on `SecondaryGood`, an induction on the number of fields.
    - `FlattenSeq` is a recursive function of a LET. `FlatFn` names the
      same fixpoint, so that its prefixes can be reasoned about.
    - The induction is a least counterexample. `NatHasLeast` says every
      non-empty set of naturals has a least element, and follows from
      `WFMin` and the well-foundedness of `<` on `Nat`. This avoids the
      library's induction theorems, which take an operator parameter.
    - `ConcatGood` is the step: appending one field's indexes
      (`FieldGood`) to good indexes for the fields before it.
  - `SchemaIInv` is the inductive invariant. It strengthens `CacheIInv`
    with four facts:
    - a configuration error is the one `get_output_schema` returns;
    - every phase past `prepare` was reached only without an error;
    - every created cache holds the returned schema;
    - a built sink holds the schema of the cache it opened.
  - `SchemaIInv` is needed because `SchemaMatchesSpec` says nothing of
    the phases between `build` and `CacheSink::new`, or of the schemas
    of caches a crash left behind and a rebuild reopens. `SchemaIInv` was
    checked with TLC as an invariant of the `sink_schema` instance before
    it was proved.

Only TLC checks the following:

- the violations;
- the app UI's `CallsReturn`. It is a liveness property, out of the
  prover's reach.

## 6. Not modelled

- The cache manager's own code: its state is modelled from the spec in
  `SinkSchema`. A configuration changed between two runs is not modelled:
  `open_rw_cache` would reopen the cache with its old indexes, and the
  code does not compare them. This is listed as a hazard.
- Queries and secondary indexes (planned).
- The schema identifier, the printing of the schema and the proto files'
  contents in `prepare`.
- The progress-bar counter.
- The tests of the Kafka connector and the proto generator.
- Liveness of the sink: no fairness is assumed for it.
- The app UI's `set_sender` and `broadcast`. The sender lock is only ever
  taken alone, and broadcast's nested `get_current` only takes read locks.
- The aggregation functions other than MAX, and the window strategy's code.
