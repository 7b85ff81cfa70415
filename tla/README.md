# Verification of videobook-engine

TLA+ models of videobook-engine, the TLC configurations that check them on small instances,
and TLAPS proofs for the properties that matter most. The engine keeps one book per catalog:
a SQL database with Dolt history (DoltLite), a content-addressed object directory, a queue of
jobs, and an API over them. Paths below are relative to the repository (`src/store.ts` is the
store of the engine).

## 1. The system

### Components

| Component | Sources | State | Operations |
|---|---|---|---|
| DoltStore | `src/store.ts` | SQL rows, Dolt index and log, `runtime_commit_outbox`, schema version; in memory `writeChain`, `pendingSemanticCommit` | `semantic`, `semanticOperation`, `runtime`, recovery and migrations at open, `snapshot`, `gcCatalog`, `push` |
| JobQueue | `src/job-queue.ts` | `runtime_jobs`, `runtime_artifact_views`; abort handlers in memory | `enqueue`, `dequeue`, `heartbeat`, `complete`, `fail`, `abort`, `abortArtifact`, `markCompleting`, `reap` |
| QueueRunner | `src/job-queue.ts` | the `active` map, timers | `pump`, `run`, heartbeat timer, reap timer, `stop` |
| Engine | `src/engine.ts` | `job_runs` | `recordTerminalJob`, `reconcileTerminalJobs`; wires the parts |
| ObjectStore | `src/cas.ts` | files under `objects/sha256`, the remote store | `put`, `import`, `ensureLocal`, `deleteLocal`, `publish`, `unpublish`, `listLocal` |
| Storage API | `src/storage.ts` | `objects.forgotten_at`, `runtime_object_publications`, `backup_state`, `last_backup_head` | `deleteObject`, `gc`, `backup`, `status` |
| Files, workspaces | `src/files.ts` | `artifact_files`, workspace directories, `runtime_workspace_entries` | write, delete, rename, materialize, evict |
| Artifacts | `src/artifacts.ts` | `artifacts` and what hangs on them | create, label, delete |
| History | `src/history.ts` | reads the log | revisions, diff, `restoreBook` |
| Runtime services | `src/runtime-services.ts` | `runtime_artifact_views`, `runtime_pending_tasks`, `runtime_generation_errors`, `runtime_resource_leases` | artifact work, pending tasks, failures, locks, their reaper and recovery |
| ModelWorkerPool | `src/model-worker-pool.ts` | worker processes, queue of at most 64 calls | request, cancel, time out, stop, evict idle workers, close |
| Edits | `src/edits.ts` | `edits`, clips, transitions, captions of a sequence | preview and commit against a base revision, restore |
| Sequences, order keys | `src/sequences.ts`, `src/order-keys.ts` | tracks and their keys | add, move, update, remove a track |
| Notebooks | `src/domain.ts`, `src/notebook-grid.ts`, `src/generations.ts` | notebooks, cells, edges, runs, generations, entities | cell by cell and as a whole document |
| Tags | `src/tags.ts`, `src/tag-merge.ts`, `src/tag-transfer.ts`, `src/tag-queries.ts` | manual, automatic and dismissed tags, analysis snapshots | assign, dismiss, replace by an analysis, transfer, query |
| Fork and merge | `src/fork.ts`, `src/merge-policy.ts` | two catalogs and a store | bootstrap, merge back, upload, push |
| Temporal search | `src/temporal-search.ts`, `src/temporal-vector-index.ts`, `src/temporal-index-cache.ts` | manifests, batches, generations, segments; a cache per process; graph files | commit a batch, activate, invalidate, query, prepare, clean up |
| Similarity | `src/similarity.ts` | one embedding row per artifact; a cached index per kind | index, query |
| Archive | `src/book-archive.ts` | snapshot directories, a zip file | snapshot, pack, import |
| Catalog close | `src/catalog-close.ts`, `src/catalog-gc-state.ts` | the tail of the catalog file, the compaction record | close, collect, remember |
| Model files | `src/model-file-resolver.ts` | downloaded files and receipts | fetch, verify, publish |
| Arithmetic | `src/mvp-time.ts`, `src/usage.ts` | none | media time, roll-ups |
| Media and model programs | `src/media*.ts`, `src/model-worker.ts`, `src/isolated-models.ts` | none | external programs |

### How they interact

- Every semantic write of every API goes through `DoltStore.semantic`: `serial` chains writes, the
  work of one write is synchronous, and its rows, its outbox row and its Dolt commit are one
  operation of the history.
- Runtime rows (jobs, leases, publications) are changed by `DoltStore.runtime`, one synchronous
  SQL transaction each, which does not wait for the write chain. Between an `await` and the next
  transaction anything else can run.
- Files and the remote store are changed with an `await` per call, outside of any transaction.
- Abort signals reach a handler by callback (`onAbort`), from the heartbeat timer, or not at all
  (`deleteArtifact`, `restoreBook` change rows by SQL of their own).
- The process can be killed anywhere. What opening makes good: the outbox, missing `job_runs`
  rows, expired leases (through the reaper).

### What is hard, and what must be right

- **DoltStore.** Two commits for one write; kill or exception between any two steps; recovery at
  open and before the next write; migrations at open that are themselves such writes. Right means:
  each durable write has one history entry, holding its own rows and no others, in order; an
  exposed catalog owes nothing.
- **JobQueue, QueueRunner, Engine.** A lease that expires while its handler runs, answers after
  the job was given to another handler, retries, two unique indexes, audits written after the
  outcome. Right means: bounded attempts, one active job per key, only the newest handler decides,
  outcomes are final and audited, every job ends.
- **ObjectStore, Storage, Files.** Deletion of files after the commit that forgets them, beside
  imports, downloads and backups, each with an `await` between its steps. Right means: no live
  object loses its last bytes, forgotten bytes stay away, a reference is severed only by force, a
  status or a pushed catalog claims no more than the remote store holds.
- **Runtime services.** Ownership is checked, then a write is awaited; owners die. Right means: whose
  work has ended never gets it back, a task changes hands only through its deletion, fences of a
  resource grow, nothing stays blocked by a dead owner.
- **ModelWorkerPool.** Late answers, timers, exits and a bound on processes. Right means: each call
  is answered once and in the end, no wake-up is lost, a rejected call has no process left.
- **Edits, sequences, notebooks.** All of them validate what they read, wait for the write chain and
  write. Right means: what commits is what was shown, locked tracks stay in place, an edit shows no
  source tick twice that was shown once, a track can always be moved, cells keep apart and move only for
  a cell that was put in their place.
- **Tags, fork and merge.** Two sides change what a row-wise merge combines. Right means: an
  analysis is whole, a dismissal needs consent to go, deleted bytes stay deleted on both lineages,
  objects precede the catalog that names them, one transcript is current.
- **History.** Right means: each revision can be read, streams have files, a restore brings back
  neither deleted bytes nor work that it ended.
- **Indexes.** A cache patched in many places, awaits between reading and writing. Right means:
  what is cached is what is stored, a vector belongs to the bytes its row names.
- **Archive, catalog close, model files.** Processes die between steps, and files are damaged. Right
  means: a snapshot is one idle revision and arrives whole or not, a closed file is left alone and
  its record is true of every transaction, no bytes of a remote model are loaded or published that
  match no digest.

## 2. Modules

| Module | Models | Extends |
|---|---|---|
| `SemanticHistory` | what a semantic write promises: an atomic history | Sequences |
| `SemanticStore` | the two-step commit, outbox recovery, open, migrations, sweep | standard modules |
| `SemanticStoreMC`, `SemanticStoreProofs` | symmetry for TLC; proofs | `SemanticStore` |
| `JobQueue` | queue, runner, audit, and the two writes that abort jobs by SQL | standard modules |
| `JobQueueProofs` | proofs | `JobQueue` |
| `ObjectStore` | bytes, object rows, deletion, collection, backup | standard modules |
| `ObjectStoreMC`, `ObjectStoreProofs` | symmetry and the callers of the run; proofs | `ObjectStore` |
| `ModelWorkerPool`, `ArtifactRuntime` | the pool; work, tasks and failures of artifacts | community modules |
| `RuntimeSuite`, `RuntimeProofs` | the queue, the pool and the artifacts, side by side; proofs | these three; the suite and `JobQueueProofs` |
| `Timeline`, `TimelineMC`, `TrackOrder` | edits and tracks of a sequence; order keys | community modules |
| `Notebook` | the board | community modules |
| `RowMerge`, `ForkMerge`, `Tags` | three-way merge of a table; forks; tags | `RowMerge` by the two others |
| `History` | revisions, restores, deletion of artifacts | standard modules |
| `BookSuite` | what a book says | `Timeline` to `History` |
| `BookProofs` | proofs | `BookSuite` |
| `Workspaces`, `BookArchive`, `CatalogClose`, `ModelFiles`, `ResourceLocks` | one component each | community modules |
| `SearchIndex`, `SearchIndexMC`, `VectorIndex`, `Similarity` | the indexes | standard modules |
| `MediaSuite` | what lies around the catalog | the modules of the last two rows |
| `CatalogProofs` | proofs | `BookArchive`, `CatalogClose`, `Workspaces` |
| `IndexProofs` | proofs | `VectorIndex`, `Similarity`, `SearchIndex` |
| `MediaProofs` | proofs about model files, leases and the suite | `MediaSuite`, `CatalogProofs`, `IndexProofs` |

`SemanticStore` implements `SemanticHistory` (property `ImplementsHistory`, theorem `Refinement`).
The other modules rest on that result: a semantic write, such as the tombstone of `deleteObject`,
the commit of an edit or of an integration, is one action there, and what runs before and after the
`await` of its turn are others.

A **suite** puts modules side by side for one run of TLC. The variable `part` chooses at the start
which of them runs; the others stay as they start. The parts have no table in common: where two
components do touch one, one module models both sides (`JobQueue` has `deleteArtifact` and
`restoreBook` as writers of jobs, `ArtifactRuntime` the job queue as a writer of views, `History` the
jobs that a restore ends, `ForkMerge` and `Tags` both catalogs). A suite thus checks exactly what a
run per module would check; a property of one module holds trivially in the behaviours of another.

### SemanticStore and the code

A row change is a pair `<<operation, table>>`; `working`, `head` and `staged` are the sets of
changes in the SQL database, in the last Dolt commit and in the index, so that "dirty" is
`working \ head`. `serial` runs one write at a time and one process owns the catalog
(docs/semantic-durability.md, "One owning process"), so there is one program counter `pc`, and
`mode` says what the steps are done for: opening, a migration, the repair of left-over tags, a
retry of the outbox, or a write.

| Code | Actions |
|---|---|
| constructor, `initialize` | `Open`, `RecoverRow`, `Recovered`, `SweepDirty`, `SweepMigrate`, `Expose` |
| `semanticNow` | `Call` (recovers the outbox first after a failed write), `NoOp` |
| `commitSemantic` | `Mutate`, `SqlCommit` |
| `commitOutbox` | `ProbeClears`, `ProbeStages`, `StageTable`, `DoltCommit`, `ClearRow`, `Return` |
| an exception of any call; SIGKILL | `Throw`, `Crash` |

`Mutate` chooses the tables an operation declares and the ones it changes. With
`StrayTables = {}` it changes only what it declares, the contract of `OperationInput.tables`;
otherwise it may also change tables it did not declare, the engine bug for which
`verifyCleanSemanticWorktree` exists. An open that finds left-over tags commits them and goes on
without a second look (`src/store.ts:903-908`): `Return` leads from the repair to the migrations, if
one is left, or hands the catalog out. After a kill the Dolt index may be there or not
(`IndexAfterKill`): the native database does not say. `effects` and `answer` are history
variables for the properties.

### JobQueue and the code

Every transaction of the queue is synchronous, so each is one action. `executions` are the
handlers that run, as `<<job, fence>>` pairs: two of them can run one job. `active` is the map of
the runner, keyed by job. `settling` are handlers that have reported an outcome and wait for its
audit. `toRecord` are outcomes whose audit is not written yet; it is lost by a kill and rebuilt by
`reconcileTerminalJobs` (action `Open`). Time is the action `Expire`: a live lease is passed by.
`deleting` holds the jobs that a `deleteArtifact` has read before it waits for the write chain.

| Code | Actions |
|---|---|
| `enqueue`, `findDuplicateRow` | `Enqueue` |
| `dequeue` from `pump` | `Dequeue` |
| the heartbeat timer | `Heartbeat`, `Expire` |
| `reap` | `Reap` |
| `run`, `complete`, `fail` | `Settle`, `Release`, `External` (callers without a fence) |
| `markCompleting`, `abort`, `abortArtifact` | `MarkCompleting`, `Abort` |
| `deleteArtifact`, `restoreBook` | `DeleteBegin`, `DeleteCommit`, `RestoreBook` |
| `recordTerminalJob`, opening, SIGKILL | `RecordTerminal`, `Open`, `Crash` |

`recordTerminalJob` is called in the turn of the outcome; only `reap` and `abortArtifact` give way
between two audits. The model lets others run before any audit, which allows more than the code.

### ObjectStore and the code

`row` is the `objects` row (none, live, tombstone), `local` the file with its age against the
grace window, `remote` the remote store, `published` the publication rows, `referenced` what rows
of HEAD name. `writing`, `downloading` and `fetched` are callers between two steps. `forget` is the
`deleteObject` or `gc` in flight with the lists it has read, `backup` the backup in flight.

| Code | Actions |
|---|---|
| `put`, `import`, `linkObject` | `Place`, `Link`, `WriteFails` |
| other rows that name an object | `Reference`, `Unreference`, `Restore` (history merge of object rows) |
| `ensureLocal` | `ReadMissing`, `Fetch`, `Download` |
| `deleteObject` | `DeleteObject`, `DeleteRefused`, `DeleteCommit`, then the shared steps |
| `collectGarbage` | `CollectGarbage`, `CollectCommit`, then the shared steps, `StatStray`, `RemoveStray` |
| shared: `deleteLocal`, `unpublish`, `clearPublication` | `DeleteLocal`, `UnpublishHead`, `UnpublishDelete`, `ClearPublication`, `ForgetReturns`, `ForgetFails` |
| `backup`, `publish` | `Backup`, `PublishHead`, `Upload`, `VerifyHead`, `Published` (with the push of the last one), `BackupFails` |
| ten minutes; SIGKILL | `Age`, `Crash` |

`Overlaps` says what may be in flight beside `deleteObject` and `gc`. The comment of
`deleteObject` asks to "Run this and `gc` only while no imports are in flight"
(`src/storage.ts:146`); with `Overlaps = {}` the model follows it.

### The runtime and the code

`ArtifactRuntime`: an owner is a number from `lastOwner`, standing for the UUID that each `begin`
mints. `writes` is the queue of semantic mutations behind the write chain, by which failures are
recorded and cleared. `ModelWorkerPool`: the synchronous chains `pump`-`start`-`dispatch` and
`cancel`-`stop` belong to the step that calls them (`Pumped`, `Cancelled`); `Pass` is the loop of
`pump` over the queue, as a function of the place it has come to. `ResourceLocks`: one
transaction per call.

| Code | Actions |
|---|---|
| `artifactWork.begin`, `complete`, `renew`, `fail` | `Begin`, `CompleteWork`, `RenewWork`, `FailWork` |
| pending tasks | `WriteTask`, `DeleteTask`, `UpdateCompleting`, `FailPending`, `DropTask` |
| failures, and their turn at the chain | `WriteFailure`, `ClearFailure`, `RunWrite` |
| other writers of the view | `EnqueuedView`, `SettledView`, `MarkWorkspaceReady`, `ResetArtifactRuntime`, `DeleteArtifact` |
| recovery, the reaper, deadlines | `Recover`, `ReapViews`, `LapseView` |
| pool: `request`, `start`, `dispatch`, `receive` | `Request`, `Start`, `StartFails`, `Dispatch`, `Receive`, `Refuse` |
| pool: `cancel`, timers, exits, `stop`, `close` | `TimeOut`, `IdleTimer`, `Kill`, `Exit`, `Stopped`, `ClosePool` |
| locks: acquire, release, clean, reap, revoke | `Acquire`, `ReleaseBy`, `CleanStale`, `ReapLeases`, `RevokeArtifact`, `PassEnd` (time) |

### A book and the code

Every caller has a phase: what it has read is kept in its record over the `await`, and the commit uses
it as the code does. `Timeline` counts frames in the sequence and ticks in the source and folds style,
transform, gain and speed of a clip into its `look`; write sets and conflicts are those of `edits.ts`.
`TrackOrder` writes a key as an integer and the digits of its fraction, in a small base; what the code
computes digit by digit, a fraction between two others, is given by the first digit in which they
differ. A trim may name the range it shows (`NamesRange`). `Notebook` has the constraints of the schema
as refusals of the transaction (`WriteCellFails`, `WriteNotebookFails`). `ForkMerge` and `Tags` share
`RowMerge`, the three-way rule; a row of `objects` that both sides changed is merged only if they differ
in `forgotten_at` alone, and the two lineages may have created the object at different times
(`ObjectClash`).

| Code | Actions |
|---|---|
| `previewEdit`, `commitEdit`, `restoreEdit` | `Preview`; `BeginCommit`, `CommitEdit`; `BeginRestore`, `CommitRestore` |
| `addTrack`, `updateTrack`, `removeTrack` (rows) | `AddTrack`; `BeginUpdate`, `CommitUpdate`; `BeginRemove`, `CommitRemove` |
| `addTrack`, `moveTrack` (order) | `BeginAdd`, `CommitAdd`; `BeginMove`, `CommitMove`; `RemoveFromOrder` |
| notebook calls | an `Ask...` that validates and a commit, for cells, whole documents, runs, generations, entities |
| `bootstrapFork`, backups, commits of both sides | `BootstrapFork`, `UpstreamBackup`, `UpstreamCommits`, `ForkCommits` |
| `mergeBack` | `StartMerge` (merge and policies), `UploadOne`, `PushMerge`, `AbandonMerge`; `AdoptMerge` (upstream goes on from main) |
| tags: add, remove, restore | `AddManualTags`, `RemoveTag`, `RestoreTag` |
| tags: an analysis, transfer, fork, restore of the book | `StartAnalysis`, `ReplaceAutomatic`, `ReplaceOriginal`; `ExportTags`, `ImportTags`; `ShareTags`, `MergeTags`; `RestoreTags` |
| artifacts, files and streams as revisions | `CreateArtifact`, `PutFile`, `AddStream`, `RemoveFile`, `DeleteArtifactRow`, `ForgetObject`, `RecordOperation` |
| `restoreArtifact`, `restoreBook`; jobs | `RestoreArtifact`, `RestoreBook`; `Enqueue`, `Advance` |

### The surroundings and the code

`Workspaces` has one artifact: `files` is the catalog, `disk` the directory, `hydrated` the flag; a call
that copies every row takes them in a fixed order (`RowInHand`, `RowsLeft`). Two history variables
follow the calls, not the copies: `apart`, that no two calls in flight name one path, and `trusted`,
that this has been so, without a change from outside or a kill, since the directory was emptied or
filled without the flag. `BookArchive` gives each process an ID that is used again after its death.
`CatalogClose` tells the tail of the catalog file apart: chunks, a bare root, a marker; the native
database is modelled from how `catalog-close.ts` uses it. `since` remembers who committed since the last
collection: a transaction, a statement that completes the schema of an older engine's catalog, or the
row of a close. `ModelFiles` has one file of one model: an absolute directory, a file that the inventory
pins, one that a pinned snapshot does not list, or one whose digest the host supplies or does not.
`SearchIndex` tells texts and vectors apart by the content they came from; `VectorIndex` is the native
index of one generation with its snapshot.

| Code | Actions |
|---|---|
| file calls | `Write`, `Copy`, `Read`, `Delete`, `Rename`, `Ingest`, `Evict`, `Materialize`, `Restore` begin; 14 further actions continue them, one per `await` |
| kills; changes by other components | `KillCalls`, `InvalidateFiles` |
| snapshot, its directory, `pack` | `Snap`, `SnapOwns`, `SnapLists`, `SnapLinks`, `SnapVacuums`, `SnapReturns`, `SnapFails`, `ReleaseSnap`, `Pack` |
| import | `Inspect`, `Extract`, `PlaceBook`, `ImportFails`, beside `Damage` |
| close of the catalog | `BeginClose`, `PeerCloses`, `WriteCloseRow`, `PeerClosesAgain`, `AdoptMarker`, `DropHandle`, `Remember`, `CloseThrows`, `Finalize` (the deferred native close), `Killed` |
| the constructor and its failing | `OpenCatalog`, `CompleteSchema`, `FinishOpen`, `FailOpen` |
| writes and `gcCatalog` of a session | `BeginWrite`, `CommitCatalogWrite`, `Rollback`, `CollectCatalog`, `CollectFails` |
| search index | `RegisterManifest`, `CommitBatch`, `Activate`, `Invalidate`, `CleanupRetired`, `ReplaceMedia`, `DeleteMedia` |
| its readers | `StartQuery`, `FinishQuery`, `StartPrepare`, `PrepareNext` |
| vector index and snapshot | `SetVector`, `DeleteVector`, `StartPrepareVectors`, `AddNative`, `EndPass`, `QueryLoads`, `Abort`, `Dispose`, `Renew`, `SaveStep`, `SaveFails` |
| similarity | `StartIndex`, `TextIsRead`, `ModelAnswers`, `IndexingFails`, `BuildNeighbours`, `ReplaceOriginalOf`, `DeleteItem` |
| model files: `resolveFile` | `Get`, `Look`, `LookUnlisted`, `Receipt`, `ReadCached`, `Elsewhere`, `ReadLocal`, `Fetch`, `NoFetch` |
| model files: `snapshot`, `publish`; the world | `Verify`, `VerifyFetched`, `PublishFile`, `PublishReceipt`, `PublishFails`; `Replace`, `DamageCache`, `ChangeLocal` |

## 3. Runs

Run one with `tlc -workers 2 -config <run>.cfg <module>`; the longest takes some three minutes.

| Run | Module | Instance | Shows |
|---|---|---|---|
| `SemanticStore` | `SemanticStoreMC` | 3 operations, 2 tables, 1 migration step, 2 faults | the history is exact and owes nothing; the implementation of `SemanticHistory`; recovery finishes |
| `SemanticStoreOpen` | `SemanticStoreMC` | undeclared changes, 2 chained migrations, 1 fault | an open hands out only a clean worktree, also after a repair: it repairs left-over tags or refuses |
| `JobQueue` | itself | 2 jobs, a key, an external ID, 2 attempts, calls from outside, late timers, 1 kill | attempts, dedupe, final outcomes, audits |
| `JobQueueDeletes` | `JobQueue` | 2 jobs with deletions and restores, 2 handlers, late timers, 1 kill | fences decide; no terminal job is left without audit |
| `ObjectStore` | `ObjectStoreMC` | 2 objects, 2 faults, forgetting apart from imports | bytes of live objects stay, reads resurrect nothing, only force severs, `backed_up` is the truth |
| `RuntimeSuite` | itself | 2 jobs and 2 handlers; 3 calls, 3 configurations, 2 workers; 1 artifact, 2 tasks, 2 owners | the promises of queue, pool and artifact work, with their liveness |
| `BookSuite` | itself | 2 editors, 5 moves of tracks, a board of 2 by 2, two catalogs with 4 commits, 2 tags, 6 revisions | the promises of edits, order, board, forks, tags and history |
| `MediaSuite` | itself | 2 callers, engines, indexers or workers each; 2 manifests, 3 generations; 4 leases | the promises of workspaces, archives, close, indexes, model files and locks |
| `ObjectStorePush` | `ObjectStoreMC` | backup beside writes | finding 1 |
| `ObjectStoreMarker` | `ObjectStoreMC` | 1 object, 1 fault | finding 2 |
| `RerunIsNoOp` | `ForkMerge` | 2 transcripts, 4 commits | finding 3 |
| `VectorsComplete` | `SearchIndexMC` | 1 manifest, 2 generations, 1 query | finding 4 |

A run's property is often the conjunction of named parts, each with its own comment in the module:

| Property | Parts |
|---|---|
| `HistoryIsExact` | `CommitsOwnRows`, `ExactlyOnce`, `OrderPreserved` |
| `NothingIsOwed` | `ExposedIsComplete`, `AcknowledgedIsRecorded` |
| `FencesDecide` | `FreshFence`, `NewestDecides` |
| `JobsEndAudited` | `JobsEnd`, `AuditsWritten` |
| `PoolServes`; `AnsweredOnce` | `NoLostWakeup`, `RejectedIsStopped`, `AssignedIsServed`; `SettledOnce`, `CallsSettle` |
| `WorkIsOwned` | `EndedStayOut`, `TaskKeepsOwner`, `LapsedIsReaped` |
| `EditsAreFaithful` | `LockedKeepsPlacement`, `CommitsWhatWasShown` |
| `SequenceStaysWhole` | `TracksKeepOrder` (`RoomIsFound`, `MovesWhereAsked`), `CutsShowOnce` |
| `BoardKeepsPlaces` | `SlotsDisjoint`, `OnlyClashesMove` |
| `MergesKeepPromises` | `ForgetWins`, `AddedIsServable`, `LatestIsCurrent` |
| `TagsKeepConsent` | `AnalysisIsWhole`, `QueriesAgree`, `FencedReplacesSeen`, `DismissalsNeedConsent` |
| `HistoryKeeps` | `HistoryResolves`, `StreamsHaveFiles`, `RestoreEndsWork`, `TombstonesStay` |
| `ArchiveIsWhole` | `SnapshotIsOneRevision`, `SnapshotIsIdle`, `LiveDirectoryKept`, `RestoredIsWhole` |
| `CloseIsTruthful` | `DeferredCloseIsSilent`, `RecordIsTruthful`, `QuietSessionLeavesNoTrace` |
| `SearchIsCurrent` | `BatchesAreStored`, `MetadataComplete`, `ActiveStays` |
| `VectorsAreServed` | `NativeServesAll`, `SnapshotLoads`, `DisposedStaysEmpty` |
| `SimilarityIsExact` | `VectorOfObject`, `CacheFindsAll`, `DuplicatesAreFound` |
| `CacheIsVerified`; `LocksAreFenced` | `SealedIsVerified`, `CorruptIsNotPublished`; `FencesIncrease`, `RevokedIsFenced` |

Three properties say less than one would wish, because the code does less; the observations below say
where. `OneHandlerOnTime` counts the handlers of jobs that no call from outside has changed while a
handler of it runs (`touched`). `RecordIsTruthful` allows for the close's own row and for schema
statements since the collection. `CutsShowOnce` is about edits and not about restores, and not about
operations that name a range of the source themselves.

`CHECK_DEADLOCK FALSE` stands in the job runs, the suites and the two violations of indexes and
forks: jobs, calls, commits and revisions are bounded, and when they are used up nothing remains to
happen.

The run `ObjectStore` explores `MCSpec`, which leaves out two combinations of callers: faults after
or during a backup (`backup_state` is then not the truth, which is finding 2) and reads in flight beside
a backup (a read changes local files only, a backup the remote store and its rows). With `Overlaps =
{}` everything else runs in any order. `LiveHasBytes`, `NoResurrection` and `SeveredByForce` are
proved without these restrictions.

Liveness (`RecoveryFinishes`, `JobsEnd`, `AuditsWritten`, `CallsSettle`, `LapsedIsReaped`) asks for
the fairness below; everything else is safety and holds without it.

### Bounds, and why they are enough

- *Operations and tables.* What can go wrong in the store needs an unfinished write, a later write
  that could absorb or overtake it, and a recovery that could repeat it: two operations and the
  tables in which they overlap or not. The third is for the migration, repair or retry in between.
  `SpareOps` keeps operation IDs for migrations and repairs, which an open may need.
- *Faults.* Two: one leaves an unfinished write, one interrupts its recovery. Each further fault
  starts again from a state that two of them reach.
- *Jobs.* Two suffice for keys, external IDs and audits, since rows interact in pairs through the
  indexes, and two handlers let one job be taken while another is given back. Two attempts let a
  first run overlap a second.
- *Objects.* Two, so that one can be replaced, collected or published while the other is in use.
  One deletion or collection and one backup run at a time; callers that write and read are sets of
  contents, so any number of them is allowed for each content.
- *Time.* Leases are live or expired, files fresh or aged: comparisons with the clock have no other
  outcomes. A write commits within the grace window of ten minutes after placing its bytes, as the
  source assumes (`src/storage.ts:328`).

- *Pool.* Three calls of three configurations for two workers and a queue of one: a full queue, an
  eviction, and a call that waits behind it.
- *Two callers.* A call that reads, waits and writes goes wrong by what one other call does in
  between. Two callers, two keys, two objects make every such pair happen; bounds on revisions, moves
  and writes leave room for each of them to act, and for one to act again.
- *Timeline.* Two clips that touch on one track and a third that is heard, a free track of the same
  kind, and streams of 5 ticks, so that a split falls between ticks and is rounded; three revisions,
  for an edit, a second one against an outdated base, and a restore.
- *Order keys.* Digits 0 to 3 in place of 62, five moves. Room runs out in a fraction after one move
  per digit, so that keys grow longer within the bound. A call lowers the least integer of a key by two
  at most, once by its repair and once by its own key, so that `2 * MaxMoves < IntegerLimit` says that
  the integers are not used up; the code has 62^26 on either side of zero.
- *Forks and tags.* One row of each kind besides two transcripts, or two tags; four commits are a
  fork's, an upstream one, an integration and one more on either side.
- *Indexes.* Two manifests with spaces of their own and three generation names: two alternate in one
  space, the third is in the other. A generation name that two spaces share is excluded
  (`OwnGenerations`), see the observations. `DirectLimit` is 0, so that the native index is used.

The theorems below say the same for every value of these constants; what stays with TLC is named at
their end.

### Fairness

- `SemanticStore!FairSpec`: `WF(Open)`, a closed catalog is opened again, and `WF(EngineStep)`:
  the code between two calls is synchronous, so it goes on unless it is killed or throws, and both
  are bounded by `MaxFaults`.
- `JobQueue!QueueFairness`: weak fairness of `Dequeue` and `Reap` (the poll and reap timers of
  `QueueRunner.start`), of `Open` (the process is started again), of `Expire` for each job (time
  passes; a heartbeat that renews the lease keeps it from expiring for good), of `Settle` and
  `Release` for each execution (handlers return), and of `RecordTerminal`. Fairness is per job and
  per execution: fairness of the disjunction would let one job starve another. No outside calls,
  no deletions, no external IDs: what this part shows is the queue's own progress.
- `ModelWorkerPool!PoolFairness`: the timer of each call fires; a process that is started runs or
  fails, and one that is killed is gone. Nothing is assumed of a worker: it may never answer.
- `ArtifactRuntime!ArtFairness`: deadlines pass (`LapseView`, the clock), the interval of the reaper
  fires (`ReapViews`), and a queued semantic mutation and its continuation have their turn
  (`RunWrite`, `DropTask`: the write chain is first come, first served). Nothing is assumed of owners.

## 4. Proofs

All theorems are checked by TLAPS for every value of the constants. What they assume are the named
assumptions of the modules: types of constants, that bounds are not zero where the code needs one of
a thing, that the words for "no row" are not the name of an object (`HistoryAssumption`,
`FkAssumption`, `SearchAssumption`, `VectorAssumption`, `WsAssumption`), and that the paths of an
artifact and the tags are finite sets (`WsAssumption`, `TagsAssumption`). TLC evaluates all of them in
the runs. A theorem with a hypothesis of its own says so in its statement, and below.

**Store** (`SemanticStoreProofs`). `TypeCorrect`; then, for `StrayTables = {}`, `NoAbsorption`
(`CommitsOwnRows`), `RecordedOnce` (`ExactlyOnce`), `HistoryInOrder` (`OrderPreserved`), together
`HistoryExact` (`HistoryIsExact`); `AcknowledgedStays` (`AcknowledgedIsRecorded`), `ExposedComplete`
(`ExposedIsComplete`), together `NothingOwed` (`NothingIsOwed`); and `Refinement` (`ImplementsHistory`);
and without that hypothesis `OpenIsClean` (`OpenExposesCleanWorktree`). None of these is inductive
alone. The invariant `IInv` has four parts: `DurableInv` says that at most one row waits in the outbox,
that every uncommitted change belongs to it, and that nothing of a logged operation is uncommitted;
`StepInv` says what the process knows at each step, above all that `pendingSemanticCommit` or an opening
stands for every row in the outbox; `EffectInv` relates committed transactions to outbox, rows and log;
`HistoryInv` is the properties themselves. The heart is `SingleRow` with `PendingKnown`: a write begins
only with an empty outbox, so its entry can neither absorb nor overtake. For the refinement, each step
of `SemanticStore` is a step of `SemanticHistory` or a stutter: `SqlCommit` takes effect, `DoltCommit`
records, and `ClearRow` forgets a write without versioned rows. `OpenIsClean` does not rest on a guard:
after a repair nothing is looked at again, and `RepairAtStep` says at each of its steps that the row it
commits names every table that is dirty.

**Queue** (`JobQueueProofs`). `TypeCorrect`, `AttemptsAreBounded`, `DedupeIsKept`,
`FencesAreFresh` and `NewestHandlerDecides`, together `FencesDecideOutcomes` (`FencesDecide`),
`NoAuditIsLost`; and with `Deletes = FALSE`
`OutcomeIsFinal` and `AuditsAgree`. The lemma `RowSteps` reduces the handlers to five ways a row
can change (it stays, starts, is taken, is put back, ends); the theorems split on these five instead
of on the actions. `FenceInv` says that no handler is ahead of its row; `AuditInv` that an audit to
be written says what the row says. `Deletes = FALSE` is needed: see observation (c).

**Objects** (`ObjectStoreProofs`). `TypeCorrect`, `ForgottenStaysForgotten` (`NoResurrection`) and
`OnlyForceSevers` (`SeveredByForce`) hold whatever overlaps. `BytesAreKept` (`LiveHasBytes`) needs
`"write" \notin Overlaps`: `ForgetInv` says that the lists of a deletion in flight hold only forgotten
contents, or strays without a row, which a concurrent `linkObject` would break (see `GcSafeBesideWrites`
below). `StatusTellsTheTruth` (`StatusIsTruthful`) needs `Overlaps = {}` and `MaxFaults = 0`:
`StatusInv` says that a published object is remote unless its row is about to be cleared, which an
interrupted deletion breaks (finding 2).

**Runtime** (`RuntimeProofs`). `PoolServing` (`PoolServes`), `AnswersAreFinal` (`SettledOnce`),
`EndedOwnersStayOut` (`EndedStayOut`), `TasksKeepOwners` (`TaskKeepsOwner`), `OneHandlerWhileOnTime`
(`OneHandlerOnTime`), and `RuntimeTypes` and `RuntimeSafety` for the suite. `PoolInv` says that the
queue, the calls and the sessions agree with each other, and that every queued call `Waits`: for its
own busy session, for one that is stopping, or for room. That must hold between steps but not within
one, so that each handler is shown to restore it through the pass of `pump` over the queue; the pass
is a recursive function, and what it does at every place follows by a least counterexample instead of
an induction. `ArtInv` says that every owner in a view is one that was minted and has not ended. For the
queue, `HandlerInv` relates executions, the `active` map and the rows while heartbeats are on time, for
the jobs that are not `touched`. `OneHandlerWhileOnTime` assumes nothing of outside calls, deletions or
kills; what it excepts are the jobs themselves that others change under a running handler: one marked
completing, whose heartbeat is refused, and one failed from outside, which is queued again without a new
fence. Both get a second handler beside the first. `RuntimeParts` shows that each step of
the suite is a step of one part and a stutter of the others. TLC checked `PoolInv` and `HandlerInv`
on small instances before they were proved.

**Catalog** (`CatalogProofs`). `ArchiveWholeness` (`ArchiveIsWhole`): `ArchiveInv` says that the rows a
snapshot has read are those of a revision it named, that no other living process can claim its
directory, and that a package is a whole revision or damaged and seen to be. `CloseTruth`
(`CloseIsTruthful`): `DebtIsSeen` says that what a close has to write shows in the tail of the file,
`CompactedIsCompact` that a record which still matches the stamp is right about transactions, and
`QuietIsQuiet` that a session without writes has changed nothing. `WorkspaceAgreement` (`WorkspacesAgree`):
`Fits` says what each call in flight has read or copied, that a call alone on its paths knows
their rows, and that a call that fills the directory has made current every path it has passed.

**Indexes** (`IndexProofs`). `VectorServing` (`VectorsAreServed`): between two passes, an entry is in
the native index, or among the changes of the pass, or the index is not in use. `SimilarityExact`
(`SimilarityIsExact`): a cached index has the rows of now, or the call that changed one has yet to patch
it. `SearchServing` and `SearchCurrency` (`SearchIsCurrent`): `SearchInv` relates segments, batches and
the generations of each space with the cache: what a refresh has not seen is what changed since.
`ActiveStays` needs the hypothesis `NamesAreOfOneSpace`, because cleanup deletes by the name of a
generation; the other two parts hold without it. `MetadataComplete` was first meant to say that the
segments of the cache are exactly those stored. The proof attempt failed for a reason: it led to the
second way of finding 4. It now says what the code does keep.

**Media** (`MediaProofs`). `CacheVerification` (`CacheIsVerified`), `LeaseFencing` (`LocksAreFenced`),
`OneActiveLease`, and for the suite `SuiteTypes` (`MediaTypeOK`) and `SuiteSafety`. `FilesInv` says
whose bytes a worker holds at each step, and where bytes without a digest can have come from; `LockInv`
that fences of a resource grow with the leases and that every grant has a row or a later one. The next
fence is the greatest of a finite set plus one: that a finite set of numbers has a greatest one is
proved from well-foundedness.

**Book** (`BookProofs`). `HistoryIsKept` (`HistoryKeeps`): `HistoryInv` says that the present rows and the
rows of *every* revision resolve against the object rows of now, because those are never removed;
that is why any revision can be restored. `ConsentIsKept` (`TagsKeepConsent`): `TagsInv` says that every
table of tags, the fork's snapshot and the merge base included, is whole and within its limits, and
that a generation names one snapshot among all that descend from each other (`Later`), so that an
analysis that finds the generation it read finds the snapshot it read. `PromisesAreKept`
(`MergesKeepPromises`) and `ForkTypes`: `Crowned` says that where there are transcripts one is current,
and none is later than it, and `Onward` that a fork has lost no row of an object and that its newest
changed transcript is the current one. From these, a merge without a clash has a current transcript
that is the latest of both sides; that there is a winner of several is again well-foundedness. What
upstream does during the upload is covered by `Descends`: a revision with another one in its past has
the object rows of that one.

For edits, `EditsAreKept` (`EditsAreFaithful`) and `TimelineTypes` hold for any tracks, clips and intents
whose records have the fields of the contracts (`TimelineAssumption`, `StartIsConsistent`). `StepIs`
says of each operation that it keeps the keys and leaves the placement on locked tracks alone
(`Spared`); `TakenIs` and `ProjectedIs` carry that through the parts of a batch and the operations of an
intent, whose states are recursive functions, by a least counterexample again. `TlInv` adds what a
restore relies on: every revision keeps the keys, and a track ID has one kind in all of them, also
while an update that was read earlier waits to be written. `CutsShareNoTick` and `SplitsShareNoTick` say
of every clip that the rounding of a cut or a split repeats no tick. `CutsAreShownOnce` (`CutsShowOnce`)
carries that through whole edits: `ShowsLess` says of two states that what is shown twice in the second
was so in the first, and of every operation, intent and batch it is shown that it leads to such a state,
since a part of a clip shows no tick its clip did not show (`SliceShows`), and no two parts show the same.

For the notebook, `PlacesAreKept` (`BoardKeepsPlaces`) and `NotebookTypes` hold for boards of any size and
any cells. `SettledIs` says that the greedy choice of the cells that keep their slots is the one set
in which each cell stands in nobody's way of higher rank, by extending it cell by cell; `RepairedIs`
follows the displaced cells to free slots one by one. The rest is short: the cell just written ranks
first, so that it is settled, and so is a cell that shares no slot. `RemoveCell` needs that a board
whose cells keep apart is left as it is (`SteadyIs`), because it has no guard against a full board.
`NbInv` adds that a document or a cell that waits for its turn is well formed by itself.

For order keys, `OrderTypes` and `OrderIsKept` (`TracksKeepOrder`) hold for any digits, tracks and callers.
`MidpointIs` and `AboveIs` say that a fraction that is made between two others, or above one, is well formed
and lies strictly there, by the first digit in which it differs (`Below`); `BetweenIs` says the same of
keys. `ListExists` and `ListIsUnique` make "the tracks as they lie" one list. `RepairIs` follows the repair
along it: each key made is above the one before and below every later key that is kept, although
several tracks had one key. `OrderInv` adds to the keys in the table what a mover holds over its `await`:
keys made of what it read, and none so low that a later move finds no room. `MoverMade` and `MadeIs`
then say where its commit puts the track if the table is still as it was.

For the whole, `BookTypes` (`BookTypeOK`) and `BookPromises` carry all of this to `BookSpec`, in which the
six parts lie side by side; `BookPromises` names every property of the run.

**Model-checked only.** `RecoveryFinishes`, `JobsEndAudited`, and the liveness in `AnsweredOnce`
(`CallsSettle`) and `WorkIsOwned` (`LapsedIsReaped`) need `ENABLED`, which is outside of the prover's
reach. What folds over data compute has no induction theorem that the provers can instantiate: the
projection of an edit, the repair of a board and that of order keys are written as functions on the
natural numbers, and each proof takes a least counterexample.

## 5. Findings

1. `ObjectStorePush`: `README.md:397-399` says that a restored catalog never points to objects that
   were not uploaded. The pending objects are listed once, and a write that commits while they
   are uploaded is part of the pushed head.
2. `ObjectStoreMarker`: `docs/engine-layout.md:635-637` says that a deletion clears the publication
   row so that a later import is published again. If the deletion is interrupted between the remote
   delete and that row, the retry finds no remote object and leaves the row: the later import is
   never published and counts as backed up.
3. `RerunIsNoOp`: `docs/engine-layout.md:418` says that running the integration again is a no-op.
   The clone point stays the merge base, so that a fork whose current transcript was demoted by the
   integration changes a row that main has changed otherwise: the rerun throws `MERGE_CONFLICT`.
4. `VectorsComplete`: `docs/temporal-search-performance.md:103` says that generation changes discard
   the in-memory state. A query that waits for its provider while another generation is activated
   builds an index of the retired one from segments that no longer include its own, and caches it;
   when that generation is activated again the index is kept, and queries miss its segments. There is
   a second way: a generation is cached, retired, cleaned up, built again under its name with other
   segments and activated before the next query. The key of the cached index
   (`src/temporal-search.ts:1042`) is then the one of before. This needs one manifest, two
   generations and some eight writes.

**Statements without a run.** The modules also define what the source says and TLC refutes when
asked; they are described here only:

- `IgnoredInsertHasDuplicate` (`src/job-queue.ts:445`): a job with a new external ID and the dedupe
  key of another active job is refused by an index and not found, and `enqueue` throws "Queue insert
  was ignored without a duplicate".
- `GcSafeBesideWrites` (the comment at `src/storage.ts:250-253`; `docs/engine-layout.md:690` warns):
  a write of the same content that commits between the commit of gc and the removal of files is
  live, referenced and loses its file.
- `LockedRejectsMutation` (`docs/mvp-prd.md:312`): a change of a clip's transform does not look at
  the lock (`src/edits.ts:441`).
- `TransitionsFit` (`src/edits.ts:1022`, `validateSequenceProjection`): a restore validates the state it
  writes for itself and writes it beside the tracks that were added since (`src/edits.ts:1275`). Two clips
  that were moved to such a track and joined there go back to their old one; the transition stays on
  the new one, and later edits of the sequence are refused for its "invalid track identity". With one
  spare video track and an intent that moves and joins, TLC needs six steps.
- `RemovedIsEmpty` (`src/sequences.ts:332`): a clip placed between the check and the commit of
  `removeTrack` goes with the track.
- `MainIsServable` (`src/fork.ts:745`): an object that the fork writes again, and of which upstream
  has a forgotten row, is not uploaded.

**Observations**, met while modelling and not part of a run:

- *Store and queue.* (a) A job marked completing keeps its lease, but `heartbeat` accepts only running
  jobs (`src/job-queue.ts:211`): the next heartbeat aborts its handler with "lease was revoked". Nothing
  renews the lease from then on, although the timers are on time: `reap` queues the job again, a second
  handler starts while the first may still run, and the end of either takes the entry of the other from
  the `active` map. `OneHandlerOnTime` excepts such jobs; only the newest handler decides
  (`FencesDecide`). (b) `abort`, `abortArtifact` and the failing branch of `reap` leave the artifact's
  view as it was. (c) `deleteArtifact` reads the active jobs before it waits for the write chain and
  updates them by ID alone: a job that completes in between is rewritten from done to aborted, and one
  enqueued in between is not aborted; `TerminalIsFinal` and `AuditMatches` are therefore checked without
  deletions. Jobs aborted by a deletion or a restore get a second `job_runs` row at the next open. A job
  enqueued as running is never reaped, and preferred types may starve others. (f) Rows of an undeclared
  table are committed by the next operation that declares it; `CommitsOwnRows` is checked with
  `StrayTables = {}` because of it.
- *Objects.* (d) The age of a stray file is read before an `await` and used after it, and `import`
  keeps an existing file with its old mtime (`src/cas.ts:78`). (e) `backup` does not look at the
  tombstone again before each upload.
- *Runtime services.* A `fail` of an outdated owner, whose check came before the wait, can overwrite
  newer work, and `failPending` delete a newer task. The `LEASE_EXPIRED` error of the reaper has no
  failure row, so that clearing does nothing and `begin` refuses. A failure written behind
  `deleteArtifact` leaves an orphan row, after which listing failures throws `NOT_FOUND`.
- *Edits.* Write sets are incomplete for ripple inserts, trims, splits, removed ranges and moves. A
  transition may stay between clips that no longer touch. `restoreEdit` ignores locks and leaves tracks
  that were added later (see `TransitionsFit`): after a split, a piece that was moved to such a track stays
  there beside the whole clip that the restore brings back, since only clips on the tracks of the restored
  state are removed (`src/edits.ts:1271-1298`), and ticks are shown twice against
  `docs/mvp-prd.md:820`. `updateTrack` writes back fields it read before; two `removeTrack` calls can
  remove the last two tracks of a kind. Two overlapping `addTrack` calls mint one key, and
  overlapping moves may end where neither asked.
- *Notebooks.* `updateNotebookCell` and `updateGeneration` write whole rows back and can lose an
  update; the first can bring back a removed cell. Two timelines, and dangling references to a cited
  cell or a deleted sequence, are possible. A swap of edges is refused by the UNIQUE index. A merge
  may leave overlapping slots until the next write.
- *Forks and tags.* Rows that were integrated and then deleted upstream come back with the next
  integration; a fork's deletion of an integrated row is lost. The same manual tag added on both
  sides at different times is a conflict. A restore rewinds the generation that fences analyses.
  `importTags` may leave a tag both manual and dismissed. An object that both lineages imported on their
  own has two `created_at` (`src/schema.ts:223`), in which `resolveObjectsRow` sees a conflict: the
  integration is refused with `MERGE_CONFLICT` (`ObjectClash`).
- *History.* `restoreArtifact` leaves streams that describe another object and stale similarity
  rows; `restoreBook` lists the current artifacts before its turn at the chain.
- *Search.* Cleanup goes by generation name across spaces; two spaces that share a name see each
  other's rows, and segment IDs collide. A batch committed again after an invalidation, or after its
  content changed twice, is skipped. An older embedding may overwrite a newer row, and a deleted artifact
  get one.
- *Workspaces.* `src/files.ts:584-589` says that a hydrated workspace holds the current objects. One flag
  vouches for all copies: a write, a copy or an ingest sets it over copies of other paths that an edit, a
  merge or the restore of an artifact has made stale. A kill between the commit of a write and its
  copy leaves the flag over the old one, and so do two overlapping calls on one path, or an eviction
  beside a write (`src/files.ts:523`). `WorkspacesAgree` is about none of these.
- *Model files.* A file of a local directory is copied and loaded without a digest unless the inventory
  pins it (`src/model-file-resolver.ts:91-95`, `110-113`). The second of these branches is reached only by a
  worker that is given no `modelRevision`.
- *Close and archive.* `docs/engine-layout.md:653` says that transactions invalidate the compaction
  record before writing. The row that a close commits after its collection does not
  (`src/catalog-close.ts:43-49`), and `src/store.ts:203` then records the file with it as compacted; nor
  do the statements that complete the schema (`src/store.ts:573`, `592`, `681`). If the constructor
  fails, its close is told that nothing was written (`src/store.ts:159`): after a commit that left a
  bare root the deferred close may owe a marker, which `docs/engine-layout.md:669-680` excludes. The
  commit of a recovered write does not invalidate the record; the transaction after it does. A kill
  between the creation of a snapshot directory and of its `owner.json` leaks the directory.

## 6. Not modelled

- Store: the second process of docs/semantic-durability.md (excluded by contract); the contents of
  migrations; `dolt_ignore`; `push` and `snapshot` beyond their use as atomic steps.
- Queue: the refusal of `enqueue` during a snapshot; `stop`; a thrown audit write; the choice among
  types.
- Objects: `gc` with `dryRun` (it changes nothing); files that appear while `listLocal` reads
  directories one by one.
- Books: contents of captions and transcripts, prompts, metadata; creation and listing of
  sequences; the query language of tags beyond the effective tags; diffs between revisions.
- Indexes: scores, distances, ranking and pagination; what models compute.
- Media time: the only conversion that rounds belongs to a migration; the rest is exact arithmetic
  without state. Usage, status and communications: sums and projections over rows of other parts.
- Media programs, the protocol of model workers and the programs behind it: external data.

## 7. Plan

All components with state and a protocol of their own have a module. What is left, by value:

1. A store with two processes, to state exactly what docs/semantic-durability.md says goes wrong.
2. Edits and restores together: what a restore should remove so that `CutsShowOnce` holds across it.
