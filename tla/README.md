# Verification of the incremental sync service

TLA+ models of `src/caseware_sync`, the service that reads changes from
Postgres and publishes them as lake, share and events files and a checkpoint,
with the TLC runs that check them and the theorems TLAPS proves about them.
Paths below are relative to `src/src/caseware_sync/` unless they say otherwise.

## The system

| component | state it keeps | operations | what makes it correct |
|---|---|---|---|
| Commit journal (`pipeline/staging.py`, `pipeline/commit.py`) | `state/runs/<run_id>/` with staged files, `commit_plan.json`, `READY` | stage, write plan, mark ready, commit, resume, discard, clean up | a run is published whole or not at all, whatever fails between any two system calls; the checkpoint is renamed last; nothing is left behind for ever |
| Ingest lock (`pipeline/lock.py`) | a `flock` on `state/.ingest.lock` | acquire or 409, release | one ingest at a time, of any thread and process; never left held |
| Application (`api/app.py`, `api/deps.py`) | the process: down, booting, serving | start with a sweep, `POST /ingest?dry_run=` | a failed start does not serve; a retry completes what failed |
| Orchestrator (`pipeline/orchestrator.py`) | the memory of one request | sweep, load, fetch, name, stage, commit, or return a dry run | the order of these steps |
| Source repository (`source/`) | a REPEATABLE READ snapshot | one delta query per table | no row skipped or repeated; all tables at one moment |
| Watermarks (`domain/checkpoint.py`, `pipeline/checkpoint_advance.py`) | `state/checkpoint.json`, through the checkpoint store | compare, advance | the checkpoint only moves forward and never ahead of the outputs |
| Writers (`outputs/`) | `lake/`, `share/`, `events/` | predict paths, stage files | lake append-only and ordered, share the latest batch, events a true account |
| Run identity (`pipeline/run_id.py`) | none | hash of checkpoint and row identities | one name for one batch |
| File primitives (`utils/fs.py`) | the file system | atomic write, atomic rename, fsync | a file is old or new, never torn; what is acknowledged survives a power loss |
| Reset script (`scripts/reset_state.sh`) | none | `rm -rf state lake share events` | the service starts over and delivers everything anew |
| Encoding, schema, settings (`utils/jsonio.py`, `pipeline/fingerprint.py`, `domain/*.py`, `core/`) | none | pure functions | unit-tested; not modelled |

Requests run on the threads of the web server and share nothing but the file
system and the lock. The start-up sweep is the same code as the sweep at the
head of a request, but takes no lock. `state/checkpoint_store.py` is imported
and tested but not in the repository; the models take its behaviour from its
callers and tests: a missing file is the empty checkpoint, a corrupt one raises.

What is hard here: a crash or an error between any two system calls, in the
recovery from an earlier one too; `rmtree`, which removes the journal's own
files one by one; a second process that boots; source transactions that commit
between two queries, or with the same `updated_at` as the watermark; dry runs
that meet an unfinished run; retries that must not deliver twice; directory
entries that are not on the disk yet when power is lost; a reset that meets what
a crash has left, or is interrupted half-way itself. `PROJECT.json`
lists these hazards with their lines and the properties that cover them.

## The modules

| module | models |
|---|---|
| `PartialFunctions` | functions on part of a set: a directory maps the names that exist in it to contents |
| `AtomicFiles` | the abstract specification of the journal: output files change only by whole batches, which are on offer first and committed once, each with a checkpoint; no crash, no directory |
| `DurableFiles` | the same under power loss: what is durable lags behind by one batch at most |
| `IncrementalFeed` | the abstract specification of the service: a changing source, and for each table a log that grows by what one look at the source shows after the watermark |
| `CommitJournal` | the journal, the lock and the order in which requests and start-up use them; contents and names are arbitrary |
| `Watermark` | rows and watermarks, the delta query, the advance of a checkpoint |
| `IngestService` | the service: source database, requests, what a run is called and what its files hold, over an instance of `CommitJournal` |
| `DurableJournal` | the journal on a disk that can lose power: the directory tree, what of it is durable, `utils/fs.py` |
| `ResetService` | `IngestService` with the operator's reset script |
| `MCCommitJournal`, `MCDurableJournal`, `MCIngestService`, `MCResetService` | instances for TLC |
| `IngestInvariant` | the inductive invariants of `IngestService`, which its runs check and its proofs use |
| `PartialFunctionTheorems`, `WatermarkTheorems` | lemmas about directories and about watermarks, delta queries and ascending sequences |
| `CommitJournalProofs`, `IncrementalFeedProofs` | theorems about the journal and the feed |
| `IngestInvariantProofs` | the service's steps are the journal's; what each does to a request, a run directory and the live files, and that it keeps `FilesInv` |
| `IngestServiceProofs` | what readers of the outputs are promised; how the outputs stand to the source |
| `DurableJournalProofs` | what the tree, the disk and the log have to do with each other; what a power loss leaves |
| `ResetServiceProofs` | what a reset keeps and restores |

### `CommitJournal`

An *actor* is a request thread, or the process itself while it boots. `pc[a]`
names the next step of an actor, `own`, `run`, `todo` and `steps` are its local
variables; `live` is what the output paths hold, `dirs` is `state/runs`, `lock`
the holder of the flock, `svc` the status of each process.

| actions | code |
|---|---|
| `Boot`, `Acquire`, `Leave` | `app.py` lifespan; `lock.py`; return or exception |
| `Scan`, `ResumeReady`, `ResumeDiscard`, `ResumeDone` | `Committer.resume_pending`: list once, then visit |
| `BeginRun`, `StageFile`, `WritePlan`, `MarkReady` | `_run_locked` from `ensure_layout` to `mark_ready` |
| `Commit`, `CheckStaged`, `SkipStep`, `Replace`, `ExecuteDone` | `Committer.commit` and `_execute_step`; `exists()` and `os.replace` are two steps |
| `RemoveStaged`, `RemovePlan`, `RemoveReady`, `RemoveDir`, `CleanupMissing` | `rmtree` and `cleanup`, entry by entry in any order |
| `Raise`, `OSError`, `Crash` | the code's own exceptions, at which a request returns and a start fails; any failing system call; the death of a process |

A 409 changes nothing and is a stuttering step. `write_bytes_atomic` is one step:
its temporary file is invisible to everybody else. Empty subdirectories of a run
are not modelled: nothing reads them. Directories are visited in any order,
since the names they are sorted by are hashes. A start that raises leaves the same
state as one that is killed, so `Raise` of a process is a step of `Crash` too;
`Interruption` is what only a fault can do, and the liveness properties are
conditional on it and not on `Fault`.

### `IngestService`

A source table is a function from primary keys to `updated_at`; a row's other
columns change only together with its `updated_at`, so a row version is the pair.
`Transaction` commits rows of any tables at one `updated_at`. `Discipline` says
what is assumed of the writers, because the watermark scheme depends on it:
`strict` (each transaction later than all before), `keys` (each written row comes
after all rows of its table in the order of `(updated_at, pk)`) or `clock`
(`updated_at` never goes back, and nothing is written during an ingest, which is
what the repository's README assumes). In the first two, writers commit at any
moment of an ingest.

`req[t]` is the memory of a request: `LoadCheckpoint`, then one `FetchDelta` per
table from the snapshot that the first query takes, then `ReturnDry` or
`BeginRun` with the run's name `RunId(before, delta)`. `StageNext` stages the
first of `Outputs(t)` not yet staged, in the order `Precedes` of the plan, with
its `Content`; a lake partition is read when it is staged. Everything from the
plan on is the journal's `Work`. `SourceFails` is a request that raises before it
stages anything: it changes what a return changes, and cannot happen to a dry run that
has read all its tables, which has nothing left to do but return. Names of runs are their inputs: the hash is taken
to be injective. `Manifest(t)` is the answer of the request. JSON encoding, schema
fingerprints, timestamps of the run and the stdout mirror are left out.

The service implements `IncrementalFeed` (`ImplementsFeed`). The mapping reads the
files as they are once READY runs are replayed: a table's log is its lake
partitions one after the other, its batch the rows of its share file, the
watermarks those of the checkpoint. `snap`, the look at the source, is that of
the request at work; `FetchDelta` takes it, `MarkReady` is the feed's `Deliver`,
and everything else stutters or forgets the look. The feed has no requests, files or
faults, so this one property says what all of them together amount to.

### `DurableJournal`

`tree` maps the paths that exist to what is there; `disk` is the part that is
durable, `log` the changes of the tree that are not, in their order; `TypeOK` says
that the tree is the disk with the log on top. Every step of `CommitJournal` that
changes an entry appends to the log the changes `utils/fs.py` makes (`ensure_dir`
one per missing directory, `write_bytes_atomic` and `atomic_rename` one more), and
the next step of the actor is the `Fsync` of the directory named in `dirty`;
`rmtree` is not synced by anybody. The steps of the journal are those of an
instance of `CommitJournal`, and `TypeOK` checks that its variables are what the
tree holds. `PowerLoss` keeps `disk` and any part of the log the file system may
have written by itself, drops entries whose directories are gone, and restarts
every process.

`Filesystem` says what `fsync` of a directory covers. `"journal"`: changes of
directories reach the disk in the order they are made, as on ext4 and xfs, so an
fsync makes all earlier ones durable. `"directories"`: only the changes of one
directory are ordered and synced together, and those they depend on, which is all
POSIX asks for. Contents of files are durable before their names are
(`fsync_file` before `os.replace`), and fsync is taken to succeed.

### `ResetService`

`BeginReset` at any time no request is at work, whatever is on the disk: the script
checks nothing, so it may find the run directory of a request that died, READY or
half staged. Then each argument of `rm -rf` in turn. `RemoveFile` takes the output
files in any order. In `state` there are the checkpoint and the run directories, in
any order among each other; once `rm` is in a directory (`inside`) it stays until that
is gone (`RemoveEntry` takes a staged file, the plan or READY, `RemoveRun` the empty
directory). `NextArgument` needs the argument to be gone. `InterruptReset` may come
anywhere. While it runs no request comes and no process boots, which is how the script is
meant to be used ("between manual test runs"); the source goes on changing and
processes may die.

`left` is a history variable, the worst that resets interrupted since the last complete
one have left in `state/runs`: nothing READY (`"none"`), a READY directory as it was
(`"whole"`), or one that has lost entries (`"cut"`). The next sweep commits what a cut
directory still holds, which is the violation `reset_cut_short`.

## The runs

| run | configuration | what it shows |
|---|---|---|
| `journal_safety` | 1 process, 2 threads, 3 files, 2 run names, 2 contents | `TypeOK`, `OnePendingRun`, `ReadyIsReplayable`, the inductive invariant `JournalInv`, `CheckpointLast`, that the journal implements `AtomicFiles` (`AtomicCommit`), and `ReadyRunsCommit` |
| `journal_two_processes` | 2 processes, 1 thread each | `SingleFlight`, `LockReleased` |
| `journal_drains` | 1 process, 1 thread, 2 files | **violated** `JournalDrains` |
| `service_safety` | 1 process, 1 thread, 1 table, 2 keys, 2 times on 2 days, `keys` | thirteen properties of the outputs, below, `ImplementsFeed` among them, and the inductive invariants `ServiceInv` and `SourceInv` |
| `service_snapshot` | 1 process, 2 tables, 1 key, 2 times, `strict` | `CheckpointIsACut`, its inductive invariant `CutInv`, `ImplementsFeed`, `ChangesDelivered` |
| `reset_service` | 1 process, 1 table, 1 row, at most 2 interrupted resets between complete ones | `ResetStaysBehind`, `ResetRestores`, `ChangesDeliveredAnew` |
| `reset_cut_short` | 1 process, 1 table, 1 key, 2 times, at most 1 interrupted reset | **violated** `CheckpointNeverAhead` |
| `power_loss` | 1 process, 1 thread, 1 run name, a lake file and the checkpoint, 2 contents, `journal` | `TypeOK`, `DurableAtomic`, `Acknowledged` |
| `power_loss_new_directories` | as above, `directories` | **violated** `DurableAtomic` |
| `dry_run_writes` | 1 process, 1 table, 1 row | **violated** `DryRunWritesNothing` |
| `tie_at_watermark` | 1 process, 1 table, 2 keys, 2 times, `clock` | **violated** `CheckpointNeverAhead` |
| `boot_beside_ingest` | 2 processes, 1 thread | **violated** `CheckpointNeverAhead` |

Crashes, errors, restarts, retries and dry runs are not bounded in any run: the
state spaces are finite because the variables are. The bounds, named in the
configurations, are the sets of threads, run names, files and contents of the
journal, `MaxTime` and `MaxPk` of the source, `MaxTorn`, the interrupted resets
between two complete ones, and `MaxPending`: a run begins when at most so many
changes of earlier runs are not durable, since the log of an endless sequence of
runs without write-back would be endless. The longest passing run, `service_snapshot`,
takes less than three minutes.

Why they are enough. The journal treats all files but the checkpoint alike and
never compares contents, so two other files show every order of a file before and
after another, and two contents a stale copy. A second run name is needed to meet
the leavings of another run; a third cannot be there at once, which is itself
`OnePendingRun`. Two threads show the lock at work; with two processes each has
one, and the second process's boot is the third party. In the service, two keys
with two times give a tie at the watermark, an insert and an update, a partition
that is extended and one of another day, a run without changes, and three batches
in a row; two tables in `service_snapshot` give a transaction that spans queries.
In `power_loss` one run name is enough: the name is used again after a
power loss, so a run meets what is left of an earlier one of that name, and files of
other names cannot be there, as `journal_safety` shows. The lake file is in a
directory that comes into being with it, the checkpoint in one that exists.
`MaxPending` 0 makes a run begin with everything before it on the disk; in the
`journal` order older changes would only be lost after all newer ones. The one row of
`reset_service` is delivered before, between and after resets, so that two interrupted
resets in a row fit, of which the second may meet what the first has left; runs without
changes, which come before and after it, give READY directories whose checkpoint is not
the first. Updates and more rows are in the theorems about resets.
Symmetry is used over contents in `power_loss`, where no definition tells them apart and no liveness is checked.

### What the service promises

- `CheckpointNeverAhead`: a source row the live checkpoint has passed is in the
  live lake, at every moment.
- `LakeOrdered`, `AppendOnlyLake`: partitions are strictly ordered, so have no
  row twice, hold their own day only, and only grow at the end.
- `ShareRowsInLake`, `ShareIsLatestBatch`: what a share file shows is in the lake
  even in the middle of a commit; after pending runs are replayed it ends at its
  table's watermark.
- `EventsAccountForLake`, `EventsImmutable`: row counts of events add up to the
  lake; an events file never changes.
- `CheckpointMonotone`: no watermark goes back.
- `DryRunCommitsNothing`: a dry run never changes what the outputs are once
  sealed runs are replayed (it does complete them, see below).
- `EventsAnnounceTheLive`: the files a live events file names are there and hold
  what it says, in the middle of a commit too.
- `ReplyIsPublished`: when a request returns, what its manifest says is what
  the live files hold.
- `ImplementsFeed`: all of it amounts to `IncrementalFeed`.
- `CheckpointIsACut`: the watermarks of all tables are at one point of the
  source's history.
- `ReadyRunsCommit`: what a READY run has staged eventually goes live, file by file and
  with the contents staged, unless interruptions never end. It is stated for one
  process: the unlocked start-up sweep of a second one may delete a staged file, or
  the plan alone.
- `ChangesDelivered`: every row version of the source reaches the lake unless the row is
  changed again first, interruptions never end or the journal stays wedged for ever
  (`journal_drains`). Dry runs, however many, are no excuse, nor is a plan that is gone
  one step before READY in a cleanup that goes on.
- `ChangesDeliveredAnew`: the same with resets, after which it is delivered again, unless
  resets never end or the last one was interrupted in a READY run directory and none has
  ended since.
- `ResetStaysBehind`: unless an interrupted reset has left a READY run directory cut,
  `CheckpointNeverAhead` holds in the middle of resets and between them.
  `ResetRestores`: after a complete reset lake, share and events are consistent,
  whatever interrupted ones have left.
- `DurableAtomic`: under power loss, what a replay would make of the disk is the live
  outputs or those one batch before. `Acknowledged`: what a returned run has
  published stays until the next run is sealed.

### Fairness

`WF` of `Boot`: somebody restarts the service. `WF` of the steps of an actor: the
operating system runs threads that can run, and each step ends. In the service
`SF` of a real request: `/ingest` is called again and again, and dry runs in
between do not keep it out for ever. With `WF` in its place `ChangesDelivered` is
violated, by dry runs without end: the lock is free only between them. With the reset
script, `WF` of its steps: a reset that was started goes on unless it is interrupted.
Nothing is assumed of the source's writers, and faults are never fair.

Liveness properties are conditional on `~FaultsKeepComing`, since a crash at every
attempt defeats any recovery. What keeps coming there is an `Interruption`: a fault whose
effect is not that of a step the code takes by itself. A start that raises at what it
finds, and a dry run that returns, are therefore no excuse: a service that fails at every
start has to count as one that does not recover, which is how `journal_drains` refutes
`JournalDrains`.

### What the violations show

1. `journal_drains`: after a commit `rmtree` removes `commit_plan.json` and
   `READY` in the order the directory lists them. A crash after the first and
   before the second leaves a READY directory without plan; every later sweep
   raises in `load_commit_plan`, so the service does not start any more (the end of
   the counterexample is a start that fails, again and again), although
   the run was completely published. `commit.py` says crashes between any two
   steps are recoverable.
2. `dry_run_writes`: a dry run sweeps the journal first, and completes a READY run
   left by a crash: output files and checkpoint change. `api/app.py` says it writes
   nothing. `DryRunCommitsNothing` is what does hold.
3. `tie_at_watermark`: rows changed between two ingests at the watermark's own
   `updated_at` with a key up to `last_pk` are never read. `domain/checkpoint.py`
   says rows that share an `updated_at` cannot be skipped.
4. `boot_beside_ingest`: the start-up sweep takes no lock; beside an ingest of
   another process it deletes staged files, which the commit then takes for renamed
   ones. The repository's README excludes multi-instance deployment; the run shows
   that the lock, which does work across processes (`journal_two_processes`), does
   not protect the start of a second one.
5. `power_loss_new_directories`: `ensure_dir` makes directories and syncs no
   parent, so the entry of `state/runs/<run_id>` is not durable when READY is
   written. On a file system where fsync covers one directory only, a power loss
   after the first rename takes the whole run directory away and leaves the
   renamed lake file, with the old checkpoint: the next run appends the same rows
   again. `staging.py` says READY means everything is durable, `commit.py` that every
   crash is recoverable. `power_loss` shows that the journal survives where directory
   changes are written in order, as on the file systems `fs.py` names.
6. `reset_cut_short`: a crash leaves a READY run, the reset that follows is interrupted in
   its directory after the staged lake file is gone and before plan, READY and
   checkpoint are. The next sweep takes the missing file for renamed
   (`Committer._execute_step`) and renames the checkpoint. The README's invariant is
   broken until a reset completes, as `ResetRestores` says.

## The proofs

`CommitJournalProofs` proves for every choice of the constants:

| theorem | statement |
|---|---|
| `TypeCorrect` | `Spec => []TypeOK` |
| `SingleFlightHolds` | `Spec => []SingleFlight` |
| `JournalInvariant` | `SingleInstance` implies `Spec => []JournalInv` |
| `ReadyRunsAreReplayable`, `JournalHoldsOneRun` | the same for `ReadyIsReplayable` and `OnePendingRun` |
| `CheckpointRenamedLast` | the same for `CheckpointLast` |
| `JournalIsAtomic` | the same for `AtomicCommit`: `CommitJournal` implements `AtomicFiles` |

Assumptions: `JournalAssumption` (distinct names; threads belong to processes;
the checkpoint is a file), and, but for the first two, `SingleInstance`: one service
process. It cannot be dropped: `boot_beside_ingest` is the counterexample.

None of the safety properties is inductive. `JournalInv` adds what is known at each
label: `LockInv`, an active thread holds the lock and its process is up, so that
with one process there is one active actor at most; `StageInv` and `ExecuteInv`,
the only run directory is the actor's and its files are those staged, or those
still to be renamed, with the checkpoint at the end; `DirsInv`, what holds with no
actor at all, after a crash. `LockInv` alone is inductive for any number of
processes, and is all `SingleFlightHolds` needs. The proof has a step per action. The refinement maps
`live` to `Committed`, what the outputs are once READY directories are replayed, and
`offer` to `Offered`, the files of the directory that is not READY yet:
`MarkReady` is the abstract `Commit`, of exactly what was on offer, staging and
discarding are `Prepare`, and every other step, crashes and sweeps
included, stutters; `Replace` because it moves a file between two places the
mapping looks at, the removals because no removable directory holds a staged file
and READY at once.

`IncrementalFeedProofs` proves of the feed, for any tables and natural `MaxTime` and
`MaxPk`:

| theorem | statement |
|---|---|
| `FeedInvariant` | `Spec => []FeedInv` |
| `FeedIsInOrder` | `Spec => []InOrder`: a table's log is ascending, so has no row twice, and ends at its watermark |
| `FeedSkipsNothing` | `Spec => []NothingSkipped`: a row of the source is after the watermark or in the log |

Neither is inductive: `SourceAhead` adds that the source has a row at or after every
watermark, and that it is a successor of the look the next batch is taken from (no
row has gone, and each new one is later than all in it), so that a row written
between a look and its delivery is after the new watermark. The lemma
`OrderedHasAll` shows that the delta query's one sequence in order has all the rows
(an injection between sets of one size), `DeltaExtends` what a delivery does to one
table. With `ServiceIsAFeed`, below, the two theorems say what the service does
for its consumers: `strict` and `keys` writers are the feed's, `clock` ones are not,
and `tie_at_watermark` is what they lose.

`IngestInvariantProofs` and `IngestServiceProofs` prove of the service, for any
tables, times, keys, days and request threads:

| theorem | statement |
|---|---|
| `TypeCorrect` | `Spec => []TypeOK` |
| `ServiceInvariantHolds` | `Spec => []ServiceInv`: the inductive invariant, below |
| `LakeIsOrdered`, `LakeIsAppendOnly` | `LakeOrdered`, `AppendOnlyLake` |
| `SharesAreInLake`, `SharesAreLatest` | `ShareRowsInLake`, `ShareIsLatestBatch` |
| `EventsAnnounce`, `EventsAreImmutable` | `EventsAnnounceTheLive`, `EventsImmutable` |
| `CheckpointIsMonotone` | `CheckpointMonotone` |
| `RepliesArePublished`, `DryRunsCommitNothing` | `ReplyIsPublished`, `DryRunCommitsNothing` |
| `EventsAccount` | `EventsAccountForLake`; `CommittedIsAccounted` is the invariant it comes from |
| `SourceInvariant`, `CheckpointIsNeverAhead` | `WritersFollow` implies `Spec => []SourceInv` and `CheckpointNeverAhead` |
| `CutInvariant`, `CheckpointsAreCuts` | `Strict` implies `Spec => []CutInv` and `CheckpointIsACut` |
| `ServiceIsAFeed` | `WritersFollow` implies `Spec => ImplementsFeed`: the service implements `IncrementalFeed` |

Assumptions. `ServiceAssumption`: the tables are a list without duplicates, times and
keys are bounded by some number, days are a monotone function of times.
`JournalConstants`: the instance's constants are what `CommitJournal` assumes; a
fact about names that TLC evaluates in every run of the service. All theorems have
`SingleInstance`: with two processes `boot_beside_ingest` violates
`CheckpointNeverAhead`. `WritersFollow` is `Discipline` `strict` or `keys`, and
`tie_at_watermark` is what happens with `clock`; `Strict` is `strict`, since with
`keys` rows of one `updated_at` may lie on both sides of a watermark. What the outputs
promise each other needs nothing of the writers: the theorems above `SourceInvariant`
hold for all three.

The argument. `IngestInvariantProofs` shows that every step of the service is a step of
its instance of `CommitJournal` or leaves the journal's variables alone
(`ServiceIsJournal`), so that `JournalInv` and `AtomicCommit`'s account of a step hold
of the service. On top of it `ServiceInv` says what a run directory holds, which the
journal leaves open. It is `FilesInv`, the first four points, and `LakeInv`, the last:

- `RequestInv`: a request's checkpoint is still the live one and each delta is what
  its snapshot shows after it. Without it a batch might be staged against a
  checkpoint another request has moved.
- `BatchInv`: a run id names its batch, so that what a directory must hold can be
  said after the request that made it has died: each file in it `Fits` the id, and
  each output of the batch is still to be staged, staged or already live and not
  written over. The last part is what makes a partly renamed batch whole, and it is
  what `boot_beside_ingest` breaks.
- `OrderInv`: files are staged, planned and renamed in the order of their kinds,
  lake, share, events, checkpoint. Because of it a share file's rows are in the lake
  and an event's files are there at the moment it is renamed.
- `LiveFits`: a live partition holds its day's rows; a live share or events file is a
  function of a run id, so that an events file that is renamed again is the same.
- `LakeInv`: live and staged partitions are in order, and no live partition holds a row
  that neither the live checkpoint nor a pending one has passed (`Passed`), so that the
  next delta goes after all of it. It is apart because a reset that is interrupted
  breaks it, and nothing else does: see below.

Two of the results speak of all partitions of a table at once. A partition of a pending
batch `Fits` its id only if what it has beyond the batch's own rows of that day is live,
so sealing a batch adds the batch's rows and no others (`SealingAddsRows`).

`SourceInv` adds the source: it is a `Successor` of every snapshot a request holds,
has reached every watermark, and what it has beyond a batch comes after the batch's
watermark (`Follows`) even if it was written while the batch was staged, renamed or
replayed. `CutInv` says that of a snapshot, of the watermarks of every batch in
use and of the live ones there is a moment that divides all tables alike. Each
invariant is checked by TLC on a run (`service_safety`, `service_snapshot`) and is
proved action by action; steps that touch no file of a batch in use are dealt with
once (`Quiet`). The least moment that divides the tables is found with the least
element of a set of numbers (`LeastOf`), which needs no induction.

`EventsAccountForLake` compares two sums over finite sets of files. Each is the
cardinality of a set of numbered rows (`SumIsCount`), so that no sum has to be taken
apart: the sets of rows grow by disjoint parts of equal size when `MarkReady` seals a
batch (`SealingAccounts`), and stay as they are in all other steps, because those do not
change what is committed. A second events file for the same rows would break it, so the
proof needs that a run id with rows has not been sealed before (`EventsAreNew`).

`ServiceIsAFeed` maps a table's log to its partitions in the order of their days, one
after the other. There is one ascending sequence of a given set of rows at most
(`AscendingIsUnique`) and the partitions so joined are ascending
(`FlatteningInOrder`), so the log is the lake's rows in order (`LogIsLake`), and a
sealed batch, all of which comes after the lake (`BatchComesLater`), is appended
(`SealingAppends`). With that `MarkReady` of a request is `Deliver`
(`SealingDelivers`), the first `FetchDelta` is `Look`, and `SourceInv` says
that what is delivered is what that look shows after the watermark.

`ResetServiceProofs` proves of the service with its reset script, for any number of
interrupted resets:

| theorem | statement |
|---|---|
| `ResetInvariant` | `ResetSpec => []ResetInv`: the inductive invariant |
| `CompleteResetsRestore` | `ResetSpec => []ResetRestores` |
| `ResetsStayBehind` | `WritersFollow` implies `ResetSpec => []StaysBehind`: `CheckpointNeverAhead` as long as no interrupted reset has left a READY run directory |

A reset that is interrupted after the checkpoint is gone leaves partitions that no
checkpoint has passed: the next request delivers their rows again, and the lake has
them twice. One that is interrupted in a READY run directory leaves a batch that is not
whole. So none of the service's invariants holds of every state, and the theorems about it
do not carry over as they are. What does is `ControlInv`, which says nothing of any file: who
is at work, that whoever is not remembers nothing, and that the lock is as it should be;
every step of the service and of a reset keeps it, whatever is on the disk. `Tidy` is what
rm keeps of an orderly disk: the live files that are left are what they should be by
themselves, there is one run directory at most, and a plan that is left ends with the
checkpoint. The two together, when nobody is at work and nothing is READY, are the
service's invariant again (`AtRest`), which is the case once a reset is complete, and
when one that is interrupted leaves nothing to replay (`left = "none"`). `ResetInv`
says so, and that a complete reset has made `LakeInv` and the accounts of the events
true of no file at all (`NothingIsWhole`) and the service's steps have kept them since.

`CheckpointNeverAhead` holds in the middle of a reset, whatever it has found, because
`state` is the first argument: no lake file goes before the checkpoint has
(`CheckpointIsGone`). Afterwards `SourceInv` holds again in the cases `AtRest` covers.
After a `"cut"` nothing is claimed of the checkpoint until a reset completes. The case
between stays with TLC (`ResetStaysBehind`): a READY directory left whole beside a
checkpoint that is gone is committed from the watermarks of a checkpoint that is not the
live one, which `BatchInv` excludes.

`DurableJournalProofs` proves of the journal under power loss, for any files and paths,
contents, run names and request threads and any log, however long:

| theorem | statement |
|---|---|
| `DurableTypeCorrect` | `Spec => []TypeOK`, on both kinds of file system |
| `DurableInvariant` | `Filesystem = "journal"` implies `Spec => []DurableInv`: the inductive invariant |
| `DurableAtomicHolds` | the same for `DurableAtomic`: `DurableJournal` implements `DurableFiles` |
| `AcknowledgedHolds` | the same for `Acknowledged` |

Assumptions. `DurableAssumption`: one process and finitely many files. `PathAssumption`: the
outputs have roots of their own, which are not `state`, and no output file is a directory of
another. `JournalConstants`: as above. That directory changes reach the disk in order cannot
be dropped: `power_loss_new_directories` is the counterexample.

`TypeOK` is nearly inductive: `TreeInv` adds that every change of the log is one of known
paths to nodes that fit them (no directory where a file belongs). Behind it is what
`utils/fs.py` does to a tree. The last change of a path decides what is there
(`AppliedAt`), so that changes can be made in two goes (`AppliedConcat`) and in any order
that keeps those of one path in theirs (`AppliedSplit`, which is why `fsync` of one directory
leaves the tree as it is). `ensure_dir` and `ensure_layout` add directories only, whichever
part of them is written (`EnsureDir`, `LayingOut`), and the tree of a run shows no more than
an empty directory for it (`GrownShows`); then one entry changes, and what the journal reads
off the tree changes as its own action says (`WroteShows`, `MovedShows`, `GoneShows`). The
paths of different files differ and none is above another (`StagedApart` to `RunDirApart`).
Every step but a power loss is then a step of the instance of `CommitJournal`
(`JournalSteps`), whose theorems hold of it.

`DurableAtomic` and `Acknowledged` are about the states a power loss could lead to, so
`DurableInv` speaks of all of them: `SnapshotInv` says that the disk with the first n changes of
the log, for every n, has the directories of all its entries, holds one run
directory at most, which can be replayed if it is READY, and stands for the durable outputs
or for the present ones. A batch of changes keeps this because all of it but the last change
makes empty directories (`ChangeSnapshots`), if the log was empty or the step does not change what the
outputs will be. That is where fsync enters: only `MarkReady` changes it, and `SealInv`
says that the log is empty then, since the fsync of the plan was an fsync of all before it.
`SealInv` also says that a run that owns a READY directory and has synced the marker has its
outputs on the disk, which is what `RemoveDir` needs to acknowledge them (`AckInv`).

Only model-checked: all liveness (fairness and ENABLED are out of the provers' reach), which
is `LockReleased`, `ReadyRunsCommit`, `ChangesDelivered` and `ChangesDeliveredAnew`; but for
`SingleFlight`, what holds with two processes; and `ResetStaysBehind` after a reset that was
interrupted with a READY run directory left whole. Every other safety property of a
passing run is a theorem.

## Not modelled

- fsync that fails: `fsync_file` and `fsync_dir` ignore the error. Nothing can be
  promised of a power loss then; the models take fsync to succeed. Contents
  torn by a power loss are excluded by the same assumption. Power loss is
  modelled under the journal, with arbitrary contents, not under `IngestService`.
- The Windows branches: `fsync_dir` does nothing there, and the lock is a file
  made with `O_EXCL`, which a crash leaves behind. The code calls both best-effort.
- `staged_writer` of `utils/fs.py`: nothing calls it.
- A reset in the middle of a request, which removes the lock file and the journal
  under it; the script is for the time between runs.
- Encodings and hashes (`utils/jsonio.py`, `pipeline/fingerprint.py`, the models of
  `domain/`): pure functions, unit-tested, and no property here tells their values apart.
  Run ids are injective and an encoding is read back as what was written.
- Deletion of source rows, which the service excludes; the timestamps of a
  manifest, stdout, settings, logging, HTTP status codes.
- Concurrent readers are modelled as what holds of `live` in every state, not as
  actors.

## Plan

Done: journal, lock, start-up, service, power loss, reset; the abstract
specifications of journal and service; the theorems of the journal, of the feed, of
the service, which implements it, of resets, and of power losses where directory changes are
ordered. What could come next: a file system that orders the changes of each directory only,
under an `ensure_dir` that syncs the parents of the directories it makes, and power losses
under `IngestService`, whose steps are those of the journal.
