# Kiroku in TLA+

Kiroku backs up network devices. Web processes let people define devices, jobs
and schedules; a scheduler turns due schedules into batches of jobs; workers run
the jobs on devices; a recorder writes what came back to Postgres and to a git
repository. This directory holds TLA+ modules of that pipeline, configurations
that model-check them with TLC, and proofs checked by TLAPS.

Paths below are relative to `src/src/kiroku/`, documentation paths to `src/`.

## The system

| Process | State of its own | Operations | Talks to |
|---|---|---|---|
| web (`web/`, 5 uvicorn processes, `config.py:58`) | none between requests | run a job now, cancel a batch, purge the queue, edit every table | Postgres, Redis, the git repository (read only) |
| scheduler (`scheduler/runner.py`) | `have_lock` | tick: initialise, skip or fire each due schedule | Postgres (advisory lock), Redis |
| worker (`worker/runner.py`, `worker/scrapli_runner.py`) | the futures in its process pool, a device session and a temporary platform file per job | take up to `concurrency` jobs, run each in a subprocess, publish a result, acknowledge; stop on a signal | Redis, devices |
| recorder (`recorder/runner.py`) | `batch_staged`: paths written and not committed | persist results one by one; every 60 s reap stale batches | Redis, Postgres, git |

| Shared state | Written by |
|---|---|
| `run_batches` and `runs` rows | `fire_job` (web, scheduler), recorder, cancel, purge |
| `schedules` rows | web forms, scheduler tick |
| `devices`, `device_groups`, `jobs`, `credentials`, `platforms` and their associations | web forms, the CSV import; read by dispatch |
| `compliance_policies`, `compliance_checks` and the policy's scope | web forms; read by the recorder |
| job stream(s), result stream | `publish_job`, workers, purge; `publish_result`, recorder |
| git working tree, index, history | recorder |
| `device_configs`, `compliance_results`, `cve_scans` | recorder, compliance page |

What makes it hard:

* Transactions are READ COMMITTED without row locks, rows are read early and
  written late, and SQLAlchemy writes **absolute values of the changed columns
  only**. A counter increment is therefore a read-modify-write that another
  process can overtake.
* Redis Streams are used at most once: consumers read `>` only and nothing ever
  claims a pending entry. What is delivered to a process that dies is lost.
* Jobs are published before the rows they refer to are committed.
* Three stores (files, git, Postgres) and the recorder's memory are written in
  turn, and only one of them can roll back.
* The reaper closes batches by timeout while their results may still arrive.

What makes each component correct:

| Component | Correct when |
|---|---|
| dispatch | rows and published jobs agree, or the difference is cleaned up: every visible batch closes |
| job stream | a job is delivered once, never left behind; refusals and admissions follow the number of waiting jobs |
| recorder counters | no result is lost or counted twice; a closed batch has no pending run; a success stays one |
| backup store | the database names commits that exist; a changed file is committed; every version is kept |
| scheduler | one firing per due slot; one bad schedule does not stop the others; edits during a tick are survived |
| worker pool | never more in hand than `concurrency`; a success speaks for a whole session; a stop ends the worker and loses nothing |
| compliance | verdicts follow from the checks and speak of the stored configuration; nothing survives a deleted policy |
| credentials | at most one default, never lost by an attempt to replace it; an edit keeps what it leaves blank |
| inventory and import | no reference to a deleted row, no name twice; an import is whole and takes nothing away |
| dispatch of a job | every enabled device the job targets, with the credential assigned to it |

## Modules

| Module | Models | Extended by |
|---|---|---|
| `Pipeline` | life of a batch: dispatch, job and result messages, recorder, reaper, cancel, purge | `MCPipeline`, `PipelineProofs` |
| `BackupStore` | git working tree, index, history, `batch_staged`, and the rows that point into the history | `MCBackupStore`, `BackupStoreProofs` |
| `JobStream` | one job stream: admission, cap, group, delivery, purge | `MCJobStream`, `JobStreamProofs` |
| `Scheduler` | leader lock, ticks, edits of schedules | `MCScheduler`, `SchedulerProofs` |
| `WorkerPool` | one worker: its loop, its subprocesses and the session of each job | `MCWorkerPool`, `WorkerPoolProofs` |
| `JobHandling` | abstract: what queue and workers promise about a job | instantiated by `Pipeline` and `WorkerPool` |
| `ComplianceEngine` | `compliance.py` as operators | `Compliance` |
| `Compliance` | one policy, its editors, its evaluations, the batch that closes | `MCCompliance`, `ComplianceProofs` |
| `Credentials` | the credentials table and its handlers | `Inventory` |
| `Inventory` | devices, groups, jobs, platforms, the import, and what `fire_job` reads of them; composed with `Credentials` | `MCInventory`, `InventoryProofs` |
| `PipelineProofs` | theorems about the rows and counters of `Pipeline`, and that it implements `JobHandling` | `ClosingProofs` |
| `ClosingProofs` | theorems: batches of `Pipeline` do not close too early | |
| `JobStreamProofs`, `BackupStoreProofs`, `SchedulerProofs`, `WorkerPoolProofs`, `ComplianceProofs` | theorems about the module each is named for | |
| `InventoryProofs` | theorems about `Credentials` and `Inventory` | |

The modules overlap on purpose: `Pipeline` has the streams without order or
capacity (any order of delivery, any loss by trimming), which is more than Redis
can do and lets the counters be studied for all of it; `JobStream` has the
capacity and nothing else; `BackupStore` replaces the counters by their meaning
in the absence of lost updates (a batch is done when no run is pending).

`WorkerPool` and `Inventory` open what `Pipeline` treats as a step or an input: how
a job in hand ends, and which devices and credentials a batch is made of.

Some operators whose comment begins "A mutant of" are wrong on purpose. They are
in no specification: substituting one for the operator it names must make
a property fail, which shows that the property depends on that code.

### Pipeline

A run is a (batch, device) pair; there is one message of each kind per run.

| Variable | In the code |
|---|---|
| `phase` | how far `fire_job` is; rows are invisible until its commit |
| `status`, `succeeded`, `failed`, `finished` | the columns of `runs` and `run_batches`, as committed |
| `stale` | `created_at < cutoff` in the reaper's query |
| `job`, `result`, `good` | where each message is, and `JobResult.success` |
| `rec` | locals of `_persist`: which query it is at and what it has read |
| `reap` | the same for `_reap_stale_batches` |
| `admin[w]` | the same for the request that web process `w` serves |

A handler is split at each query, since another process can commit between two of
them, and its commit is one step that writes the columns that differ from what
was read (a status equal to the one read is not written, `succeeded` and
`failed` are absolute). Details worth knowing:

* `FireReject` is the refusal at capacity as the code has it: `dispatch.py:130`
  uses `log`, which the module does not define, so it raises before any row exists.
  The branch that would record the refusal (`dispatch.py:163-172`) is dead.
* `FireInterrupted` is the scheduler's way of failing (`scheduler/runner.py:113`
  catches, the tick commits the flushed rows), `FireRollback` the web process's,
  and that of a process that dies.
* `ReapReadRuns` and `PurgeReadBatches` read several batches in one step where
  the code has a query per batch. Each property concerns one batch at a time, and
  the code's later reads of the other batches only see fresher rows.
* A result is acknowledged after the transaction; a crash between the two leaves
  an entry that nothing reads again, so `PersistCommit` includes the
  acknowledgement. A restarted recorder may get the old consumer name (the name is
  its pid), and still reads only new entries.
* `RUNNING` and `TIMEOUT` are never written by any code.
* Deleting a device cascades to its runs (`models/run.py:36`); not modelled.

### BackupStore

`disk`, `index` and `log` are the working tree, the git index and the list of
committed trees (a sha is a position in it). `call` is the recorder's transaction
in progress: a result or a reaping, the batches it closes, the paths popped from
`batch_staged`, the sha to stamp. Results of overlapping batches touch the same
file. `Cancel` and `Purge` are the web process closing batches behind the recorder's back (what a
purge deletes and counts twice is `Pipeline`'s subject). A file is `Dirty` while it or its
entry in the index differs from the last commit: a failed commit leaves what it added in the
index, and the next commit of any batch carries it. `GitStore.write` is never reached: `fire_job` gives every run a batch.

### JobStream

Entries are numbers in the order of their ids. `CheckLength` is `XLEN`; `Admit`
is `XINFO GROUPS` with the comparison in `fire_job`. `Publish` is `XADD` with an
approximate `MAXLEN`: it may trim the oldest entries above the cap, some of
them or none. `disp[p].waiting` and `left` note, for a property, how many entries
really waited when the dispatcher looked, and how many were delivered and still
there. `read` is the group's `entries-read`. Redis knows it exactly as long as no entry
has gone; after a deletion or a trimming it may add one to what it had, estimate it
from the place of the entry, or answer nil (`EntriesRead`), and before the first
delivery it is nil. `Pressure` is what the code makes of nil: 0. Pool streams share no
state with each other, so one stream is modelled.

### Scheduler

`TickBegin` reads the enabled rows, `TickSchedule` treats one of them in any
order (the query has no ORDER BY), `TickCommit` writes the changed columns over
whatever the row has become. `tick[i].read` is the session's copy of the rows.
`TickAborts` is `_next_fire` raising out of `_fire_due`; the outer `except`
(`scheduler/runner.py:158`) lets the session commit what was done. A row deleted
during a tick makes the commit raise (SQLAlchemy finds no row to update): that is
outside the `except` and ends the process (`TickFails`). A cron is its period and
0 stands for text that croniter rejects.

### WorkerPool and JobHandling

`loop`, `pending` and `stop` are `run_worker`, `procs` is the subprocesses of its pool
that live, and the pool is `Broken` when one is missing; `step[j]` is how far
`_handle` has got with job `j`, `session` its connection, `temp` the platform
definition `_build_cli_driver` writes to disk, `sent` and `flagged` what the device
answered. A spec is one of the shapes that `execute` distinguishes. Every call to a
device may raise. What matters is where: an exception inside the driver's `try`
gives a failed result and skips `close` (`Raise`), one outside it reaches `_handle`
(`Failed`) and leaves the definition on disk.

`SubprocessDies` takes one subprocess, with the job in its hand or idle, and breaks the
pool: the executor fails every future it has (`FuturesDone`), and the next `submit` raises
out of the loop into the exit of the `with` (`ReadBroken`). The executor also sends SIGTERM
to the siblings, but they were forked after `_install_signals` and only set their copy of
`_stop`, which nothing in a subprocess reads. So they go on: jobs in hand are finished,
published and acknowledged although their futures have failed, calls left in the queue are
taken or lost, and then the siblings wait for more. Leaving the pool joins them: at once
when none is left (`Joined`), when they are told to end, which Python 3.11 does
(`JoinBroken`), or never. `ReadDrops` is an entry that was delivered and does not decode,
or whose answer is lost: nobody has it.

`JobHandling` has one variable: a job is waiting, held, answered or lost; it is
taken once, answered at most once, and no more than `Capacity` are held.
`WorkerPool` implements it with `Capacity` the concurrency (`ImplementsHandling`),
`Pipeline` with one entry per run and no bound but the number of runs
(`HandlesJobs`): the stream, the result message and the recorder's read are all
"answered", trimmed and crashed ones are "lost". Both are refinement mappings that
TLC checks step by step and that are proved for every instance.

### ComplianceEngine and Compliance

The engine is `_satisfies`, `_evaluate_check` and `evaluate_policy` over abstract
texts: which are numbers (`NumberOf`), which occur in which (`Within`), what a
pattern finds (`Matches`), which compile (`Patterns`), what a parser makes of a
configuration (`Parsed`; outside its domain the parser raises). `10` and `10.0` are
equal because `_coerce` reads numbers; so are, in the code, the versions `15.1` and
`15.10`.

`Compliance` has one policy. `eval[a]` is an evaluation in three steps (policy,
scope and configurations; the checks, which the ORM loads lazily; verdicts and
commit), `edit[w]` an `update_policy` in two. `quiet` is a history variable: nothing
else committed since the transaction read. The recorder's evaluation is part of the
transaction that stores the last configuration and closes the batch, so
`EvalRollback` leaves the batch open and drops the result. A check id is never used
twice, so a stale form can name one that is gone: the row then becomes a new check.
A check's mode and severity are among those that the form's selects offer. Rows of a form
and rows of a parse are sets: an equal pair counts once.

### Credentials and Inventory

A request that reads and then writes is two steps, with what it read (`seen`) and
what it wants (`want`) in `credreq` or `req`; its commit writes the columns that
differ (`Merged`), inserts and deletes memberships one by one (`Linked`), and fails
as a whole on what PostgreSQL refuses: a duplicate name, a membership that is
already there or already gone, a reference to a deleted row. Making a credential the
default clears the flags in an UPDATE of its own, which locks those rows until the
commit (`ClearDefaults`, `Locked`) and misses a row inserted meanwhile; the partial
unique index then refuses the second default.

`fire` is a call of `fire_job`: it looks up the default credential (`FireBegin`), collects
the targets, flushes the run rows, and loads each credential and platform when it publishes
the job that needs it; `specs` is what it has published. `session` is what its database
session holds. An object loaded once is not read again (`Loading`, `Loaded`), and a tick of
the scheduler makes all its calls in one session (`scheduler/runner.py:74`, `:94`, `:102`),
so a second call goes by the devices, groups and credentials that the first one loaded.
Only the default's object is let go when its call returns, unless a device or a group holds
it too: the identity map is weak. A failed flush spoils the session, `SessionEnds` commits
it. `FireCollect` is one step for the queries of `collect_job_targets`; what others commit
between two of them counts as an edit made just before or after. `session.touched` is a
history variable: the rows that others have committed since the session began.

Abstractions: the optional columns (port, make, role, transport, timeouts...) follow
the same rules as `worker_pool` and are represented by it (in a bulk edit a blank leaves the
others as they are and clears `worker_pool`); a group is known by its name, and the groups
of a line are a set, so naming one twice is not told apart; the refusal at capacity is in
`JobStream`; creating a group, a job or a platform and deleting anything are one step; the
three queries of the import are one step; a name clash of groups, jobs, credentials
or platforms only makes their request fail and is left out.

## Runs

Sizes are distinct states; each finishes in about a minute and a half or less on two workers.

| Run | Instance | Shows |
|---|---|---|
| `pipeline_cancel` | 1 batch, 3 runs, 2 web processes that cancel, 1 crash or rollback (377,000) | `SucceededIsExact`, `CountedRunsAreSettled`, `ClosedMeansSettled`, `SuccessNeverFails`, `HandlesJobs` |
| `pipeline_closes` | 2 batches (one without devices), 2 runs, purge, 1 crash or rollback (386,000) | `EveryBatchCloses` |
| `backup` | 2 overlapping batches, 2 devices, 2 contents, cancel, purge, 1 failure or restart (75,000) | `StampsExist`, `SearchSeesDisk`, `ForgottenInFourWays`, `TrackedIsHandled` |
| `stream` | 2 dispatchers, cap 2, 3 jobs in all, batches of 1 or 2 (452,000) | `DriftIsBounded`, `RefusalsAreJustified`, `EveryJobLeavesTheQueue` |
| `scheduler` | 2 instances, 1 schedule, periods 1, 2 and invalid, 1 edit, 1 fault (258,000) | `LeaderFiresOnce`, `DueIsHandled` |
| `worker_pool` | 2 subprocesses, 3 jobs in three mixes of kind, driver and platform, 2 faults (357,000) | `SuccessMeansTheWholeSession`, `DefinitionsAreRemoved`, `GracefulStopLeavesNothing`, `ImplementsHandling`, `StopEnds`, `TakenEnds` |
| `compliance` | 2 devices, 1 group, 2 parsers, 2 contents, 5 checks of all modes and severities, 2 web processes and the recorder (704,000) | `VerdictsAreJustified`, `DeletedPolicyLeavesNothing`, `QuietRunIsCurrent`, `ClosingEvaluatesWhatIsStored`, `SavedFormIsThePolicy`, `AddingChecksNeverExcuses` |
| `inventory` | 2 devices, 3 groups, 2 jobs, 2 credentials, 2 platforms, 2 slots for requests, dispatches one after another in a session (1,161,000) | `RowsAreConsistent`, `JobsUseWhatIsAssigned`, `DefaultIsReplacedNeverLost`, `ImportTakesNothingAway`, `ImportIsWhole`, `PlatformsMixOnlyByImportOrOverlap` |

Runs that are expected to fail, each a disagreement between the code and its own
documentation (the quotations are in `PROJECT.json`, "findings"):

| Run | What happens |
|---|---|
| `pipeline_purge_closes_early` | purge scans an entry, a worker takes it, purge cancels and counts its run, the result counts it again: the batch closes while another run is pending |
| `pipeline_refusal_crashes` | a batch refused at capacity raises `NameError` and leaves no batch and no run, where the documentation promises a failed batch in the history |
| `scheduler_invalid_cron` | an invalid cron raises out of the loop on every tick; schedules after it never fire |
| `credentials_blank_secret` | entering one of password and enable password and leaving the other blank erases the other |

What the code does not guarantee, seen in traces of these models and not given a run:

* The `failed` counter loses increments when cancel and recorder overlap
  (`recorder/runner.py:121`, `web/routes/runs.py:205`). The closed batch then has
  succeeded + failed < total and its badge says "running" for good;
  `CountedRunsAreSettled` is the half that holds.
* A cancel or a purge closes a batch whose captured files wait in `batch_staged`: that version
  never gets into the history. `ForgottenInFourWays` lists it among the ways.
* `job_stream_pressure` does not count the undelivered entries that its docstring
  promises ("i.e. entries not yet fetched by any worker", `queue.py:47-48`).
  `XLEN - entries-read` sinks by one with every completed job, so in the end a batch is
  admitted over a full stream; and when Redis has lost `entries-read` (nil, taken as 0),
  the jobs in hand count as waiting and a batch may be refused because of them.
  `DriftIsBounded` says by how much it is off, `RefusalsAreJustified` what a refusal
  still means.
* A broken pool need not end the worker. With `worker_concurrency` of two or more, the
  siblings of a lost subprocess ignore SIGTERM and wait for calls, and leaving the pool
  waits for them: on Python 3.12, the one of the `Dockerfile`, for ever. The process stays
  up and reads no more jobs. `StopEnds` excepts a pool with lost and living
  subprocesses; that the siblings' jobs are answered and not redone is in `TakenEnds`
  and `ImplementsHandling`.
* When the connection that holds the advisory lock is lost, `have_lock` stays true
  and two leaders fire the same slot. `LeaderFiresOnce` excludes that fault.
* An import sets `platform` on a device with a custom platform and leaves
  `custom_platform_id`; dispatch then ignores what was imported (`dispatch.py:53`).
  `PlatformsMixOnlyByImportOrOverlap` says this is one of the two ways.
* An administrator's edit during a dispatch can make a job of two versions of the
  inventory, and one during a tick of the scheduler is missed by the schedules after it
  that use the row. `JobsUseWhatIsAssigned` binds what a dispatch takes from rows that
  nobody touched since its session began, whatever is done to the others meanwhile.
* A NETCONF reply is not looked at: an `rpc-error` is stored as a configuration.
  `SuccessMeansTheWholeSession` excludes it.
* A compliance pattern that does not compile raises outside the `try`: the last
  result of the batch is dropped and the reaper has to close it.

Disagreements seen while modelling and not given a run:

* `web/docs/compliance.md:151`: a failing `minor` check "does not affect the overall
  `pass`/`fail` status", and `:160-161`: a policy passes when "all critical and major
  checks passed". In `compliance.py:135-138` any failing check that is not `info` fails
  the policy, as the comment there says. `VerdictsAreJustified` is stated for the code,
  minor checks included.
* `web/docs/devices.md:70`: "Leave a field blank to leave it unchanged". A `bulk_worker_pool`
  that is sent blank clears the pool (`devices.py:357-358`); one that is not sent leaves it,
  and today's list form does not have the field.
* `templates/devices/import.html:16` says that a blank worker pool is the default pool.
  An import leaves a device's pool as it is when the cell is blank, as `import.html:13` and
  the docstring say (`import_devices.py:24`). `ImportTakesNothingAway` is stated for the code.
* `web/docs/compliance.md:10` promises the failing rows of a check. For mode `none` the
  rows stored are those that do not satisfy the check (`compliance.py:92`, `:111`), which
  are not the ones that fail it.
* `docs/schedules.md:43` says missed ticks are not replayed after a restart.
  `next_run_at` is persisted and `_fire_due` fires any that is past (one firing
  for the whole backlog).
* `docs/runs.md:27` and `:49` show a `running` status that nothing writes.
* `docs/runs.md:39` and `models/run.py:59`: a run's commit is the one that
  recorded its configuration. If the reaper stamps a run it fails and the result
  then arrives, the run becomes a success with a commit that does not contain it.
* `docs/runs.md:60` speaks of `.txt` files; `GitStore.file_path` writes `.cfg`.
* `tests/test_queue.py:92` expects groups created at `$`; the code uses `0`,
  and `EveryJobLeavesTheQueue` needs the code's choice.

### Bounds

* Three runs and two cancelling web processes: the counter races need a result
  being persisted, a run being cancelled and a third that is still open when the
  batch would close. Two web processes make one handler overtake another.
* `ReadCount` 2 makes the recorder hold a second result while it persists the
  first; 8 in the code.
* `MaxFaults` bounds crashes and rolled-back transactions that would otherwise
  repeat for ever. Lost messages are not bounded by it: each message is lost once.
* In `backup`, two batches that share a device and two contents are what it takes
  for one batch to overwrite, restore or commit the other's file.
* In `stream`, a cap of 2 with batches of 2 reaches trimming, refusal and the
  check racing with publishing; `MaxJobs` ends the behaviour.
* In `scheduler`, the clock stops at `Horizon` 2: a slot, a backlog of slots
  (fired once at 2 for a slot at 1) and two successive firings all fit.

* In `worker_pool`, three jobs for two subprocesses make the pool full and one job
  wait; the mixes pair each path of `execute` with another; two faults let one
  subprocess die and leave a sibling with a job, and then the sibling die too or fail
  to publish.
* In `compliance`, the bounds on requests, check ids and batches let an edit, a run
  and a deletion overlap the closing of a batch; the five checks cover a
  numeric equality, an "all", a "none", a pattern that does not compile, and each severity.
* In `inventory`, up to four requests and dispatches (`MaxRequests`): two requests overlap
  each other or a dispatch, after one that prepared them, or two dispatches in one session
  with two edits before, between or within them. Two ids of each kind, one in
  the table and one free, give creation, deletion and the reuse of a name.

Deadlock is not checked: with messages all gone, bounds used up and the clock
stopped, these systems rest.

### Fairness

* `Pipeline`: weak fairness of the recorder's own steps and of the clock that
  makes a batch stale. It is one sequential loop that catches every exception
  (`recorder/runner.py:368-394`), so a step it can take stays possible until
  taken. Nothing is assumed of dispatchers, workers or administrators.
* `BackupStore`: the recorder again: it carries a transaction through and reaps.
* `JobStream`: a worker creates the group and goes on reading. No acknowledgement
  is assumed.
* `WorkerPool`: the loop's waits end (one second, two seconds), and so does every
  call to a device (connect and command timeouts), also in the siblings of a lost
  subprocess; nothing is assumed of signals, nor of leaving a broken pool whose
  siblings live (`JoinBroken`).
* `Compliance`, `Inventory` and `Credentials`: none, they state safety only.
* `Scheduler`: the clock, a supervisor that restarts a dead instance, and each
  running instance's loop.

## Proofs

Every theorem is proved for all values of the constants, under the module's own
`ASSUME` (types and finiteness of the constants, which TLC evaluates in each run) and,
where the table says so, one hypothesis more. The bounds of the runs (`MaxFaults`,
`MaxJobs`, `Horizon`, ...) are arbitrary naturals in the proofs.

| Theorem | States |
|---|---|
| `PipelineProofs!TypeCorrectness` | `TypeOK` |
| `PipelineProofs!SuccessCountIsExact` | `SucceededIsExact` |
| `PipelineProofs!SuccessesAreNotReaped` | `SuccessNeverFails` |
| `ClosingProofs!ClosedBatchesAreSettled` | `ClosedMeansSettled`, if nobody purges |
| `ClosingProofs!OpenCountsAreOfSettledRuns` | `CountedRunsAreSettled`, if nobody purges |
| `PipelineProofs!JobsAreHandledOnce` | `HandlesJobs`: `Pipeline` implements `JobHandling` |
| `JobStreamProofs!StreamTypeCorrectness` | `TypeOK` |
| `JobStreamProofs!DriftIsKnown` | `DriftIsBounded` |
| `JobStreamProofs!RefusalsHaveCause` | `RefusalsAreJustified` |
| `WorkerPoolProofs!PoolTypeCorrectness` | `TypeOK` |
| `WorkerPoolProofs!SuccessIsHonest` | `SuccessMeansTheWholeSession` |
| `WorkerPoolProofs!DefinitionsDoNotPileUp` | `DefinitionsAreRemoved` |
| `WorkerPoolProofs!GracefulStopIsClean` | `GracefulStopLeavesNothing` |
| `WorkerPoolProofs!PoolImplementsHandling` | `ImplementsHandling`: `WorkerPool` implements `JobHandling` |
| `BackupStoreProofs!StoreTypeCorrectness` | `TypeOK` |
| `BackupStoreProofs!StampedCommitsExist` | `StampsExist` |
| `BackupStoreProofs!SearchAgreesWithDisk` | `SearchSeesDisk` |
| `BackupStoreProofs!FilesAreForgottenInFourWays` | `ForgottenInFourWays` |
| `SchedulerProofs!SchedulerTypeCorrectness` | `TypeOK` |
| `SchedulerProofs!TheLockFiresOnce` | `LeaderFiresOnce` |
| `ComplianceProofs!ComplianceTypeCorrectness` | `TypeOK` |
| `ComplianceProofs!VerdictsSayWhatTheChecksSay` | `VerdictsAreJustified` |
| `ComplianceProofs!DeletionIsComplete` | `DeletedPolicyLeavesNothing` |
| `ComplianceProofs!ClosingIsCurrent` | `ClosingEvaluatesWhatIsStored` |
| `ComplianceProofs!MoreChecksNeverExcuse` | `AddingChecksNeverExcuses` |
| `ComplianceProofs!FormsAreSavedWhole` | `SavedFormIsThePolicy` |
| `ComplianceProofs!QuietRunsAreCurrent` | `QuietRunIsCurrent` |
| `InventoryProofs!TypeCorrect` | `TypeOK` |
| `InventoryProofs!RowsStayConsistent` | `RowsAreConsistent` |
| `InventoryProofs!TheDefaultIsNotLost` | `DefaultIsReplacedNeverLost` |
| `InventoryProofs!ImportOnlyAdds` | `ImportTakesNothingAway` |
| `InventoryProofs!ImportsAreWhole` | `ImportIsWhole` |
| `InventoryProofs!PlatformsMixInTwoWays` | `PlatformsMixOnlyByImportOrOverlap` |
| `InventoryProofs!DispatchUsesWhatIsAssigned` | `JobsUseWhatIsAssigned` |

Hardly any of these properties is inductive. What each proof adds is named below; each
inductive invariant was model-checked before it was proved.

### Pipeline

`TypeOK` is inductive. The one thing to show beyond routine is that the cardinalities
written into counters are numbers, which rests on `IsFiniteSet(Runs)`.

`SucceededIsExact`: `PersistCommit` writes `rec.succ + 1`, the value of two queries
earlier. `ExactInv` adds

1. `OneResultPerJob`: a run whose job is not finished has no result yet (a job is
   delivered once, so a result is published once),
2. `PersistsWhatItHolds`: the run being persisted has a result in hand that is not yet
   recorded, so recording it adds exactly one element,
3. `SuccessReadIsFresh`: what `_persist` read in `succeeded` is still what is committed.
   This is the heart: only the recorder writes that column, and it does so one result at a
   time. Cancel, purge and reaper write `failed` and `finished_at` of the same row, and the
   UPDATE names changed columns only. The mutant `AdminCommitWholeRow` (an UPDATE of the
   whole row) breaks it.

`SuccessNeverFails`: the reaper's victims were pending when it read them (`OneLoopInv`),
and the recorder, the only one to turn a run into a success, does nothing else until the
reaper has committed.

`ClosedMeansSettled` and `CountedRunsAreSettled` are proved together, under
`WithoutPurge`. Two observations make `ClosingInv` inductive. Once the reaper or a cancel
has read the open runs of a batch, that set only shrinks, so what it settles includes
every run that is still open (`ReaperHoldsOpen`, `CancelHoldsOpen`); and as long as a
batch is open, nobody but the recorder has written its counters, so what `_persist` read of
them is what is stored (`PersistReadIsFresh`), although `failed` has other writers. The
hypothesis is needed: `pipeline_purge_closes_early` is the counterexample with a purge.

`HandlesJobs`: the mapping `Handled` reads a run's place from its two messages. Most
actions leave it alone (`SameAnswers`: they touch no job and turn no result into "none" or
out of it); the take, the finish, the crash, the trimming and the purge are one `Move`
each. `ExactInv` is needed in three places: a job that is still out has no result, so
trimming, purge and crash map to "lost" and not to "answered"; and what `_persist` commits
or drops is a result that exists. The capacity of the abstract queue is the number of runs,
so nothing is said here of the bound on a process: that is `PoolImplementsHandling`.

### JobStream

`StreamInv` says that the entries past the last-delivered id are queued and the others
held or stranded (`EntriesAreCurrent`), that everything delivered is behind it
(`DeliveredAreBehind`), and that `entries-read`, as long as Redis knows it, lies between the
number of jobs delivered and the last-delivered id (`ReadIsBounded`), whichever of the
outcomes of `EntriesRead` each delivery took. For the refusal, the length that a check holds
between its two commands is what waited when it looked and what was left of the delivered
jobs, which are no more than have been delivered by now (`ChecksAreBounded`). `DriftIsKnown` is then arithmetic on
cardinalities of disjoint sets.

### WorkerPool

The properties of a job are local to it (`JobOK`): no error before the device is done with,
no success before the result is built, and a run of the driver that ended without an error
has been through the whole session. `PoolInv` adds what the refinement and the end of the
worker need. The futures number at most `Concurrency`, and in an unbroken pool the jobs
"held" are among them, so taking as many as there are free slots keeps the abstract queue
within its capacity. Once the pool is broken the futures say nothing any more and the
bounds are on the jobs themselves (`PoolBounds`): no more of them than slots, no more in
hand than subprocesses live, and none when none lives, because the calls still in the queue
are lost with the last one. The loss of a subprocess moves its own job and the lost calls to
"lost" and no other: what the siblings have stays "held" until they answer.

### BackupStore

`StoreInv` says what the transaction in progress knows of the stores it has written
already: a sha to stamp is in the history; a batch it has handled has no remembered paths
left; between `index.add` and the commit the index holds what is on disk; and, as long as
nothing failed, the database is behind the working tree by the result being persisted and
by nothing else. `ForgottenInFourWays` is then a case analysis of the steps. An attempt to
prove it with `Dirty` as "the file differs from HEAD" did not go through, and TLC
confirmed on three batches that it was false: a failed commit leaves the old content in the
index, a late result restores the file, and another batch's commit then carries the
index entry, after which the file is dirty and nobody's. `Dirty` therefore includes the
index, and that file is accounted for from the failed commit on.

### Scheduler

As long as `broken` is false, who believes to lead holds the lock (`OneLeader`), so at most
one tick is in progress. The slots it has still to fire, and those stored, are later than
every firing so far (`TodoIsUnfired`, `StoredIsUnfired`), except for the schedules whose new
slot the tick has yet to commit. A commit writes a slot strictly after the tick's time,
whatever row an edit left there; an edit keeps `next_run_at` or sets it to NULL, for which
the tick computes a later one. That a period's next slot is later than now is the only
arithmetic involved.

### Compliance

`ComplianceInv` relates what transactions have read to what is stored. A process serves
one request at a time. What an evaluation or an edit that nobody has disturbed has read is
current (`QuietEvalIsCurrent`, `QuietEditIsCurrent`): whoever commits a change of what it
read clears its `quiet`, which is proved action by action and not by construction, since
only commits that matter clear it. What the recorder has read is what its own transaction
will leave stored even if it was disturbed (`RecorderReadsWhatItStores`), because the
recorder alone writes `device_configs`, one result at a time. The verdict itself is `PassesIsUnbroken`, a lemma about the
engine: the decision of `compliance.py:73-112`, with its special case for no rows, against
what can be shown to break a check. It needs mode and severity to be ones the form offers,
which is an assumption on `Definitions`. `SavedChecks` follows
a form through `_apply_policy_data`: new ids are disjoint from stored ones, so each row of
the form, kept or new, is a check and there is no other.

### Credentials and Inventory

The assumptions are what the tables may hold to begin with (rows of their columns, unique
names, no reference to a missing row, at most one default), what a form or a line of a file
can say (`DeviceForm`, `BulkForm`, `ImportLine`...), that the groups are finitely many, and
that NULL is no id.

What is stored: `CredInv`, `RowsInv` and `ReqInv`, together `StoredInv`, are preserved by
every action. The heart of it is that a commit is checked against the rows of its
own moment and not against those its request read. An inserted membership or reference must
be to a row that is there (`LinkConflict`, `Dangling`); one that the request carries over
unchanged is taken from the stored row, whose references hold by induction, because
`Merged` writes only the columns that differ. A deletion takes the references to what it
deletes along. For the default credential, `CredSavedIs` says what one commit does to every
flag: the flags cleared are those of the rows in `sees`, and `CredConflict`, the unique
index, refuses when a default lies outside.

What requests carry: `ReqOK` says where the rows of a request come from. An import edits and
inserts `ImportedRow` and `NewRow` of lines of its file, and has a place for every line
(`ImportReq`), which needs that a file with a duplicate name is refused, so that the line
chosen for a name is the only one (`LinesAreNamed`). No other request puts a device on
two platforms by itself (`PlainReq`). What a quiet request has read is what is stored
(`IsCurrent`). `CommitFacts` then gives the three properties of a commit row by row; for
`PlatformsMixOnlyByImportOrOverlap` no row that was not mixed can become so from a current
read, and a stale one is the overlap.

The dispatch: `FireInv` relates what the session holds to what is stored. An object of a row
that nobody touched is the row (`HeldIsStored`), and so is the call's default
(`CallIsStored`); the targets are what the held rows say (`TargetsAreHeld`); and each
published job follows from held rows, while a target whose turn is over has a job unless it
has no credential that could be found (`SpecsFollow`). `CommittedElsewhere` puts every row
that a commit changes into `touched`, which is proved action by action (`UntouchedIs`).
`TargetsAre` shows that whatever order the
database returns the groups in, a device goes by a group it shares with the job, and that
none that shares one is missed (`OrderIsWhole`: an injection of 1..n into n groups meets
all of them). `UsableIs` is where the references matter: `_spec_for` skips a
credential that no longer loads, and that of an untouched row is missing only if the
credential was touched.

The theorem about imports needs no bound on the length of a file and the one about
dispatches none on the number of groups: the runs have two lines and three groups.

### Only model-checked

* Liveness: `EveryBatchCloses`, `TrackedIsHandled`, `EveryJobLeavesTheQueue`, `DueIsHandled`,
  `StopEnds`, `TakenEnds`. Fairness and ENABLED are outside the prover.
* What a recursive definition computes for every input; no module needs one.
* The violations, which are single behaviours.

## Not modelled

* Users, login and sessions (`web/auth.py`, `web/routes/auth.py`): one query and one
  assignment per request, no state shared with the rest.
* The pages that only read: lists, details, search, diff, dashboard, CSV and data
  exports; `GitStore`'s history and diff functions.
* The NVD client and `cve_scans` rows, the parser libraries, Vault, croniter, scrapli:
  external, modelled by what they may answer.
* Editing a parser template or a platform's YAML, `max_parallel` (no code reads it),
  bulk deletion of schedules, and the column-by-column copy of a job into its message.
* Migrations, except for the constraints the models rely on; templates, logging.

`PROJECT.json` lists every component with its status.

## Plan

Every safety property of a passing run is proved. What is left:

1. A lemma layer for `Pipeline`: which batches a purge can close early.
2. `Scheduler` with two schedules in its run, to separate what one failing row does to
   the others from what it does to itself (the proofs hold for any number).
