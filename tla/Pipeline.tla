------------------------------ MODULE Pipeline ------------------------------
(***************************************************************************)
(* The life of a batch of runs, from dispatch to the closed batch row.     *)
(*                                                                         *)
(* Five processes meet in two stores.  A dispatcher (the web process or    *)
(* the scheduler) executes fire_job: it inserts a run_batches row and one  *)
(* runs row per device and publishes one job per run to a Redis stream.    *)
(* Workers take jobs and publish results.  The recorder persists results   *)
(* and, in the same loop, reaps batches that stay open too long.           *)
(* Administrators cancel batches or purge the queue.  The last three       *)
(* read rows, compute in Python and write changed columns back as          *)
(* ABSOLUTE values when they commit (READ COMMITTED, no row locks on       *)
(* read), so every handler is split where another one can commit: one      *)
(* action per query, one for the commit.                                   *)
(*                                                                         *)
(* A run is a (batch, device) pair; its message in either stream is known  *)
(* by its run.  Streams are unordered here: any order of delivery is       *)
(* allowed, which includes the FIFO order of Redis.  What a result says    *)
(* is reduced to JobResult.success.  The git side of the recorder is in    *)
(* BackupStore, stream capacity in JobStream.                              *)
(***************************************************************************)
EXTENDS Integers, FiniteSets

CONSTANTS
  Batches,      \* run_batches ids
  Runs,         \* runs ids
  BatchOf,      \* the batch of each run; RunBatch.total is the number of its runs
  NoRun,        \* "no result is being persisted"
  WebWorkers,   \* the processes of the web server (5 by default)
  AdminOps,     \* the administrators' handlers in use: "cancel", "purge"
  ReadCount,    \* results fetched by one XREADGROUP (8 in the code)
  MaxFaults     \* bound: crashes and failed transactions that are not bounded otherwise

ASSUME PipelineAssumption ==
  /\ IsFiniteSet(Runs)
  /\ BatchOf \in [Runs -> Batches]
  /\ NoRun \notin Runs
  /\ AdminOps \subseteq {"cancel", "purge"}
  /\ ReadCount \in Nat \ {0}
  /\ MaxFaults \in Nat

VARIABLES
  phase,      \* fire_job's transaction for each batch
  status,     \* runs.status as committed; "absent" while no row is visible
  succeeded,  \* run_batches.succeeded as committed
  failed,     \* run_batches.failed as committed
  finished,   \* run_batches.finished_at is not null
  stale,      \* batches whose created_at is before the reaper's cutoff
  job,        \* the job message of each run
  result,     \* the result message of each run
  good,       \* JobResult.success of a published result
  rec,        \* the recorder's _persist call in progress
  reap,       \* the recorder's _reap_stale_batches call in progress
  admin,      \* the administrator's request in progress in each web process
  faults      \* how much of MaxFaults has been used

dbVars     == <<phase, status, succeeded, failed, finished, stale>>
streamVars == <<job, result, good>>
vars       == <<dbVars, streamVars, rec, reap, admin, faults>>

\* fire_job commits last, so its rows are invisible while it publishes.
Phase == {"none", "publishing", "visible", "aborted", "refused"}

\* RunStatus; no code ever writes RUNNING or TIMEOUT.
RunStatus == {"absent", "pending", "success", "failed", "cancelled"}

\* "no_credential": fire_job found no credential and published nothing.
\* "held": delivered to a worker and not acknowledged.  "gone": no consumer
\* will ever see it (again): acknowledged, deleted, trimmed or stranded in
\* the pending list of a dead consumer, which nothing re-reads.
JobState == {"none", "no_credential", "queued", "held", "gone"}

\* "persisted" is a "gone" result whose transaction committed; the
\* difference is history, for the properties only.
ResultState == {"none", "queued", "held", "persisted", "gone"}

RunsOf(b)      == {r \in Runs : BatchOf[r] = b}
Total(b)       == Cardinality(RunsOf(b))
OpenRuns(b)    == {r \in RunsOf(b) : status[r] = "pending"}
SettledRuns(b) == {r \in RunsOf(b) : status[r] \in {"success", "failed", "cancelled"}}
Count(S, b)    == Cardinality(S \cap RunsOf(b))

Zeros == [b \in Batches |-> 0]

\* A counter column as a handler has read it, for the batches it read.
Snapshot(column, S) == [b \in Batches |-> IF b \in S THEN column[b] ELSE 0]

NoPersist == [at |-> "idle", run |-> NoRun, seen |-> "absent",
              succ |-> 0, fail |-> 0, fin |-> FALSE]
NoReap    == [at |-> "idle", batches |-> {}, victims |-> {}, fail |-> Zeros]
NoAdmin   == [at |-> "idle", batches |-> {}, scanned |-> {}, victims |-> {},
              succ |-> Zeros, fail |-> Zeros, closed |-> {}]

Init ==
  /\ phase = [b \in Batches |-> "none"]
  /\ status = [r \in Runs |-> "absent"]
  /\ succeeded = Zeros
  /\ failed = Zeros
  /\ finished = [b \in Batches |-> FALSE]
  /\ stale = {}
  /\ job = [r \in Runs |-> "none"]
  /\ result = [r \in Runs |-> "none"]
  /\ good = [r \in Runs |-> FALSE]
  /\ rec = NoPersist
  /\ reap = NoReap
  /\ admin = [w \in WebWorkers |-> NoAdmin]
  /\ faults = 0

-----------------------------------------------------------------------------
(* Dispatch: fire_job.                                                     *)

\* The capacity check failed.  The warning about it uses a logger that
\* dispatch.py does not have: NameError, before the batch has a row.
FireReject(b) ==
  /\ phase[b] = "none"
  /\ RunsOf(b) # {}
  /\ phase' = [phase EXCEPT ![b] = "refused"]
  /\ UNCHANGED <<status, succeeded, failed, finished, stale, streamVars,
                 rec, reap, admin, faults>>

\* The rows are flushed (the runs have ids) and publishing begins.
FireStart(b) ==
  /\ phase[b] = "none"
  /\ phase' = [phase EXCEPT ![b] = "publishing"]
  /\ UNCHANGED <<status, succeeded, failed, finished, stale, streamVars,
                 rec, reap, admin, faults>>

\* One turn of the publishing loop.
FirePublish(r) ==
  /\ phase[BatchOf[r]] = "publishing"
  /\ job[r] = "none"
  /\ \E sent \in {"queued", "no_credential"} : job' = [job EXCEPT ![r] = sent]
  /\ UNCHANGED <<dbVars, result, good, rec, reap, admin, faults>>

\* What the dispatcher's commit makes visible.  A batch in which no device
\* has a credential stays open although all its runs are FAILED.
CommitRows(b) ==
  LET refused == {r \in RunsOf(b) : job[r] = "no_credential"} IN
  /\ phase' = [phase EXCEPT ![b] = "visible"]
  /\ status' = [r \in Runs |-> IF r \in refused THEN "failed"
                               ELSE IF BatchOf[r] = b THEN "pending"
                               ELSE status[r]]
  /\ failed' = [failed EXCEPT ![b] = Cardinality(refused)]

FireCommit(b) ==
  /\ phase[b] = "publishing"
  /\ \A r \in RunsOf(b) : job[r] # "none"
  /\ CommitRows(b)
  /\ UNCHANGED <<succeeded, finished, stale, streamVars, rec, reap, admin, faults>>

\* publish_job or resolve_credential raised.  The scheduler catches it and
\* its tick commits the flushed rows: some runs are pending with no job.
FireInterrupted(b) ==
  /\ phase[b] = "publishing"
  /\ \E r \in RunsOf(b) : job[r] = "none"
  /\ CommitRows(b)
  /\ UNCHANGED <<succeeded, finished, stale, streamVars, rec, reap, admin, faults>>

\* In the web process, or when the process dies or the commit fails, the
\* rows are rolled back and the jobs already published stay published.
FireRollback(b) ==
  /\ phase[b] = "publishing"
  /\ phase' = [phase EXCEPT ![b] = "aborted"]
  /\ UNCHANGED <<status, succeeded, failed, finished, stale, streamVars,
                 rec, reap, admin, faults>>

-----------------------------------------------------------------------------
(* The job stream and the workers.                                         *)

\* read_jobs delivers only new entries, so a job is delivered once.
WorkerTake(r) ==
  /\ job[r] = "queued"
  /\ job' = [job EXCEPT ![r] = "held"]
  /\ UNCHANGED <<dbVars, result, good, rec, reap, admin, faults>>

\* A mutant of WorkerFinish: the job is handed back instead of acknowledged,
\* as at-least-once delivery would.
WorkerFinishRedelivers(r) ==
  /\ job[r] = "held"
  /\ job' = [job EXCEPT ![r] = "queued"]
  /\ result' = [result EXCEPT ![r] = "queued"]
  /\ \E ok \in BOOLEAN : good' = [good EXCEPT ![r] = ok]
  /\ UNCHANGED <<dbVars, rec, reap, admin, faults>>

\* _handle: whatever execute does, one result is published and then the job
\* is acknowledged.  A crash between the two leaves nothing to redeliver,
\* so they are one step.
WorkerFinish(r) ==
  /\ job[r] = "held"
  /\ job' = [job EXCEPT ![r] = "gone"]
  /\ result' = [result EXCEPT ![r] = "queued"]
  /\ \E ok \in BOOLEAN : good' = [good EXCEPT ![r] = ok]
  /\ UNCHANGED <<dbVars, rec, reap, admin, faults>>

\* The worker dies, or publish_result raises, with the job in hand.
WorkerCrash(r) ==
  /\ job[r] = "held"
  /\ job' = [job EXCEPT ![r] = "gone"]
  /\ UNCHANGED <<dbVars, result, good, rec, reap, admin, faults>>

\* XADD with MAXLEN trims an entry nobody has read.
JobTrimmed(r) ==
  /\ job[r] = "queued"
  /\ job' = [job EXCEPT ![r] = "gone"]
  /\ UNCHANGED <<dbVars, result, good, rec, reap, admin, faults>>

ResultTrimmed(r) ==
  /\ result[r] = "queued"
  /\ result' = [result EXCEPT ![r] = "gone"]
  /\ UNCHANGED <<dbVars, job, good, rec, reap, admin, faults>>

-----------------------------------------------------------------------------
(* The recorder: one loop that persists what it has read, result by        *)
(* result, and then may reap.                                              *)

\* A mutant of RecorderIdle: the reaper is a thread beside the loop.
ReaperIsAThread == rec.at = "idle"

RecorderIdle == rec.at = "idle" /\ reap.at = "idle"
Inbox  == {r \in Runs : result[r] = "held"}
Unread == {r \in Runs : result[r] = "queued"}

RecorderRead ==
  /\ RecorderIdle
  /\ Inbox = {}
  /\ \E S \in SUBSET Unread :
       /\ S # {}
       /\ Cardinality(S) <= ReadCount
       /\ S = Unread \/ Cardinality(S) = ReadCount
       /\ result' = [r \in Runs |-> IF r \in S THEN "held" ELSE result[r]]
  /\ UNCHANGED <<dbVars, job, good, rec, reap, admin, faults>>

\* _persist reads the run; a run that is not there (not yet committed, or
\* rolled back) or is cancelled ends it, and the result is acknowledged.
PersistReadRun(r) ==
  /\ RecorderIdle
  /\ result[r] = "held"
  /\ IF status[r] \in {"absent", "cancelled"}
       THEN /\ result' = [result EXCEPT ![r] = "gone"]
            /\ rec' = rec
       ELSE /\ rec' = [at |-> "run", run |-> r, seen |-> status[r],
                       succ |-> 0, fail |-> 0, fin |-> FALSE]
            /\ result' = result
  /\ UNCHANGED <<dbVars, job, good, reap, admin, faults>>

\* It then reads the batch, in a query of its own.
PersistReadBatch ==
  /\ rec.at = "run"
  /\ LET b == BatchOf[rec.run] IN
       rec' = [at |-> "batch", run |-> rec.run, seen |-> rec.seen,
               succ |-> succeeded[b], fail |-> failed[b], fin |-> finished[b]]
  /\ UNCHANGED <<dbVars, streamVars, reap, admin, faults>>

\* A mutant of PersistCommit: it closes a batch one result early.
PersistClosesEarly(b, s, f) == ~rec.fin /\ s + f + 1 >= Total(b)

\* "When the last result of a batch arrives": judged on the row as read.
PersistCloses(b, s, f) == ~rec.fin /\ s + f >= Total(b)

\* The commit writes the columns that differ from what was read: a status
\* equal to the one read is not written.
PersistCommit ==
  LET r   == rec.run
      b   == BatchOf[r]
      new == IF good[r] THEN "success" ELSE "failed"
      s   == IF good[r] THEN rec.succ + 1 ELSE rec.succ
      f   == IF good[r] THEN rec.fail ELSE rec.fail + 1
  IN
  /\ rec.at = "batch"
  /\ status' = IF new = rec.seen THEN status ELSE [status EXCEPT ![r] = new]
  /\ succeeded' = IF good[r] THEN [succeeded EXCEPT ![b] = s] ELSE succeeded
  /\ failed' = IF good[r] THEN failed ELSE [failed EXCEPT ![b] = f]
  /\ finished' = [finished EXCEPT ![b] = @ \/ PersistCloses(b, s, f)]
  /\ result' = [result EXCEPT ![r] = "persisted"]
  /\ rec' = NoPersist
  /\ UNCHANGED <<phase, stale, job, good, reap, admin, faults>>

\* A mutant of PersistFails: the call is left, its state is not.
PersistFailsLeavesState ==
  /\ rec.at # "idle"
  /\ result' = [result EXCEPT ![rec.run] = "gone"]
  /\ rec' = [rec EXCEPT !.at = "idle"]
  /\ UNCHANGED <<dbVars, job, good, reap, admin, faults>>

\* Anything _persist calls raises: the transaction is rolled back, the
\* result stays unacknowledged, and read_results never returns it again.
PersistFails ==
  /\ rec.at # "idle"
  /\ result' = [result EXCEPT ![rec.run] = "gone"]
  /\ rec' = NoPersist
  /\ UNCHANGED <<dbVars, job, good, reap, admin, faults>>

BatchExpires(b) ==
  /\ phase[b] = "visible"
  /\ ~finished[b]
  /\ b \notin stale
  /\ stale' = stale \cup {b}
  /\ UNCHANGED <<phase, status, succeeded, failed, finished, streamVars,
                 rec, reap, admin, faults>>

\* A mutant of ReapSelect: a batch with no result at all is not reaped.
ReapSelectTouched ==
  LET found == {b \in stale : ~finished[b] /\ succeeded[b] + failed[b] > 0} IN
  /\ RecorderIdle
  /\ Inbox = {}
  /\ found # {}
  /\ reap' = [at |-> "batches", batches |-> found, victims |-> {},
               fail |-> Snapshot(failed, found)]
  /\ UNCHANGED <<dbVars, streamVars, rec, admin, faults>>

\* _reap_stale_batches runs between two rounds of persisting.
ReapSelect ==
  LET found == {b \in stale : ~finished[b]} IN
  /\ RecorderIdle
  /\ Inbox = {}
  /\ found # {}
  /\ reap' = [at |-> "batches", batches |-> found, victims |-> {},
               fail |-> Snapshot(failed, found)]
  /\ UNCHANGED <<dbVars, streamVars, rec, admin, faults>>

ReapReadRuns ==
  /\ reap.at = "batches"
  /\ reap' = [at |-> "runs", batches |-> reap.batches, fail |-> reap.fail,
               victims |-> UNION {OpenRuns(b) : b \in reap.batches}]
  /\ UNCHANGED <<dbVars, streamVars, rec, admin, faults>>

ReapCommit ==
  /\ reap.at = "runs"
  /\ status' = [r \in Runs |-> IF r \in reap.victims THEN "failed" ELSE status[r]]
  /\ failed' = [b \in Batches |->
                  IF Count(reap.victims, b) > 0
                    THEN reap.fail[b] + Count(reap.victims, b) ELSE failed[b]]
  /\ finished' = [b \in Batches |-> finished[b] \/ b \in reap.batches]
  /\ reap' = NoReap
  /\ UNCHANGED <<phase, succeeded, stale, streamVars, rec, admin, faults>>

\* The reaper's transaction is rolled back; it is tried again later.
ReapFails ==
  /\ faults < MaxFaults
  /\ reap.at # "idle"
  /\ reap' = NoReap
  /\ faults' = faults + 1
  /\ UNCHANGED <<dbVars, streamVars, rec, admin>>

\* The process dies and a new one starts, under another consumer name: what
\* the old one had been delivered is never delivered again.
RecorderCrash ==
  /\ faults < MaxFaults
  /\ Inbox # {} \/ ~RecorderIdle
  /\ result' = [r \in Runs |-> IF result[r] = "held" THEN "gone" ELSE result[r]]
  /\ rec' = NoPersist
  /\ reap' = NoReap
  /\ faults' = faults + 1
  /\ UNCHANGED <<dbVars, job, good, admin>>

-----------------------------------------------------------------------------
(* The administrators.  A handler never yields, so a web process serves    *)
(* one request at a time; there are several web processes.                 *)

CancelReadBatch(w, b) ==
  /\ "cancel" \in AdminOps
  /\ admin[w].at = "idle"
  /\ phase[b] = "visible"
  /\ ~finished[b]
  /\ admin' = [admin EXCEPT ![w] =
       [at |-> "cancel", batches |-> {b}, scanned |-> {}, victims |-> {},
        succ |-> Snapshot(succeeded, {b}), fail |-> Snapshot(failed, {b}),
        closed |-> {}]]
  /\ UNCHANGED <<dbVars, streamVars, rec, reap, faults>>

CancelReadRuns(w) ==
  /\ admin[w].at = "cancel"
  /\ admin' = [admin EXCEPT ![w] =
       [at |-> "ready", batches |-> admin[w].batches, scanned |-> {},
        victims |-> UNION {OpenRuns(b) : b \in admin[w].batches},
        succ |-> admin[w].succ, fail |-> admin[w].fail, closed |-> {}]]
  /\ UNCHANGED <<dbVars, streamVars, rec, reap, faults>>

\* purge_undelivered: XREAD what follows the group's last-delivered id ...
PurgeScan(w) ==
  LET found == {r \in Runs : job[r] = "queued"} IN
  /\ "purge" \in AdminOps
  /\ admin[w].at = "idle"
  /\ found # {}
  /\ admin' = [admin EXCEPT ![w] =
       [at |-> "scanned", batches |-> {}, scanned |-> found, victims |-> {},
        succ |-> Zeros, fail |-> Zeros, closed |-> {}]]
  /\ UNCHANGED <<dbVars, streamVars, rec, reap, faults>>

\* ... and XDEL it.  A worker may have taken an entry meanwhile: deleting
\* it does not stop that worker, and its run is cancelled all the same.
PurgeDelete(w) ==
  LET scanned == admin[w].scanned IN
  /\ admin[w].at = "scanned"
  /\ job' = [r \in Runs |-> IF r \in scanned /\ job[r] = "queued"
                              THEN "gone" ELSE job[r]]
  /\ admin' = [admin EXCEPT ![w] =
       [at |-> "purged", batches |-> {}, scanned |-> {},
        victims |-> {r \in scanned : status[r] = "pending"},
        succ |-> Zeros, fail |-> Zeros, closed |-> {}]]
  /\ UNCHANGED <<dbVars, result, good, rec, reap, faults>>

PurgeReadBatches(w) ==
  LET victims == admin[w].victims
      hit     == {BatchOf[r] : r \in victims}
  IN
  /\ admin[w].at = "purged"
  /\ admin' = [admin EXCEPT ![w] =
       [at |-> "ready", batches |-> hit, scanned |-> {}, victims |-> victims,
        succ |-> Snapshot(succeeded, hit), fail |-> Snapshot(failed, hit),
        closed |-> {b \in hit : finished[b]}]]
  /\ UNCHANGED <<dbVars, streamVars, rec, reap, faults>>

AdminCloses(w, b) ==
  /\ b \in admin[w].batches \ admin[w].closed
  /\ admin[w].succ[b] + admin[w].fail[b] + Count(admin[w].victims, b) >= Total(b)

\* A mutant of AdminCommit: the UPDATE names every column, so succeeded is
\* written back as it was read.
AdminCommitWholeRow(w) ==
  LET victims == admin[w].victims IN
  /\ admin[w].at = "ready"
  /\ status' = [r \in Runs |-> IF r \in victims THEN "cancelled" ELSE status[r]]
  /\ succeeded' = [b \in Batches |-> IF b \in admin[w].batches
                                       THEN admin[w].succ[b] ELSE succeeded[b]]
  /\ failed' = [b \in Batches |->
                  IF Count(victims, b) > 0
                    THEN admin[w].fail[b] + Count(victims, b) ELSE failed[b]]
  /\ finished' = [b \in Batches |-> finished[b] \/ AdminCloses(w, b)]
  /\ admin' = [admin EXCEPT ![w] = NoAdmin]
  /\ UNCHANGED <<phase, stale, streamVars, rec, reap, faults>>

AdminCommit(w) ==
  LET victims == admin[w].victims IN
  /\ admin[w].at = "ready"
  /\ status' = [r \in Runs |-> IF r \in victims THEN "cancelled" ELSE status[r]]
  /\ failed' = [b \in Batches |->
                  IF Count(victims, b) > 0
                    THEN admin[w].fail[b] + Count(victims, b) ELSE failed[b]]
  /\ finished' = [b \in Batches |-> finished[b] \/ AdminCloses(w, b)]
  /\ admin' = [admin EXCEPT ![w] = NoAdmin]
  /\ UNCHANGED <<phase, succeeded, stale, streamVars, rec, reap, faults>>

\* A web process dies or a query fails: nothing is written, but what a
\* purge has deleted from the stream stays deleted.
AdminFails(w) ==
  /\ faults < MaxFaults
  /\ admin[w].at # "idle"
  /\ admin' = [admin EXCEPT ![w] = NoAdmin]
  /\ faults' = faults + 1
  /\ UNCHANGED <<dbVars, streamVars, rec, reap>>

-----------------------------------------------------------------------------
Dispatch ==
  \/ \E b \in Batches : \/ FireReject(b) \/ FireStart(b) \/ FireCommit(b)
                        \/ FireInterrupted(b) \/ FireRollback(b)
  \/ \E r \in Runs : FirePublish(r)

Work == \E r \in Runs : \/ WorkerTake(r) \/ WorkerFinish(r) \/ WorkerCrash(r)
                        \/ JobTrimmed(r) \/ ResultTrimmed(r)

Record ==
  \/ RecorderRead
  \/ \E r \in Runs : PersistReadRun(r)
  \/ PersistReadBatch \/ PersistCommit \/ PersistFails
  \/ \E b \in Batches : BatchExpires(b)
  \/ ReapSelect \/ ReapReadRuns \/ ReapCommit \/ ReapFails
  \/ RecorderCrash

Administer ==
  \E w \in WebWorkers :
    \/ \E b \in Batches : CancelReadBatch(w, b)
    \/ CancelReadRuns(w) \/ PurgeScan(w) \/ PurgeDelete(w) \/ PurgeReadBatches(w)
    \/ AdminCommit(w) \/ AdminFails(w)

Next == Dispatch \/ Work \/ Record \/ Administer

Spec == Init /\ [][Next]_vars

\* Only the recorder need keep running.  Its loop is sequential, so every
\* step it can take stays possible until it takes it; the clock makes an
\* open batch stale.  Nothing is assumed of workers, dispatchers or the
\* administrators: the reaper exists for the day they stop.
Fairness ==
  /\ WF_vars(RecorderRead)
  /\ WF_vars(\E r \in Runs : PersistReadRun(r))
  /\ WF_vars(PersistReadBatch)
  /\ WF_vars(PersistCommit)
  /\ \A b \in Batches : WF_vars(BatchExpires(b))
  /\ WF_vars(ReapSelect)
  /\ WF_vars(ReapReadRuns)
  /\ WF_vars(ReapCommit)

FairSpec == Spec /\ Fairness

-----------------------------------------------------------------------------
(* Properties.                                                             *)

PersistRecord ==
  [at : {"run", "batch"}, run : Runs, seen : {"pending", "success", "failed"},
   succ : Nat, fail : Nat, fin : BOOLEAN]

ReapRecord ==
  [at : {"idle", "batches", "runs"}, batches : SUBSET Batches,
   victims : SUBSET Runs, fail : [Batches -> Nat]]

AdminRecord ==
  [at : {"idle", "cancel", "scanned", "purged", "ready"},
   batches : SUBSET Batches, scanned : SUBSET Runs, victims : SUBSET Runs,
   succ : [Batches -> Nat], fail : [Batches -> Nat], closed : SUBSET Batches]

\* Every variable has its type; a _persist call names a run exactly while it
\* is in progress.
TypeOK ==
  /\ phase \in [Batches -> Phase]
  /\ status \in [Runs -> RunStatus]
  /\ succeeded \in [Batches -> Nat]
  /\ failed \in [Batches -> Nat]
  /\ finished \in [Batches -> BOOLEAN]
  /\ stale \in SUBSET Batches
  /\ job \in [Runs -> JobState]
  /\ result \in [Runs -> ResultState]
  /\ good \in [Runs -> BOOLEAN]
  /\ rec \in PersistRecord \cup {NoPersist}
  /\ reap \in ReapRecord
  /\ admin \in [WebWorkers -> AdminRecord]
  /\ faults \in Nat

\* The successes the recorder has committed for a batch.
RecordedSuccesses(b) == {r \in RunsOf(b) : result[r] = "persisted" /\ good[r]}

\* The OK count of a batch is exact: the recorder adds one to the value it
\* read two queries earlier, while cancel, purge and the reaper rewrite the
\* same row, and still no success is lost and none is counted twice.
SucceededIsExact ==
  \A b \in Batches : succeeded[b] = Cardinality(RecordedSuccesses(b))

\* As long as a batch has an open run, its counters count settled runs only,
\* so "succeeded + failed >= total" cannot hold too early (without purge).
CountedRunsAreSettled ==
  \A b \in Batches :
    OpenRuns(b) # {} => succeeded[b] + failed[b] <= Cardinality(SettledRuns(b))

\* "A batch ... finishes when the last result is recorded": a finished batch
\* has no pending run, whichever of the recorder, the reaper and a cancel
\* closed it.
ClosedMeansSettled ==
  \A b \in Batches : finished[b] => OpenRuns(b) = {}

\* The reaper fails the runs it read as pending two queries earlier, and no
\* success is recorded in between: they are one loop.  A success is only lost to
\* a concurrent cancel or purge.
SuccessNeverFails ==
  [][\A r \in Runs : status[r] = "success" => status'[r] \in {"success", "cancelled"}]_vars

\* Whatever is lost or dies, a batch whose rows are visible is closed one
\* day, if the recorder keeps running.
EveryBatchCloses ==
  \A b \in Batches : (phase[b] = "visible") ~> finished[b]

\* "All runs are immediately marked Failed ... The batch is visible in the run
\* history": what docs/index.md says of a batch refused for lack of capacity.
RefusedBatchIsRecorded ==
  \A b \in Batches : phase[b] = "refused" =>
    finished[b] /\ \A r \in RunsOf(b) : status[r] = "failed"

\* Where the job of a run stands for JobHandling: a message nobody will see
\* again was answered if its worker published a result.
Handled(r) ==
  IF job[r] \in {"none", "no_credential", "queued"} THEN "waiting"
  ELSE IF job[r] = "held" THEN "held"
  ELSE IF result[r] # "none" THEN "answered" ELSE "lost"

Handling == INSTANCE JobHandling WITH
  Jobs <- Runs, Capacity <- Cardinality(Runs), state <- [r \in Runs |-> Handled(r)]

\* The queue runs a job at most once and answers it at most once, whatever
\* the dispatcher, the trimming, the purge and dying workers do to it.
HandlesJobs == Handling!Spec
=============================================================================
