--------------------------- MODULE PipelineProofs ---------------------------
(***************************************************************************)
(* Proofs about Pipeline, for every set of batches, runs and assignment of *)
(* runs to batches.                                                        *)
(***************************************************************************)
EXTENDS Pipeline, FiniteSetTheorems, TLAPS

(* The runs of a batch are finite in number, so every count is a number.   *)
LEMMA CountsAreNat ==
  ASSUME NEW S, S \subseteq Runs
  PROVE  IsFiniteSet(S) /\ Cardinality(S) \in Nat
BY PipelineAssumption, FS_Subset, FS_CardinalityType

LEMMA BatchCounts ==
  ASSUME NEW b \in Batches
  PROVE  /\ Total(b) \in Nat
         /\ \A S : Count(S, b) \in Nat
<1>1. RunsOf(b) \subseteq Runs
  BY DEF RunsOf
<1>2. \A S : S \cap RunsOf(b) \subseteq Runs
  BY <1>1
<1> QED
  BY <1>1, <1>2, CountsAreNat DEF Total, Count

-----------------------------------------------------------------------------
(* Every step keeps every variable in its type.                            *)
LEMMA InitTypeOK == Init => TypeOK
BY PipelineAssumption DEF Init, TypeOK, ReapRecord, AdminRecord, Zeros, NoPersist, NoReap, NoAdmin,
   Phase, RunStatus, JobState, ResultState, PersistRecord

LEMMA StepTypeOK == TypeOK /\ [Next]_vars => TypeOK'
<1> SUFFICES ASSUME TypeOK, [Next]_vars PROVE TypeOK'
  OBVIOUS
<1> USE PipelineAssumption
<1>1. ASSUME NEW b \in Batches, FireReject(b) PROVE TypeOK'
  BY <1>1, BatchCounts DEF TypeOK, FireReject, streamVars, Phase, RunStatus
<1>2. ASSUME NEW b \in Batches, FireStart(b) PROVE TypeOK'
  BY <1>2 DEF TypeOK, FireStart, streamVars, Phase
<1>3. ASSUME NEW b \in Batches, CommitRows(b) PROVE
        phase' \in [Batches -> Phase] /\ status' \in [Runs -> RunStatus]
        /\ failed' \in [Batches -> Nat]
  <2>1. {r \in RunsOf(b) : job[r] = "no_credential"} \subseteq Runs
    BY DEF RunsOf
  <2>2. Cardinality({r \in RunsOf(b) : job[r] = "no_credential"}) \in Nat
    BY <2>1, CountsAreNat
  <2> QED
    BY <1>3, <2>2 DEF TypeOK, CommitRows, Phase, RunStatus
<1>4. ASSUME NEW b \in Batches, FireCommit(b) PROVE TypeOK'
  BY <1>3, <1>4 DEF TypeOK, FireCommit, streamVars
<1>5. ASSUME NEW b \in Batches, FireInterrupted(b) PROVE TypeOK'
  BY <1>3, <1>5 DEF TypeOK, FireInterrupted, streamVars
<1>6. ASSUME NEW b \in Batches, FireRollback(b) PROVE TypeOK'
  BY <1>6 DEF TypeOK, FireRollback, streamVars, Phase
<1>7. ASSUME NEW r \in Runs, FirePublish(r) PROVE TypeOK'
  BY <1>7 DEF TypeOK, FirePublish, dbVars, JobState
<1>8. ASSUME NEW r \in Runs, WorkerTake(r) \/ WorkerCrash(r) \/ JobTrimmed(r) PROVE TypeOK'
  BY <1>8 DEF TypeOK, WorkerTake, WorkerCrash, JobTrimmed, dbVars, JobState
<1>9. ASSUME NEW r \in Runs, WorkerFinish(r) PROVE TypeOK'
  BY <1>9 DEF TypeOK, WorkerFinish, dbVars, JobState, ResultState
<1>10. ASSUME NEW r \in Runs, ResultTrimmed(r) PROVE TypeOK'
  BY <1>10 DEF TypeOK, ResultTrimmed, dbVars, ResultState
<1>11. CASE RecorderRead
  BY <1>11 DEF TypeOK, RecorderRead, dbVars, ResultState
<1>12. ASSUME NEW r \in Runs, PersistReadRun(r) PROVE TypeOK'
  <2>1. rec' \in PersistRecord \cup {NoPersist}
    <3>1. CASE status[r] \in {"absent", "cancelled"}
      BY <1>12, <3>1 DEF TypeOK, PersistReadRun
    <3>2. CASE status[r] \notin {"absent", "cancelled"}
      <4>1. status[r] \in {"pending", "success", "failed"}
        BY <3>2 DEF TypeOK, RunStatus
      <4>2. rec' = [at |-> "run", run |-> r, seen |-> status[r],
                    succ |-> 0, fail |-> 0, fin |-> FALSE]
        BY <1>12, <3>2 DEF PersistReadRun
      <4> QED
        BY <4>1, <4>2 DEF PersistRecord
    <3> QED
      BY <3>1, <3>2
  <2> QED
    BY <1>12, <2>1 DEF TypeOK, PersistReadRun, dbVars, ResultState
<1>13. CASE PersistReadBatch
  <2>1. rec \in PersistRecord
    BY <1>13 DEF TypeOK, PersistReadBatch, NoPersist
  <2>2. rec' \in PersistRecord
    BY <1>13, <2>1 DEF TypeOK, PersistReadBatch, PersistRecord
  <2> QED
    BY <1>13, <2>2 DEF TypeOK, PersistReadBatch, dbVars, streamVars
<1>14. CASE PersistCommit
  <2>1. rec \in PersistRecord
    BY <1>14 DEF TypeOK, PersistCommit, NoPersist
  <2>2. rec.run \in Runs /\ BatchOf[rec.run] \in Batches /\ rec.succ \in Nat
        /\ rec.fail \in Nat
    BY <2>1 DEF PersistRecord
  <2>3. PersistCloses(BatchOf[rec.run],
                      IF good[rec.run] THEN rec.succ + 1 ELSE rec.succ,
                      IF good[rec.run] THEN rec.fail ELSE rec.fail + 1) \in BOOLEAN
    BY DEF PersistCloses
  <2>4. status' \in [Runs -> RunStatus] /\ result' \in [Runs -> ResultState]
    BY <1>14, <2>2 DEF TypeOK, PersistCommit, RunStatus, ResultState
  <2>5. succeeded' \in [Batches -> Nat] /\ failed' \in [Batches -> Nat]
    BY <1>14, <2>2 DEF TypeOK, PersistCommit
  <2>6. finished' \in [Batches -> BOOLEAN]
    BY <1>14, <2>2, <2>3 DEF TypeOK, PersistCommit
  <2> QED
    BY <1>14, <2>4, <2>5, <2>6 DEF TypeOK, PersistCommit
<1>15. CASE PersistFails
  <2>1. result' \in [Runs -> ResultState]
    BY <1>15 DEF TypeOK, PersistFails, ResultState
  <2> QED
    BY <1>15, <2>1 DEF TypeOK, PersistFails, dbVars
<1>16. ASSUME NEW b \in Batches, BatchExpires(b) PROVE TypeOK'
  BY <1>16 DEF TypeOK, BatchExpires, streamVars
<1>17. CASE ReapSelect
  BY <1>17 DEF TypeOK, ReapRecord, ReapSelect, Snapshot, NoReap, dbVars, streamVars
<1>18. CASE ReapReadRuns
  <2>1. UNION {OpenRuns(b) : b \in reap.batches} \subseteq Runs
    BY DEF OpenRuns, RunsOf
  <2> QED
    BY <1>18, <2>1 DEF TypeOK, ReapRecord, ReapReadRuns, dbVars, streamVars
<1>19. CASE ReapCommit
  <2>1. failed' \in [Batches -> Nat]
    BY <1>19, BatchCounts DEF TypeOK, ReapRecord, ReapCommit
  <2>2. status' \in [Runs -> RunStatus]
    BY <1>19 DEF TypeOK, ReapCommit, RunStatus
  <2>3. finished' \in [Batches -> BOOLEAN]
    BY <1>19 DEF TypeOK, ReapCommit
  <2>4. reap' \in ReapRecord
    BY <1>19 DEF ReapCommit, NoReap, ReapRecord, Zeros
  <2> QED
    BY <1>19, <2>1, <2>2, <2>3, <2>4 DEF TypeOK, ReapCommit, streamVars
<1>20. CASE ReapFails
  BY <1>20 DEF TypeOK, ReapRecord, ReapFails, NoReap, Zeros, dbVars, streamVars
<1>21. CASE RecorderCrash
  <2>1. result' \in [Runs -> ResultState]
    BY <1>21 DEF TypeOK, RecorderCrash, ResultState
  <2> QED
    BY <1>21, <2>1 DEF TypeOK, ReapRecord, RecorderCrash, NoReap, Zeros, dbVars
<1>22. ASSUME NEW w \in WebWorkers, NEW a \in AdminRecord,
               admin' = [admin EXCEPT ![w] = a]
       PROVE  admin' \in [WebWorkers -> AdminRecord]
  BY <1>22 DEF TypeOK
<1>23. \A w \in WebWorkers : admin[w] \in AdminRecord
  BY DEF TypeOK
<1>24. /\ Zeros \in [Batches -> Nat]
       /\ \A S : Snapshot(succeeded, S) \in [Batches -> Nat]
       /\ \A S : Snapshot(failed, S) \in [Batches -> Nat]
  BY DEF TypeOK, Snapshot, Zeros
<1>25. NoAdmin \in AdminRecord
  BY <1>24 DEF NoAdmin, AdminRecord
<1>26. ASSUME NEW w \in WebWorkers, NEW b \in Batches, CancelReadBatch(w, b) PROVE TypeOK'
  <2>1. [at |-> "cancel", batches |-> {b}, scanned |-> {}, victims |-> {},
         succ |-> Snapshot(succeeded, {b}), fail |-> Snapshot(failed, {b}),
         closed |-> {}] \in AdminRecord
    BY <1>24 DEF AdminRecord
  <2>2. admin' \in [WebWorkers -> AdminRecord]
    BY <1>22, <1>26, <2>1 DEF CancelReadBatch
  <2> QED
    BY <1>26, <2>2 DEF TypeOK, CancelReadBatch, dbVars, streamVars
<1>27. ASSUME NEW w \in WebWorkers, CancelReadRuns(w) PROVE TypeOK'
  <2> DEFINE found == UNION {OpenRuns(b) : b \in admin[w].batches}
  <2>1. found \subseteq Runs
    BY DEF OpenRuns, RunsOf
  <2>2. admin' = [admin EXCEPT ![w] =
           [at |-> "ready", batches |-> admin[w].batches, scanned |-> {}, victims |-> found,
            succ |-> admin[w].succ, fail |-> admin[w].fail, closed |-> {}]]
    BY <1>27 DEF CancelReadRuns
  <2> HIDE DEF found
  <2>3. [at |-> "ready", batches |-> admin[w].batches, scanned |-> {}, victims |-> found,
         succ |-> admin[w].succ, fail |-> admin[w].fail, closed |-> {}] \in AdminRecord
    BY <1>23, <2>1 DEF AdminRecord
  <2>4. admin' \in [WebWorkers -> AdminRecord]
    BY <1>22, <2>2, <2>3
  <2> QED
    BY <1>27, <2>4 DEF TypeOK, CancelReadRuns, dbVars, streamVars
<1>28. ASSUME NEW w \in WebWorkers, PurgeScan(w) PROVE TypeOK'
  <2> DEFINE found == {r \in Runs : job[r] = "queued"}
  <2>1. [at |-> "scanned", batches |-> {}, scanned |-> found, victims |-> {},
         succ |-> Zeros, fail |-> Zeros, closed |-> {}] \in AdminRecord
    BY <1>24 DEF AdminRecord
  <2>2. admin' \in [WebWorkers -> AdminRecord]
    BY <1>22, <1>28, <2>1 DEF PurgeScan
  <2> QED
    BY <1>28, <2>2 DEF TypeOK, PurgeScan, dbVars, streamVars
<1>29. ASSUME NEW w \in WebWorkers, PurgeDelete(w) PROVE TypeOK'
  <2> DEFINE hit == {r \in admin[w].scanned : status[r] = "pending"}
  <2>1. hit \subseteq Runs
    BY <1>23 DEF AdminRecord
  <2>2. admin' = [admin EXCEPT ![w] =
           [at |-> "purged", batches |-> {}, scanned |-> {}, victims |-> hit,
            succ |-> Zeros, fail |-> Zeros, closed |-> {}]]
    BY <1>29 DEF PurgeDelete
  <2> HIDE DEF hit
  <2>3. [at |-> "purged", batches |-> {}, scanned |-> {}, victims |-> hit,
         succ |-> Zeros, fail |-> Zeros, closed |-> {}] \in AdminRecord
    BY <1>24, <2>1 DEF AdminRecord
  <2>4. admin' \in [WebWorkers -> AdminRecord]
    BY <1>22, <2>2, <2>3
  <2>5. job' \in [Runs -> JobState]
    BY <1>29 DEF TypeOK, PurgeDelete, JobState
  <2> QED
    BY <1>29, <2>4, <2>5 DEF TypeOK, PurgeDelete, dbVars
<1>30. ASSUME NEW w \in WebWorkers, PurgeReadBatches(w) PROVE TypeOK'
  <2> DEFINE hit == {BatchOf[r] : r \in admin[w].victims}
             new == [at |-> "ready", batches |-> hit, scanned |-> {},
                     victims |-> admin[w].victims, succ |-> Snapshot(succeeded, hit),
                     fail |-> Snapshot(failed, hit), closed |-> {b \in hit : finished[b]}]
  <2>1. hit \subseteq Batches
    BY <1>23 DEF AdminRecord
  <2>2. {b \in hit : finished[b]} \subseteq Batches
    BY <2>1
  <2>3. admin' = [admin EXCEPT ![w] = new]
    BY <1>30 DEF PurgeReadBatches
  <2>4. new \in AdminRecord
    <3> HIDE DEF hit
    <3> QED BY <1>23, <1>24, <2>1, <2>2 DEF AdminRecord
  <2>5. admin' \in [WebWorkers -> AdminRecord]
    <3> HIDE DEF new
    <3> QED BY <1>22, <2>3, <2>4
  <2> QED
    BY <1>30, <2>5 DEF TypeOK, PurgeReadBatches, dbVars, streamVars
<1>31. ASSUME NEW w \in WebWorkers, AdminCommit(w) PROVE TypeOK'
  <2>1. failed' \in [Batches -> Nat]
    <3>1. \A b \in Batches : admin[w].fail[b] \in Nat /\ Count(admin[w].victims, b) \in Nat
      BY <1>23, BatchCounts DEF AdminRecord
    <3> QED
      BY <1>31, <3>1 DEF TypeOK, AdminCommit
  <2>2. status' \in [Runs -> RunStatus]
    BY <1>31 DEF TypeOK, AdminCommit, RunStatus
  <2>3. finished' \in [Batches -> BOOLEAN]
    BY <1>31 DEF TypeOK, AdminCommit, AdminCloses
  <2>4. admin' \in [WebWorkers -> AdminRecord]
    BY <1>22, <1>25, <1>31 DEF AdminCommit
  <2> QED
    BY <1>31, <2>1, <2>2, <2>3, <2>4 DEF TypeOK, AdminCommit, streamVars
<1>32. ASSUME NEW w \in WebWorkers, AdminFails(w) PROVE TypeOK'
  <2>1. admin' \in [WebWorkers -> AdminRecord]
    BY <1>22, <1>25, <1>32 DEF AdminFails
  <2> QED
    BY <1>32, <2>1 DEF TypeOK, AdminFails, dbVars, streamVars
<1>33. CASE UNCHANGED vars
  BY <1>33 DEF TypeOK, vars, dbVars, streamVars
<1> QED
  BY <1>1, <1>2, <1>4, <1>5, <1>6, <1>7, <1>8, <1>9, <1>10, <1>11, <1>12, <1>13,
     <1>14, <1>15, <1>16, <1>17, <1>18, <1>19, <1>20, <1>21, <1>26, <1>27, <1>28,
     <1>29, <1>30, <1>31, <1>32, <1>33
     DEF Next, Dispatch, Work, Record, Administer

(* Type correctness: in every reachable state every variable has its type, *)
(* and a _persist call names a run exactly while it is in progress.        *)
THEOREM TypeCorrectness == Spec => []TypeOK
BY InitTypeOK, StepTypeOK, PTL DEF Spec
-----------------------------------------------------------------------------
(* The count of successes.  A result is persisted at most once, because a  *)
(* job is delivered once and its result exists only after it is out of     *)
(* every queue; and between _persist's read of the batch row and its       *)
(* commit nobody else writes the succeeded column.                         *)

\* A run whose job may still be executed has no result yet.
OneResultPerJob ==
  \A r \in Runs :
    job[r] \in {"none", "no_credential", "queued", "held"} => result[r] = "none"

\* The result being persisted is one the recorder was delivered and has not
\* acknowledged.
PersistsWhatItHolds == rec.at # "idle" => result[rec.run] = "held"

\* What _persist has read of the success counter is still what is stored.
SuccessReadIsFresh == rec.at = "batch" => rec.succ = succeeded[BatchOf[rec.run]]

ExactInv ==
  /\ TypeOK
  /\ OneResultPerJob
  /\ PersistsWhatItHolds
  /\ SuccessReadIsFresh
  /\ SucceededIsExact

LEMMA InitExactInv == Init => ExactInv
<1> SUFFICES ASSUME Init PROVE ExactInv
  OBVIOUS
<1>1. TypeOK
  BY InitTypeOK
<1>2. OneResultPerJob /\ PersistsWhatItHolds /\ SuccessReadIsFresh
  BY DEF Init, NoPersist, OneResultPerJob, PersistsWhatItHolds, SuccessReadIsFresh
<1>3. \A b \in Batches : RecordedSuccesses(b) = {}
  BY DEF Init, RecordedSuccesses, RunsOf
<1>4. SucceededIsExact
  BY <1>3, FS_EmptySet DEF SucceededIsExact, Init, Zeros
<1> QED
  BY <1>1, <1>2, <1>4 DEF ExactInv

(* A step that records nothing and writes no success counter keeps the     *)
(* counts exact.                                                           *)
LEMMA NothingRecorded ==
  ASSUME SucceededIsExact, succeeded' = succeeded,
         \A r \in Runs : (result'[r] = "persisted" /\ good'[r])
                            <=> (result[r] = "persisted" /\ good[r])
  PROVE  SucceededIsExact'
<1>1. \A b \in Batches : RecordedSuccesses(b)' = RecordedSuccesses(b)
  BY DEF RecordedSuccesses, RunsOf
<1> QED
  BY <1>1 DEF SucceededIsExact

(* The recorder's commit adds one to the counter exactly when it adds a    *)
(* success to those recorded.                                              *)
LEMMA CommitRecordsOne == ExactInv /\ PersistCommit => SucceededIsExact'
<1> SUFFICES ASSUME ExactInv, PersistCommit, NEW b \in Batches
             PROVE  succeeded'[b] = Cardinality(RecordedSuccesses(b)')
  BY DEF SucceededIsExact
<1> DEFINE r == rec.run
<1>1. r \in Runs /\ result[r] = "held" /\ rec.succ = succeeded[BatchOf[r]]
  <2>1. rec.at = "batch"
    BY DEF PersistCommit
  <2>2. rec \in PersistRecord
    BY <2>1 DEF ExactInv, TypeOK, NoPersist
  <2> QED
    BY <2>1, <2>2 DEF ExactInv, PersistRecord, PersistsWhatItHolds, SuccessReadIsFresh
<1>2. result' = [result EXCEPT ![r] = "persisted"] /\ good' = good
  BY DEF PersistCommit
<1>3. result \in [Runs -> ResultState] /\ succeeded \in [Batches -> Nat]
  BY DEF ExactInv, TypeOK
<1>4. succeeded[b] = Cardinality(RecordedSuccesses(b))
  BY DEF ExactInv, SucceededIsExact
<1>5. CASE good[r] /\ BatchOf[r] = b
  <2>1. succeeded'[b] = succeeded[b] + 1
    BY <1>1, <1>3, <1>5 DEF PersistCommit
  <2>2. RecordedSuccesses(b)' = RecordedSuccesses(b) \cup {r}
    BY <1>1, <1>2, <1>3, <1>5 DEF RecordedSuccesses, RunsOf
  <2>3. r \notin RecordedSuccesses(b)
    BY <1>1 DEF RecordedSuccesses
  <2>4. IsFiniteSet(RecordedSuccesses(b))
    BY CountsAreNat DEF RecordedSuccesses, RunsOf
  <2>5. Cardinality(RecordedSuccesses(b) \cup {r}) = Cardinality(RecordedSuccesses(b)) + 1
    BY <2>3, <2>4, FS_AddElement
  <2> QED
    BY <1>4, <2>1, <2>2, <2>5
<1>6. CASE ~(good[r] /\ BatchOf[r] = b)
  <2>1. succeeded'[b] = succeeded[b]
    BY <1>3, <1>6 DEF PersistCommit
  <2>2. RecordedSuccesses(b)' = RecordedSuccesses(b)
    BY <1>1, <1>2, <1>3, <1>6 DEF RecordedSuccesses, RunsOf
  <2> QED
    BY <1>4, <2>1, <2>2
<1> QED
  BY <1>5, <1>6

(* Most actions touch none of what ExactInv speaks of.                     *)
LEMMA ExactInvUntouched ==
  ASSUME ExactInv, TypeOK', UNCHANGED <<succeeded, job, result, good, rec>>
  PROVE  ExactInv'
<1>1. SucceededIsExact'
  BY NothingRecorded DEF ExactInv
<1>2. OneResultPerJob' /\ PersistsWhatItHolds' /\ SuccessReadIsFresh'
  BY DEF ExactInv, OneResultPerJob, PersistsWhatItHolds, SuccessReadIsFresh
<1> QED
  BY <1>1, <1>2 DEF ExactInv

LEMMA StepExactInv == ExactInv /\ [Next]_vars => ExactInv'
<1> SUFFICES ASSUME ExactInv, [Next]_vars PROVE ExactInv'
  OBVIOUS
<1>0. TypeOK'
  BY StepTypeOK DEF ExactInv
<1>t. /\ job \in [Runs -> JobState] /\ result \in [Runs -> ResultState]
      /\ good \in [Runs -> BOOLEAN] /\ rec \in PersistRecord \cup {NoPersist}
  BY DEF ExactInv, TypeOK
<1>r. rec.at # "idle" => rec.run \in Runs
  BY <1>t DEF PersistRecord, NoPersist
<1>i. OneResultPerJob /\ PersistsWhatItHolds /\ SuccessReadIsFresh /\ SucceededIsExact
  BY DEF ExactInv
<1>1. ASSUME NEW b \in Batches,
             \/ FireReject(b) \/ FireStart(b) \/ FireCommit(b) \/ FireInterrupted(b)
             \/ FireRollback(b) \/ BatchExpires(b)
      PROVE  ExactInv'
  BY <1>0, <1>1, ExactInvUntouched
     DEF FireReject, FireStart, FireCommit, FireInterrupted, FireRollback, BatchExpires,
         dbVars, streamVars
<1>2. CASE \/ ReapSelect \/ ReapReadRuns \/ ReapCommit \/ ReapFails \/ UNCHANGED vars
  BY <1>0, <1>2, ExactInvUntouched
     DEF ReapSelect, ReapReadRuns, ReapCommit, ReapFails, vars, dbVars, streamVars
<1>13. ASSUME NEW w \in WebWorkers,
              \/ \E b \in Batches : CancelReadBatch(w, b)
              \/ CancelReadRuns(w) \/ PurgeScan(w) \/ PurgeReadBatches(w)
              \/ AdminCommit(w) \/ AdminFails(w)
       PROVE  ExactInv'
  BY <1>0, <1>13, ExactInvUntouched
     DEF CancelReadBatch, CancelReadRuns, PurgeScan, PurgeReadBatches, AdminCommit,
         AdminFails, dbVars, streamVars
<1>3. ASSUME NEW r \in Runs,
             \/ FirePublish(r) \/ WorkerTake(r) \/ WorkerCrash(r) \/ JobTrimmed(r)
      PROVE  ExactInv'
  <2>1. UNCHANGED <<succeeded, result, good, rec>>
    BY <1>3 DEF FirePublish, WorkerTake, WorkerCrash, JobTrimmed, dbVars
  <2>2. OneResultPerJob'
    BY <1>3, <1>t, <1>i, <2>1
       DEF FirePublish, WorkerTake, WorkerCrash, JobTrimmed, OneResultPerJob
  <2>3. SucceededIsExact'
    BY <1>i, <2>1, NothingRecorded
  <2> QED
    BY <1>0, <1>i, <2>1, <2>2, <2>3 DEF ExactInv, PersistsWhatItHolds, SuccessReadIsFresh
<1>4. ASSUME NEW r \in Runs, WorkerFinish(r) PROVE ExactInv'
  <2>1. result[r] = "none"
    BY <1>4, <1>i DEF WorkerFinish, OneResultPerJob
  <2>2. PICK ok \in BOOLEAN : good' = [good EXCEPT ![r] = ok]
    BY <1>4 DEF WorkerFinish
  <2>3. /\ job' = [job EXCEPT ![r] = "gone"] /\ result' = [result EXCEPT ![r] = "queued"]
        /\ UNCHANGED <<succeeded, rec>>
    BY <1>4 DEF WorkerFinish, dbVars
  <2>4. OneResultPerJob'
    BY <1>t, <1>i, <2>3 DEF OneResultPerJob
  <2>5. PersistsWhatItHolds' /\ SuccessReadIsFresh'
    BY <1>t, <1>r, <1>i, <2>1, <2>3 DEF PersistsWhatItHolds, SuccessReadIsFresh
  <2>6. SucceededIsExact'
    BY <1>t, <1>i, <2>1, <2>2, <2>3, NothingRecorded
  <2> QED
    BY <1>0, <2>4, <2>5, <2>6 DEF ExactInv
<1>5. ASSUME NEW r \in Runs, ResultTrimmed(r) PROVE ExactInv'
  <2>1. /\ result[r] = "queued" /\ result' = [result EXCEPT ![r] = "gone"]
        /\ UNCHANGED <<succeeded, job, good, rec>>
    BY <1>5 DEF ResultTrimmed, dbVars
  <2>2. OneResultPerJob' /\ PersistsWhatItHolds' /\ SuccessReadIsFresh'
    BY <1>t, <1>r, <1>i, <2>1 DEF OneResultPerJob, PersistsWhatItHolds, SuccessReadIsFresh
  <2>3. SucceededIsExact'
    BY <1>t, <1>i, <2>1, NothingRecorded
  <2> QED
    BY <1>0, <2>2, <2>3 DEF ExactInv
<1>6. CASE RecorderRead
  <2>1. PICK S \in SUBSET Unread :
          result' = [r \in Runs |-> IF r \in S THEN "held" ELSE result[r]]
    BY <1>6 DEF RecorderRead
  <2>2. rec.at = "idle" /\ UNCHANGED <<succeeded, job, good, rec>>
    BY <1>6 DEF RecorderRead, RecorderIdle, dbVars
  <2>3. \A r \in S : r \in Runs /\ result[r] = "queued"
    BY DEF Unread
  <2>4. OneResultPerJob' /\ PersistsWhatItHolds' /\ SuccessReadIsFresh'
    BY <1>t, <1>i, <2>1, <2>2, <2>3
       DEF OneResultPerJob, PersistsWhatItHolds, SuccessReadIsFresh
  <2>5. SucceededIsExact'
    BY <1>t, <1>i, <2>1, <2>2, <2>3, NothingRecorded
  <2> QED
    BY <1>0, <2>4, <2>5 DEF ExactInv
<1>7. ASSUME NEW r \in Runs, PersistReadRun(r) PROVE ExactInv'
  <2>1. /\ rec.at = "idle" /\ result[r] = "held" /\ UNCHANGED <<succeeded, job, good>>
        /\ \/ result' = [result EXCEPT ![r] = "gone"] /\ rec' = rec
           \/ rec'.at = "run" /\ rec'.run = r /\ result' = result
    BY <1>7 DEF PersistReadRun, RecorderIdle, dbVars
  <2>2. OneResultPerJob' /\ PersistsWhatItHolds' /\ SuccessReadIsFresh'
    BY <1>t, <1>i, <2>1 DEF OneResultPerJob, PersistsWhatItHolds, SuccessReadIsFresh
  <2>3. SucceededIsExact'
    BY <1>t, <1>i, <2>1, NothingRecorded
  <2> QED
    BY <1>0, <2>2, <2>3 DEF ExactInv
<1>8. CASE PersistReadBatch
  <2>1. UNCHANGED <<succeeded, job, result, good>>
    BY <1>8 DEF PersistReadBatch, dbVars, streamVars
  <2>2. /\ rec.at = "run" /\ rec'.run = rec.run /\ rec'.at = "batch"
        /\ rec'.succ = succeeded[BatchOf[rec.run]]
    BY <1>8 DEF PersistReadBatch
  <2>3. OneResultPerJob' /\ PersistsWhatItHolds' /\ SuccessReadIsFresh'
    BY <1>i, <2>1, <2>2 DEF OneResultPerJob, PersistsWhatItHolds, SuccessReadIsFresh
  <2>4. SucceededIsExact'
    BY <1>i, <2>1, NothingRecorded
  <2> QED
    BY <1>0, <2>3, <2>4 DEF ExactInv
<1>9. CASE PersistCommit
  <2>1. /\ rec.at # "idle" /\ rec' = NoPersist /\ job' = job
        /\ result' = [result EXCEPT ![rec.run] = "persisted"]
    BY <1>9 DEF PersistCommit
  <2>2. OneResultPerJob' /\ PersistsWhatItHolds' /\ SuccessReadIsFresh'
    BY <1>t, <1>r, <1>i, <2>1
       DEF OneResultPerJob, PersistsWhatItHolds, SuccessReadIsFresh, NoPersist
  <2>3. SucceededIsExact'
    BY <1>9, CommitRecordsOne
  <2> QED
    BY <1>0, <2>2, <2>3 DEF ExactInv
<1>10. CASE PersistFails
  <2>1. /\ rec.at # "idle" /\ rec' = NoPersist /\ UNCHANGED <<succeeded, job, good>>
        /\ result' = [result EXCEPT ![rec.run] = "gone"] /\ result[rec.run] = "held"
    BY <1>10, <1>i DEF PersistFails, PersistsWhatItHolds, dbVars
  <2>2. OneResultPerJob' /\ PersistsWhatItHolds' /\ SuccessReadIsFresh'
    BY <1>t, <1>r, <1>i, <2>1
       DEF OneResultPerJob, PersistsWhatItHolds, SuccessReadIsFresh, NoPersist
  <2>3. SucceededIsExact'
    BY <1>t, <1>r, <1>i, <2>1, NothingRecorded
  <2> QED
    BY <1>0, <2>2, <2>3 DEF ExactInv
<1>11. CASE RecorderCrash
  <2>1. /\ rec' = NoPersist /\ UNCHANGED <<succeeded, job, good>>
        /\ result' = [r \in Runs |-> IF result[r] = "held" THEN "gone" ELSE result[r]]
    BY <1>11 DEF RecorderCrash, dbVars
  <2>2. OneResultPerJob' /\ PersistsWhatItHolds' /\ SuccessReadIsFresh'
    BY <1>t, <1>i, <2>1
       DEF OneResultPerJob, PersistsWhatItHolds, SuccessReadIsFresh, NoPersist
  <2>3. SucceededIsExact'
    BY <1>t, <1>i, <2>1, NothingRecorded
  <2> QED
    BY <1>0, <2>2, <2>3 DEF ExactInv
<1>12. ASSUME NEW w \in WebWorkers, PurgeDelete(w) PROVE ExactInv'
  <2>1. /\ UNCHANGED <<succeeded, result, good, rec>>
        /\ job' = [r \in Runs |-> IF r \in admin[w].scanned /\ job[r] = "queued"
                                    THEN "gone" ELSE job[r]]
    BY <1>12 DEF PurgeDelete, dbVars
  <2>2. OneResultPerJob'
    BY <1>t, <1>i, <2>1 DEF OneResultPerJob
  <2>3. SucceededIsExact'
    BY <1>i, <2>1, NothingRecorded
  <2> QED
    BY <1>0, <1>i, <2>1, <2>2, <2>3 DEF ExactInv, PersistsWhatItHolds, SuccessReadIsFresh
<1> QED
  BY <1>1, <1>2, <1>3, <1>4, <1>5, <1>6, <1>7, <1>8, <1>9, <1>10, <1>11, <1>12,
     <1>13 DEF Next, Dispatch, Work, Record, Administer

(* The OK count of every batch is the number of its successes the recorder *)
(* has committed, whatever cancels, purges, reaps, crashes and failures    *)
(* happen around it: the succeeded column loses no update.                 *)
THEOREM SuccessCountIsExact == Spec => []SucceededIsExact
<1>1. ExactInv => SucceededIsExact
  BY DEF ExactInv
<1> QED
  BY <1>1, InitExactInv, StepExactInv, PTL DEF Spec
-----------------------------------------------------------------------------
(* A recorded success and the reaper.  The reaper's victims were pending   *)
(* when it read them, and the recorder, the only one to turn a run into a  *)
(* success, does nothing else until the reaper has committed.              *)

\* Nothing of a run is stored before its dispatcher commits.
UnseenRunsAreAbsent ==
  \A r \in Runs : phase[BatchOf[r]] # "visible" => status[r] = "absent"

\* A success in the table is the outcome of a persisted result, of which a
\* run has one.
SuccessWasPersisted == \A r \in Runs : status[r] = "success" => result[r] = "persisted"

\* _persist and _reap_stale_batches are never in progress together.
OneLoop == rec.at = "idle" \/ reap.at = "idle"

\* Whoever is about to write a run has seen its row.
HeldRunsAreSeen ==
  /\ rec.at # "idle" => phase[BatchOf[rec.run]] = "visible"
  /\ \A r \in reap.victims : phase[BatchOf[r]] = "visible"
  /\ \A w \in WebWorkers : \A r \in admin[w].victims : phase[BatchOf[r]] = "visible"

VictimsAreNoSuccess ==
  reap.at = "runs" => \A r \in reap.victims : status[r] # "success"

OneLoopInv ==
  /\ ExactInv
  /\ UnseenRunsAreAbsent
  /\ SuccessWasPersisted
  /\ HeldRunsAreSeen
  /\ OneLoop
  /\ VictimsAreNoSuccess

LEMMA InitOneLoopInv == Init => OneLoopInv
BY InitExactInv
   DEF Init, OneLoopInv, UnseenRunsAreAbsent, SuccessWasPersisted, HeldRunsAreSeen, OneLoop,
       VictimsAreNoSuccess, NoPersist, NoReap, NoAdmin

(* Steps that write no status, do not hide rows and lose no persisted       *)
(* result.                                                                 *)
LEMMA OneLoopInvUntouched ==
  ASSUME OneLoopInv, ExactInv', UNCHANGED status, OneLoop', HeldRunsAreSeen',
         \A b \in Batches : phase[b] = "visible" => phase'[b] = "visible",
         \A r \in Runs : result[r] = "persisted" => result'[r] = "persisted",
         \/ UNCHANGED reap
         \/ reap'.at # "runs"
         \/ \A r \in reap'.victims : status[r] = "pending"
  PROVE  OneLoopInv'
BY PipelineAssumption
   DEF OneLoopInv, UnseenRunsAreAbsent, SuccessWasPersisted, VictimsAreNoSuccess

(* Rows once visible stay so; it is enough to look at what is newly held.  *)
LEMMA HeldRunsStaySeen ==
  ASSUME OneLoopInv,
         \A b \in Batches : phase[b] = "visible" => phase'[b] = "visible",
         \/ UNCHANGED rec
         \/ rec'.at = "idle"
         \/ rec.at # "idle" /\ rec'.run = rec.run
         \/ rec'.run \in Runs /\ status[rec'.run] # "absent",
         \/ UNCHANGED reap
         \/ \A r \in reap'.victims : r \in Runs /\ status[r] = "pending",
         \A w \in WebWorkers :
            \/ admin'[w] = admin[w] \/ admin'[w].victims = admin[w].victims
            \/ \A r \in admin'[w].victims : r \in Runs /\ status[r] = "pending"
  PROVE  HeldRunsAreSeen'
<1>t. /\ BatchOf \in [Runs -> Batches]
      /\ rec.at # "idle" => rec.run \in Runs
      /\ reap.victims \subseteq Runs
      /\ \A w \in WebWorkers : admin[w].victims \subseteq Runs
  BY PipelineAssumption
     DEF OneLoopInv, ExactInv, TypeOK, PersistRecord, NoPersist, ReapRecord, AdminRecord
<1>i. UnseenRunsAreAbsent /\ HeldRunsAreSeen
  BY DEF OneLoopInv
<1>1. \A r \in Runs : status[r] # "absent" => phase'[BatchOf[r]] = "visible"
  BY <1>i, <1>t DEF UnseenRunsAreAbsent
<1>2. rec'.at # "idle" => phase'[BatchOf[rec'.run]] = "visible"
  BY <1>i, <1>t, <1>1 DEF HeldRunsAreSeen
<1>3. \A r \in reap'.victims : phase'[BatchOf[r]] = "visible"
  BY <1>i, <1>t, <1>1 DEF HeldRunsAreSeen
<1>4. \A w \in WebWorkers : \A r \in admin'[w].victims : phase'[BatchOf[r]] = "visible"
  BY <1>i, <1>t, <1>1 DEF HeldRunsAreSeen
<1> QED
  BY <1>2, <1>3, <1>4 DEF HeldRunsAreSeen

\* What a step may do to a run that is a success.
KeepsSuccesses ==
  \A r \in Runs : status[r] = "success" => status'[r] \in {"success", "cancelled"}

LEMMA StepOneLoopInv == OneLoopInv /\ [Next]_vars => OneLoopInv' /\ KeepsSuccesses
<1> SUFFICES ASSUME OneLoopInv, [Next]_vars PROVE OneLoopInv' /\ KeepsSuccesses
  OBVIOUS
<1>0. ExactInv'
  BY StepExactInv DEF OneLoopInv
<1>t. TypeOK /\ BatchOf \in [Runs -> Batches]
  BY PipelineAssumption DEF OneLoopInv, ExactInv
<1>i. UnseenRunsAreAbsent /\ SuccessWasPersisted /\ HeldRunsAreSeen /\ OneLoop
      /\ VictimsAreNoSuccess
  BY DEF OneLoopInv
<1>1. ASSUME UNCHANGED status PROVE KeepsSuccesses
  BY <1>1 DEF KeepsSuccesses
<1>2. ASSUME NEW b \in Batches, FireReject(b) \/ FireStart(b) \/ FireRollback(b)
      PROVE  OneLoopInv' /\ UNCHANGED status
  <2>1. /\ \A c \in Batches : phase[c] = "visible" => phase'[c] = "visible"
        /\ UNCHANGED <<status, result, rec, reap, admin>>
    BY <1>2, <1>t DEF FireReject, FireStart, FireRollback, streamVars, TypeOK
  <2> QED
    BY <1>0, <1>i, <2>1, OneLoopInvUntouched, HeldRunsStaySeen DEF OneLoop
<1>3. ASSUME NEW b \in Batches, FireCommit(b) \/ FireInterrupted(b)
      PROVE  OneLoopInv' /\ KeepsSuccesses
  <2>1. /\ phase[b] = "publishing" /\ phase' = [phase EXCEPT ![b] = "visible"]
        /\ UNCHANGED <<result, rec, reap, admin>>
        /\ \A r \in Runs : BatchOf[r] = b => status'[r] \in {"failed", "pending"}
        /\ \A r \in Runs : BatchOf[r] # b => status'[r] = status[r]
    BY <1>3 DEF FireCommit, FireInterrupted, CommitRows, streamVars, RunsOf
  <2>2. \A r \in Runs : BatchOf[r] = b => status[r] = "absent"
    BY <1>i, <2>1 DEF UnseenRunsAreAbsent
  <2>3. UnseenRunsAreAbsent' /\ SuccessWasPersisted' /\ OneLoop'
    BY <1>i, <1>t, <2>1 DEF UnseenRunsAreAbsent, SuccessWasPersisted, OneLoop, TypeOK
  <2>4. \A c \in Batches : phase[c] = "visible" => phase'[c] = "visible"
    BY <1>t, <2>1 DEF TypeOK
  <2>5. HeldRunsAreSeen'
    BY <2>1, <2>4, HeldRunsStaySeen
  <2>6. VictimsAreNoSuccess'
    BY <1>i, <1>t, <2>1 DEF VictimsAreNoSuccess, TypeOK, ReapRecord
  <2> QED
    BY <1>0, <2>1, <2>2, <2>3, <2>5, <2>6 DEF OneLoopInv, KeepsSuccesses
<1>4. ASSUME NEW r \in Runs,
             \/ FirePublish(r) \/ WorkerTake(r) \/ WorkerFinish(r) \/ WorkerCrash(r)
             \/ JobTrimmed(r) \/ ResultTrimmed(r)
      PROVE  OneLoopInv' /\ UNCHANGED status
  <2>1. UNCHANGED <<phase, status, rec, reap, admin>>
    BY <1>4 DEF FirePublish, WorkerTake, WorkerFinish, WorkerCrash, JobTrimmed, ResultTrimmed,
                dbVars
  <2>2. \A q \in Runs : result[q] = "persisted" => result'[q] = "persisted"
    <3>1. WorkerFinish(r) => result[r] = "none"
      BY DEF WorkerFinish, OneLoopInv, ExactInv, OneResultPerJob
    <3> QED
      BY <1>4, <1>t, <3>1
         DEF FirePublish, WorkerTake, WorkerFinish, WorkerCrash, JobTrimmed, ResultTrimmed, TypeOK
  <2> QED
    BY <1>0, <1>i, <2>1, <2>2, OneLoopInvUntouched, HeldRunsStaySeen DEF OneLoop
<1>5. ASSUME RecorderRead \/ (\E r \in Runs : PersistReadRun(r)) \/ PersistReadBatch
             \/ PersistFails \/ RecorderCrash
      PROVE  OneLoopInv' /\ UNCHANGED status
  <2>1. UNCHANGED <<phase, status, admin>> /\ reap' \in {reap, NoReap}
    BY <1>5 DEF RecorderRead, PersistReadRun, PersistReadBatch, PersistFails, RecorderCrash,
                dbVars
  <2>2. OneLoop'
    BY <1>5, <1>i DEF RecorderRead, PersistReadRun, PersistReadBatch, PersistFails,
                      RecorderCrash, RecorderIdle, OneLoop, NoPersist, NoReap
  <2>3. \A q \in Runs : result[q] = "persisted" => result'[q] = "persisted"
    <3>1. PersistFails => result[rec.run] = "held"
      BY DEF PersistFails, OneLoopInv, ExactInv, PersistsWhatItHolds
    <3> QED
      BY <1>5, <1>t, <3>1 DEF RecorderRead, PersistReadRun, PersistReadBatch, PersistFails,
                              RecorderCrash, streamVars, Unread, TypeOK
  <2>4. \/ UNCHANGED rec
        \/ rec'.at = "idle"
        \/ rec.at # "idle" /\ rec'.run = rec.run
        \/ rec'.run \in Runs /\ status[rec'.run] # "absent"
    BY <1>5 DEF RecorderRead, PersistReadRun, PersistReadBatch, PersistFails, RecorderCrash,
                NoPersist
  <2>5. HeldRunsAreSeen'
    BY <2>1, <2>4, HeldRunsStaySeen DEF NoReap
  <2> QED
    BY <1>0, <2>1, <2>2, <2>3, <2>5, OneLoopInvUntouched DEF NoReap
<1>6. CASE PersistCommit
  <2>1. rec.at = "batch" /\ rec.run \in Runs /\ result[rec.run] = "held"
    <3>1. rec.at = "batch"
      BY <1>6 DEF PersistCommit
    <3>2. rec \in PersistRecord
      BY <1>t, <3>1 DEF TypeOK, NoPersist
    <3> QED
      BY <3>1, <3>2 DEF PersistRecord, OneLoopInv, ExactInv, PersistsWhatItHolds
  <2>2. /\ UNCHANGED <<phase, reap, admin>> /\ rec' = NoPersist
        /\ result' = [result EXCEPT ![rec.run] = "persisted"]
        /\ \A r \in Runs : r # rec.run => status'[r] = status[r]
    BY <1>6, <1>t DEF PersistCommit, TypeOK
  <2>3. status[rec.run] # "success"
    BY <1>i, <2>1 DEF SuccessWasPersisted
  <2>4. phase[BatchOf[rec.run]] = "visible"
    BY <1>i, <2>1 DEF HeldRunsAreSeen
  <2>5. UnseenRunsAreAbsent' /\ SuccessWasPersisted'
    BY <1>i, <1>t, <2>1, <2>2, <2>4 DEF UnseenRunsAreAbsent, SuccessWasPersisted, TypeOK
  <2>6. OneLoop' /\ VictimsAreNoSuccess' /\ HeldRunsAreSeen'
    BY <1>i, <2>1, <2>2 DEF OneLoop, VictimsAreNoSuccess, HeldRunsAreSeen, NoPersist
  <2> QED
    BY <1>0, <2>2, <2>3, <2>5, <2>6 DEF OneLoopInv, KeepsSuccesses
<1>7. ASSUME NEW b \in Batches, BatchExpires(b) PROVE OneLoopInv' /\ UNCHANGED status
  <2>1. UNCHANGED <<phase, status, result, rec, reap, admin>>
    BY <1>7 DEF BatchExpires, streamVars
  <2> QED
    BY <1>0, <1>i, <2>1, OneLoopInvUntouched, HeldRunsStaySeen DEF OneLoop
<1>8. ASSUME ReapSelect \/ ReapReadRuns \/ ReapFails PROVE OneLoopInv' /\ UNCHANGED status
  <2>1. UNCHANGED <<phase, status, result, rec, admin>>
    BY <1>8 DEF ReapSelect, ReapReadRuns, ReapFails, dbVars, streamVars
  <2>2. OneLoop'
    BY <1>8, <1>i, <2>1 DEF ReapSelect, ReapReadRuns, ReapFails, RecorderIdle, OneLoop, NoReap
  <2>3. \A r \in reap'.victims : r \in Runs /\ status[r] = "pending"
    BY <1>8 DEF ReapSelect, ReapReadRuns, ReapFails, NoReap, OpenRuns, RunsOf
  <2> QED
    BY <1>0, <2>1, <2>2, <2>3, OneLoopInvUntouched, HeldRunsStaySeen
<1>9. CASE ReapCommit
  <2>1. /\ UNCHANGED <<phase, result, rec, admin>> /\ reap' = NoReap /\ reap.at = "runs"
        /\ status' = [r \in Runs |-> IF r \in reap.victims THEN "failed" ELSE status[r]]
    BY <1>9 DEF ReapCommit, streamVars
  <2>2. KeepsSuccesses
    BY <1>i, <2>1 DEF KeepsSuccesses, VictimsAreNoSuccess
  <2>3. UnseenRunsAreAbsent' /\ HeldRunsAreSeen'
    BY <1>i, <2>1 DEF UnseenRunsAreAbsent, HeldRunsAreSeen, NoReap
  <2> QED
    BY <1>0, <1>i, <2>1, <2>2, <2>3
       DEF OneLoopInv, SuccessWasPersisted, OneLoop, VictimsAreNoSuccess, NoReap
<1>10. ASSUME NEW w \in WebWorkers,
              \/ \E b \in Batches : CancelReadBatch(w, b)
              \/ CancelReadRuns(w) \/ PurgeScan(w) \/ PurgeDelete(w) \/ PurgeReadBatches(w)
              \/ AdminFails(w)
       PROVE  OneLoopInv' /\ UNCHANGED status
  <2>1. UNCHANGED <<phase, status, result, rec, reap>>
    BY <1>10 DEF CancelReadBatch, CancelReadRuns, PurgeScan, PurgeDelete, PurgeReadBatches,
                 AdminFails, dbVars, streamVars
  <2>2. /\ \A v \in WebWorkers : v # w => admin'[v] = admin[v]
        /\ \/ admin'[w].victims = admin[w].victims
           \/ \A r \in admin'[w].victims : r \in Runs /\ status[r] = "pending"
    <3>t. admin \in [WebWorkers -> AdminRecord]
      BY <1>t DEF TypeOK
    <3>1. CASE \E b \in Batches : CancelReadBatch(w, b)
      BY <3>1, <3>t DEF CancelReadBatch
    <3>2. CASE CancelReadRuns(w)
      BY <3>2, <3>t DEF CancelReadRuns, OpenRuns, RunsOf
    <3>3. CASE PurgeScan(w)
      BY <3>3, <3>t DEF PurgeScan
    <3>4. CASE PurgeDelete(w)
      BY <3>4, <3>t DEF PurgeDelete, AdminRecord
    <3>5. CASE PurgeReadBatches(w)
      BY <3>5, <3>t DEF PurgeReadBatches
    <3>6. CASE AdminFails(w)
      BY <3>6, <3>t DEF AdminFails, NoAdmin
    <3> QED
      BY <1>10, <3>1, <3>2, <3>3, <3>4, <3>5, <3>6
  <2>4. HeldRunsAreSeen'
    BY <2>1, <2>2, HeldRunsStaySeen
  <2> QED
    BY <1>0, <1>i, <2>1, <2>4, OneLoopInvUntouched DEF OneLoop
<1>11. ASSUME NEW w \in WebWorkers, AdminCommit(w) PROVE OneLoopInv' /\ KeepsSuccesses
  <2>1. /\ UNCHANGED <<phase, result, rec, reap>> /\ admin' = [admin EXCEPT ![w] = NoAdmin]
        /\ status' = [r \in Runs |-> IF r \in admin[w].victims THEN "cancelled" ELSE status[r]]
    BY <1>11 DEF AdminCommit, streamVars
  <2>2. KeepsSuccesses
    BY <2>1 DEF KeepsSuccesses
  <2>3. UnseenRunsAreAbsent' /\ HeldRunsAreSeen'
    BY <1>i, <1>t, <2>1 DEF UnseenRunsAreAbsent, HeldRunsAreSeen, NoAdmin, TypeOK
  <2>4. SuccessWasPersisted' /\ OneLoop'
    BY <1>i, <2>1 DEF SuccessWasPersisted, OneLoop
  <2>5. VictimsAreNoSuccess'
    BY <1>i, <1>t, <2>1 DEF VictimsAreNoSuccess, TypeOK, ReapRecord
  <2> QED
    BY <1>0, <2>2, <2>3, <2>4, <2>5 DEF OneLoopInv
<1>12. ASSUME UNCHANGED vars PROVE OneLoopInv' /\ UNCHANGED status
  <2>1. UNCHANGED <<phase, status, result, rec, reap, admin>>
    BY <1>12 DEF vars, dbVars, streamVars
  <2> QED
    BY <1>0, <1>i, <2>1, OneLoopInvUntouched, HeldRunsStaySeen DEF OneLoop
<1> QED
  BY <1>1, <1>2, <1>3, <1>4, <1>5, <1>6, <1>7, <1>8, <1>9, <1>10, <1>11, <1>12
     DEF Next, Dispatch, Work, Record, Administer

(* A success is never turned into a failure: the reaper fails the runs it  *)
(* read as pending two queries earlier, and none of them has been recorded *)
(* since.                                                                  *)
THEOREM SuccessesAreNotReaped == Spec => SuccessNeverFails
<1>1. OneLoopInv /\ [Next]_vars =>
        [\A r \in Runs : status[r] = "success" => status'[r] \in {"success", "cancelled"}]_vars
  BY StepOneLoopInv DEF KeepsSuccesses
<1> QED
  BY <1>1, InitOneLoopInv, StepOneLoopInv, PTL DEF Spec, SuccessNeverFails

-----------------------------------------------------------------------------
(***************************************************************************)
(* Pipeline implements JobHandling: whatever happens to the stream and to  *)
(* the workers, a job is taken at most once and answered at most once.     *)
(***************************************************************************)

(* What the recorder does to a result never unmakes it, and it makes none  *)
(* for a job that is still out.                                            *)
SameAnswers == job' = job /\ \A r \in Runs : (result'[r] = "none") <=> (result[r] = "none")

LEMMA SameAnswersStutter ==
  ASSUME SameAnswers
  PROVE  UNCHANGED [r \in Runs |-> Handled(r)]
BY DEF SameAnswers, Handled

(* A step that moves the jobs of one set, and those alone, is a Move.      *)
LEMMA MoveIs ==
  ASSUME NEW S \in SUBSET Runs, NEW to,
         \A r \in S : Handled(r)' = to,
         \A r \in Runs \ S : Handled(r)' = Handled(r)
  PROVE  Handling!Move(S, to)
BY DEF Handling!Move

(* The FiniteSets that JobHandling extends is the one Pipeline extends.    *)
LEMMA SameCardinality == \A S : Handling!Cardinality(S) = Cardinality(S)
BY DEF Handling!Cardinality, Cardinality

LEMMA InIs == \A s : Handling!In(s) = {r \in Runs : Handled(r) = s}
BY DEF Handling!In

(* Dropping what is waiting, any number of jobs at once.                   *)
LEMMA DropIs ==
  ASSUME NEW S \in SUBSET Runs, Handling!Move(S, "lost"),
         \A r \in S : Handled(r) = "waiting"
  PROVE  [Handling!Next]_([r \in Runs |-> Handled(r)])
<1>1. CASE S = {}
  BY <1>1 DEF Handling!Move
<1>2. CASE S # {}
  <2>1. S \in (SUBSET Handling!In("waiting")) \ {{}}
    BY <1>2, InIs
  <2> QED
    BY <2>1 DEF Handling!Next
<1> QED
  BY <1>1, <1>2

(* The same for jobs in the hands of a worker that dies.                   *)
LEMMA LoseIs ==
  ASSUME NEW S \in SUBSET Runs, Handling!Move(S, "lost"), S # {},
         \A r \in S : Handled(r) = "held"
  PROVE  [Handling!Next]_([r \in Runs |-> Handled(r)])
<1>1. S \in (SUBSET Handling!In("held")) \ {{}}
  BY InIs
<1> QED
  BY <1>1 DEF Handling!Next

LEMMA InitHandling == Init => Handling!Init
BY DEF Init, Handling!Init, Handled

(* Every step of the system is one of JobHandling, or does not concern it. *)
LEMMA StepHandling ==
  ExactInv /\ [Next]_vars => [Handling!Next]_([r \in Runs |-> Handled(r)])
<1> SUFFICES ASSUME ExactInv, [Next]_vars
             PROVE  [Handling!Next]_([r \in Runs |-> Handled(r)])
  OBVIOUS
<1>t. /\ job \in [Runs -> JobState] /\ result \in [Runs -> ResultState]
      /\ rec \in PersistRecord \cup {NoPersist} /\ OneResultPerJob /\ PersistsWhatItHolds
  BY DEF ExactInv, TypeOK
<1>r. rec.at # "idle" => rec.run \in Runs
  BY <1>t DEF PersistRecord, NoPersist
<1>1. CASE SameAnswers
  BY <1>1, SameAnswersStutter
<1>2. ASSUME NEW b \in Batches,
             \/ FireReject(b) \/ FireStart(b) \/ FireCommit(b) \/ FireInterrupted(b)
             \/ FireRollback(b) \/ BatchExpires(b)
      PROVE  SameAnswers
  BY <1>2
     DEF FireReject, FireStart, FireCommit, FireInterrupted, FireRollback, BatchExpires,
         streamVars, SameAnswers
<1>3. CASE \/ ReapSelect \/ ReapReadRuns \/ ReapCommit \/ ReapFails
           \/ PersistReadBatch \/ UNCHANGED vars
  <2>1. SameAnswers
    BY <1>3 DEF ReapSelect, ReapReadRuns, ReapCommit, ReapFails, PersistReadBatch, vars,
                streamVars, SameAnswers
  <2> QED
    BY <1>1, <2>1
<1>4. ASSUME NEW w \in WebWorkers,
             \/ \E b \in Batches : CancelReadBatch(w, b)
             \/ CancelReadRuns(w) \/ PurgeScan(w) \/ PurgeReadBatches(w)
             \/ AdminCommit(w) \/ AdminFails(w)
      PROVE  SameAnswers
  BY <1>4
     DEF CancelReadBatch, CancelReadRuns, PurgeScan, PurgeReadBatches, AdminCommit,
         AdminFails, streamVars, SameAnswers
<1>5. ASSUME NEW r \in Runs, ResultTrimmed(r) \/ PersistReadRun(r) PROVE SameAnswers
  BY <1>5, <1>t DEF ResultTrimmed, PersistReadRun, SameAnswers
<1>6. CASE RecorderRead
  <2>1. PICK S \in SUBSET Unread :
          job' = job /\ result' = [r \in Runs |-> IF r \in S THEN "held" ELSE result[r]]
    BY <1>6 DEF RecorderRead
  <2>2. SameAnswers
    BY <1>t, <2>1 DEF Unread, SameAnswers
  <2> QED
    BY <1>1, <2>2
<1>7. CASE PersistCommit \/ PersistFails
  <2>1. /\ rec.at # "idle" /\ job' = job
        /\ \E s \in {"persisted", "gone"} : result' = [result EXCEPT ![rec.run] = s]
    BY <1>7 DEF PersistCommit, PersistFails
  <2>2. SameAnswers
    BY <1>t, <1>r, <2>1 DEF SameAnswers, PersistsWhatItHolds
  <2> QED
    BY <1>1, <2>2
<1>8. CASE RecorderCrash
  <2>1. SameAnswers
    BY <1>8, <1>t DEF RecorderCrash, SameAnswers
  <2> QED
    BY <1>1, <2>1
<1>9. ASSUME NEW r \in Runs, FirePublish(r) PROVE SameAnswers \/ UNCHANGED [q \in Runs |-> Handled(q)]
  BY <1>9, <1>t DEF FirePublish, Handled
<1>10. ASSUME NEW r \in Runs, WorkerTake(r)
       PROVE  [Handling!Next]_([q \in Runs |-> Handled(q)])
  <2>1. /\ Handled(r) = "waiting" /\ Handled(r)' = "held"
        /\ \A q \in Runs \ {r} : Handled(q)' = Handled(q)
    BY <1>10, <1>t DEF WorkerTake, Handled
  <2>2. Handling!Move({r}, "held")
    BY <2>1, MoveIs
  <2>3. Handling!In("held") \cup {r} \subseteq Runs
    BY InIs
  <2>4. Cardinality(Handling!In("held") \cup {r}) =< Cardinality(Runs)
    BY <2>3, PipelineAssumption, FS_Subset
  <2>5. {r} \in (SUBSET Handling!In("waiting")) \ {{}}
    BY <2>1, InIs
  <2> QED
    BY <2>2, <2>4, <2>5, SameCardinality DEF Handling!Next, Handling!Take
<1>11. ASSUME NEW r \in Runs, WorkerFinish(r)
       PROVE  [Handling!Next]_([q \in Runs |-> Handled(q)])
  <2>1. /\ Handled(r) = "held" /\ Handled(r)' = "answered"
        /\ \A q \in Runs \ {r} : Handled(q)' = Handled(q)
    BY <1>11, <1>t DEF WorkerFinish, Handled
  <2>2. Handling!Move({r}, "answered")
    BY <2>1, MoveIs
  <2>3. r \in Handling!In("held")
    BY <2>1, InIs
  <2> QED
    BY <2>2, <2>3 DEF Handling!Next, Handling!Answer
<1>12. ASSUME NEW r \in Runs, WorkerCrash(r)
       PROVE  [Handling!Next]_([q \in Runs |-> Handled(q)])
  <2>1. /\ Handled(r) = "held" /\ Handled(r)' = "lost"
        /\ \A q \in Runs \ {r} : Handled(q)' = Handled(q)
    BY <1>12, <1>t DEF WorkerCrash, Handled, OneResultPerJob
  <2>2. Handling!Move({r}, "lost")
    BY <2>1, MoveIs
  <2> QED
    BY <2>1, <2>2, LoseIs
<1>13. ASSUME NEW r \in Runs, JobTrimmed(r)
       PROVE  [Handling!Next]_([q \in Runs |-> Handled(q)])
  <2>1. /\ Handled(r) = "waiting" /\ Handled(r)' = "lost"
        /\ \A q \in Runs \ {r} : Handled(q)' = Handled(q)
    BY <1>13, <1>t DEF JobTrimmed, Handled, OneResultPerJob
  <2>2. Handling!Move({r}, "lost")
    BY <2>1, MoveIs
  <2> QED
    BY <2>1, <2>2, DropIs
<1>14. ASSUME NEW w \in WebWorkers, PurgeDelete(w)
       PROVE  [Handling!Next]_([q \in Runs |-> Handled(q)])
  <2> DEFINE S == {r \in Runs : r \in admin[w].scanned /\ job[r] = "queued"}
  <2>1. /\ job' = [r \in Runs |-> IF r \in admin[w].scanned /\ job[r] = "queued"
                                    THEN "gone" ELSE job[r]]
        /\ result' = result
    BY <1>14 DEF PurgeDelete
  <2>2. /\ \A r \in S : Handled(r) = "waiting" /\ Handled(r)' = "lost"
        /\ \A r \in Runs \ S : Handled(r)' = Handled(r)
    BY <1>t, <2>1 DEF Handled, OneResultPerJob
  <2>3. S \in SUBSET Runs
    OBVIOUS
  <2> HIDE DEF S
  <2>4. Handling!Move(S, "lost")
    BY <2>2, <2>3, MoveIs
  <2> QED
    BY <2>2, <2>3, <2>4, DropIs
<1> QED
  BY <1>1, <1>2, <1>3, <1>4, <1>5, <1>6, <1>7, <1>8, <1>9, <1>10, <1>11, <1>12, <1>13,
     <1>14 DEF Next, Dispatch, Work, Record, Administer

(* A job is taken at most once and answered at most once: what the queue   *)
(* promises holds of any number of batches and runs, through trimming,     *)
(* purges and dying workers, recorders and administrators.                 *)
THEOREM JobsAreHandledOnce == Spec => HandlesJobs
<1>1. Init => Handling!Init
  BY InitHandling
<1>2. ExactInv /\ [Next]_vars => [Handling!Next]_([r \in Runs |-> Handled(r)])
  BY StepHandling
<1> QED
  BY <1>1, <1>2, InitExactInv, StepExactInv, PTL DEF Spec, HandlesJobs, Handling!Spec
=============================================================================
