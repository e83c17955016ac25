---------------------------- MODULE ClosingProofs ----------------------------
(***************************************************************************)
(* When nobody purges, a batch that is closed has no open run: the counters *)
(* that the recorder, the reaper and cancels compute from rows read        *)
(* earlier never reach the total too soon.                                 *)
(***************************************************************************)
EXTENDS PipelineProofs

WithoutPurge == "purge" \notin AdminOps

\* The batch b has an open run.
IsOpen(b) == \E r \in Runs : BatchOf[r] = b /\ status[r] = "pending"

\* Nothing of a batch is stored before its dispatcher commits.
InvisibleIsUntouched ==
  \A b \in Batches : phase[b] # "visible" =>
    /\ ~finished[b] /\ succeeded[b] = 0 /\ failed[b] = 0 /\ b \notin stale
    /\ \A r \in Runs : BatchOf[r] = b => status[r] = "absent"

\* In an open batch only the refusals of its dispatcher and the recorder
\* have settled a run: reaper and cancel settle all the open runs at once.
OpenMeansUnrecorded ==
  \A r \in Runs :
    IsOpen(BatchOf[r]) /\ status[r] # "pending" =>
      job[r] = "no_credential" \/ result[r] = "persisted"

\* While the batch is open, what _persist has read is what is stored.
PersistReadIsFresh ==
  /\ rec.at # "idle" => /\ phase[BatchOf[rec.run]] = "visible"
                        /\ status[rec.run] = "pending" => rec.seen = "pending"
  /\ rec.at = "batch" /\ IsOpen(BatchOf[rec.run]) =>
       rec.succ = succeeded[BatchOf[rec.run]] /\ rec.fail = failed[BatchOf[rec.run]]

\* The reaper's victims, and those of a cancel, are of its batches and
\* include every run of theirs that is still open.
ReaperHoldsOpen ==
  /\ reap.at # "idle" => \A b \in reap.batches : phase[b] = "visible"
  /\ reap.at = "runs" =>
       /\ \A r \in reap.victims : BatchOf[r] \in reap.batches
       /\ \A r \in Runs : BatchOf[r] \in reap.batches /\ status[r] = "pending"
                            => r \in reap.victims

CancelHoldsOpen ==
  \A w \in WebWorkers :
    /\ admin[w].at \in {"idle", "cancel", "ready"}
    /\ admin[w].at # "idle" => \A b \in admin[w].batches : phase[b] = "visible"
    /\ admin[w].at = "ready" =>
         /\ \A r \in admin[w].victims : BatchOf[r] \in admin[w].batches
         /\ \A r \in Runs : BatchOf[r] \in admin[w].batches /\ status[r] = "pending"
                              => r \in admin[w].victims

\* The counters of an open batch count settled runs only, and a closed batch
\* has no open run: the two properties, for one batch.
Accounted(b) ==
  /\ IsOpen(b) => succeeded[b] + failed[b] <= Cardinality(SettledRuns(b))
  /\ finished[b] => ~IsOpen(b)

ClosingInv ==
  /\ ExactInv
  /\ InvisibleIsUntouched
  /\ OpenMeansUnrecorded
  /\ PersistReadIsFresh
  /\ ReaperHoldsOpen
  /\ CancelHoldsOpen
  /\ \A b \in Batches : Accounted(b)

LEMMA OpenIs == \A b \in Batches : IsOpen(b) <=> OpenRuns(b) # {}
BY DEF IsOpen, OpenRuns, RunsOf

LEMMA AccountedIs ==
  (\A b \in Batches : Accounted(b)) <=> CountedRunsAreSettled /\ ClosedMeansSettled
BY OpenIs DEF Accounted, CountedRunsAreSettled, ClosedMeansSettled

(* A step that leaves a batch and its runs alone leaves it accounted for.  *)
LEMMA AccountedUntouched ==
  ASSUME NEW b \in Batches, Accounted(b),
         \A r \in Runs : BatchOf[r] = b => status'[r] = status[r],
         succeeded'[b] = succeeded[b], failed'[b] = failed[b], finished'[b] = finished[b]
  PROVE  Accounted(b)'
<1>1. SettledRuns(b)' = SettledRuns(b)
  BY DEF SettledRuns, RunsOf
<1>2. IsOpen(b)' <=> IsOpen(b)
  BY DEF IsOpen
<1> QED
  BY <1>1, <1>2 DEF Accounted

LEMMA InitClosingInv == Init => ClosingInv
<1> SUFFICES ASSUME Init PROVE ClosingInv
  OBVIOUS
<1>1. ExactInv
  BY InitExactInv
<1>2. \A b \in Batches : ~IsOpen(b) /\ ~finished[b]
  BY DEF Init, IsOpen
<1>3. InvisibleIsUntouched /\ OpenMeansUnrecorded /\ PersistReadIsFresh
      /\ ReaperHoldsOpen /\ CancelHoldsOpen
  BY PipelineAssumption, <1>2
     DEF Init, InvisibleIsUntouched, OpenMeansUnrecorded, PersistReadIsFresh,
         ReaperHoldsOpen, CancelHoldsOpen, NoPersist, NoReap, NoAdmin, Zeros
<1> QED
  BY <1>1, <1>2, <1>3 DEF ClosingInv, Accounted

(* Steps that leave the tables alone: the queries, and what happens on the *)
(* streams.  What a handler holds must still be what it is meant to hold.  *)
LEMMA ClosingInvTablesUntouched ==
  ASSUME ClosingInv, ExactInv', UNCHANGED dbVars,
         \A r \in Runs : job[r] = "no_credential" => job'[r] = "no_credential",
         \A r \in Runs : result[r] = "persisted" => result'[r] = "persisted",
         PersistReadIsFresh', ReaperHoldsOpen', CancelHoldsOpen'
  PROVE  ClosingInv'
<1>1. UNCHANGED <<phase, status, succeeded, failed, finished, stale>>
  BY DEF dbVars
<1>2. \A b \in Batches : Accounted(b)'
  BY <1>1, AccountedUntouched DEF ClosingInv
<1>3. \A b \in Batches : IsOpen(b)' <=> IsOpen(b)
  BY <1>1 DEF IsOpen
<1>4. OpenMeansUnrecorded'
  BY <1>1, <1>3, PipelineAssumption DEF ClosingInv, OpenMeansUnrecorded
<1>5. InvisibleIsUntouched'
  BY <1>1 DEF ClosingInv, InvisibleIsUntouched
<1> QED
  BY <1>2, <1>4, <1>5 DEF ClosingInv

(* What the three kinds of handler hold concerns the tables only.          *)
LEMMA HeldUntouched ==
  ASSUME ClosingInv, UNCHANGED dbVars
  PROVE  /\ UNCHANGED rec => PersistReadIsFresh'
         /\ UNCHANGED reap => ReaperHoldsOpen'
         /\ UNCHANGED admin => CancelHoldsOpen'
<1>1. UNCHANGED <<phase, status, succeeded, failed>>
  BY DEF dbVars
<1>2. UNCHANGED rec => PersistReadIsFresh'
  BY <1>1 DEF ClosingInv, PersistReadIsFresh, IsOpen
<1>3. UNCHANGED reap => ReaperHoldsOpen'
  BY <1>1 DEF ClosingInv, ReaperHoldsOpen
<1>4. UNCHANGED admin => CancelHoldsOpen'
  BY <1>1 DEF ClosingInv, CancelHoldsOpen
<1> QED
  BY <1>2, <1>3, <1>4

LEMMA ClosingInvStream ==
  ASSUME ClosingInv, ExactInv', UNCHANGED <<dbVars, rec, reap, admin>>,
         \A r \in Runs : job[r] = "no_credential" => job'[r] = "no_credential",
         \A r \in Runs : result[r] = "persisted" => result'[r] = "persisted"
  PROVE  ClosingInv'
BY ClosingInvTablesUntouched, HeldUntouched

(* A dispatcher's steps before its commit.                                 *)
LEMMA ClosingInvInvisible ==
  ASSUME ClosingInv, ExactInv', NEW b \in Batches, phase[b] # "visible", phase'[b] # "visible",
         \A c \in Batches : c # b => phase'[c] = phase[c],
         UNCHANGED <<status, succeeded, failed, finished, stale, streamVars, rec, reap, admin>>
  PROVE  ClosingInv'
<1>t. /\ reap.batches \subseteq Batches
      /\ \A w \in WebWorkers : admin[w].batches \subseteq Batches
      /\ BatchOf \in [Runs -> Batches]
  BY PipelineAssumption DEF ClosingInv, ExactInv, TypeOK, ReapRecord, AdminRecord
<1>r. rec.at # "idle" => BatchOf[rec.run] \in Batches
  BY PipelineAssumption DEF ClosingInv, ExactInv, TypeOK, PersistRecord, NoPersist
<1>i. InvisibleIsUntouched /\ OpenMeansUnrecorded /\ PersistReadIsFresh /\ ReaperHoldsOpen
      /\ CancelHoldsOpen /\ \A c \in Batches : Accounted(c)
  BY DEF ClosingInv
<1>u. UNCHANGED <<status, succeeded, failed, finished, stale, job, result, rec, reap, admin>>
  BY DEF streamVars
<1>1. \A c \in Batches : phase[c] = "visible" => phase'[c] = "visible"
  OBVIOUS
<1>2. \A c \in Batches : IsOpen(c)' <=> IsOpen(c)
  BY <1>u DEF IsOpen
<1>3. InvisibleIsUntouched'
  BY <1>u, <1>i DEF InvisibleIsUntouched
<1>4. OpenMeansUnrecorded'
  BY <1>u, <1>i, <1>t, <1>2 DEF OpenMeansUnrecorded
<1>5. PersistReadIsFresh'
  BY <1>u, <1>i, <1>r, <1>1 DEF PersistReadIsFresh, IsOpen
<1>6. ReaperHoldsOpen'
  BY <1>u, <1>i, <1>t, <1>1 DEF ReaperHoldsOpen
<1>7. CancelHoldsOpen'
  BY <1>u, <1>i, <1>t, <1>1 DEF CancelHoldsOpen
<1>8. \A c \in Batches : Accounted(c)'
  BY <1>u, <1>i, AccountedUntouched
<1> QED
  BY <1>3, <1>4, <1>5, <1>6, <1>7, <1>8 DEF ClosingInv

(* The dispatcher's commit: it counts the runs it refuses, and settles     *)
(* those.                                                                  *)
LEMMA ClosingInvCommitRows ==
  ASSUME ClosingInv, ExactInv', NEW b \in Batches, phase[b] = "publishing", CommitRows(b),
         UNCHANGED <<succeeded, finished, stale, streamVars, rec, reap, admin>>
  PROVE  ClosingInv'
<1> DEFINE refused == {r \in RunsOf(b) : job[r] = "no_credential"}
<1>t. /\ phase \in [Batches -> Phase] /\ status \in [Runs -> RunStatus]
      /\ failed \in [Batches -> Nat] /\ BatchOf \in [Runs -> Batches]
      /\ rec.at # "idle" => rec.run \in Runs
  BY PipelineAssumption DEF ClosingInv, ExactInv, TypeOK, PersistRecord, NoPersist
<1>i. InvisibleIsUntouched /\ OpenMeansUnrecorded /\ PersistReadIsFresh /\ ReaperHoldsOpen
      /\ CancelHoldsOpen /\ \A c \in Batches : Accounted(c)
  BY DEF ClosingInv
<1>1. /\ \A c \in Batches : phase'[c] = IF c = b THEN "visible" ELSE phase[c]
      /\ \A c \in Batches : failed'[c] = IF c = b THEN Cardinality(refused) ELSE failed[c]
      /\ \A r \in Runs : status'[r] = IF r \in refused THEN "failed"
                                      ELSE IF BatchOf[r] = b THEN "pending" ELSE status[r]
      /\ UNCHANGED <<succeeded, finished, stale, job, result, rec, reap, admin>>
  BY <1>t DEF CommitRows, streamVars
<1>2. \A r \in refused : r \in Runs /\ BatchOf[r] = b /\ job[r] = "no_credential"
  BY DEF RunsOf
<1> HIDE DEF refused
<1>3. \A c \in Batches : c # b => (IsOpen(c)' <=> IsOpen(c))
  BY <1>1, <1>2 DEF IsOpen
<1>4. InvisibleIsUntouched'
  BY <1>1, <1>2, <1>i, <1>t DEF InvisibleIsUntouched
<1>5. OpenMeansUnrecorded'
  BY <1>1, <1>2, <1>3, <1>i, <1>t DEF OpenMeansUnrecorded
<1>6. PersistReadIsFresh'
  <2>1. rec.at # "idle" => BatchOf[rec.run] \in Batches /\ BatchOf[rec.run] # b
    BY <1>i, <1>t DEF PersistReadIsFresh
  <2> QED
    BY <1>1, <1>2, <1>3, <1>i, <1>t, <2>1 DEF PersistReadIsFresh
<1>7. ReaperHoldsOpen' /\ CancelHoldsOpen'
  <2>t. /\ reap.batches \subseteq Batches
        /\ \A w \in WebWorkers : admin[w].batches \subseteq Batches
    BY DEF ClosingInv, ExactInv, TypeOK, ReapRecord, AdminRecord
  <2>1. ReaperHoldsOpen'
    BY <1>1, <1>2, <1>i, <1>t, <2>t DEF ReaperHoldsOpen
  <2>2. CancelHoldsOpen'
    BY <1>1, <1>2, <1>i, <1>t, <2>t DEF CancelHoldsOpen
  <2> QED
    BY <2>1, <2>2
<1>8. ASSUME NEW c \in Batches, c # b PROVE Accounted(c)'
  BY <1>1, <1>2, <1>8, <1>i, AccountedUntouched
<1>9. Accounted(b)'
  <2>1. succeeded'[b] = 0 /\ ~finished'[b] /\ failed'[b] = Cardinality(refused)
    BY <1>1, <1>i DEF InvisibleIsUntouched
  <2>2. refused \subseteq SettledRuns(b)' /\ SettledRuns(b)' \subseteq Runs
    BY <1>1, <1>2 DEF SettledRuns, RunsOf
  <2>3. Cardinality(refused) <= Cardinality(SettledRuns(b)') /\ Cardinality(refused) \in Nat
    BY <2>2, CountsAreNat, FS_Subset
  <2> QED
    BY <2>1, <2>3 DEF Accounted
<1> QED
  BY <1>4, <1>5, <1>6, <1>7, <1>8, <1>9 DEF ClosingInv

(* The commit of the reaper and that of a cancel settle every open run of  *)
(* their batches at once: afterwards none of these is open, and what they  *)
(* have written over the counters matters to nobody any more.              *)
LEMMA SettlingAll ==
  ASSUME ClosingInv, ExactInv',
         NEW B \in SUBSET Batches, NEW V \in SUBSET Runs, NEW settled \in {"failed", "cancelled"},
         \A b \in B : phase[b] = "visible",
         \A r \in V : BatchOf[r] \in B,
         \A r \in Runs : BatchOf[r] \in B /\ status[r] = "pending" => r \in V,
         status' = [r \in Runs |-> IF r \in V THEN settled ELSE status[r]],
         \A b \in Batches \ B : failed'[b] = failed[b] /\ finished'[b] = finished[b],
         UNCHANGED <<phase, succeeded, stale, streamVars, rec>>,
         reap' \in {reap, NoReap},
         \A w \in WebWorkers : admin'[w] \in {admin[w], NoAdmin}
  PROVE  ClosingInv'
<1>t. /\ BatchOf \in [Runs -> Batches]
      /\ rec.at # "idle" => rec.run \in Runs
  BY PipelineAssumption DEF ClosingInv, ExactInv, TypeOK, PersistRecord, NoPersist
<1>i. InvisibleIsUntouched /\ OpenMeansUnrecorded /\ PersistReadIsFresh /\ ReaperHoldsOpen
      /\ CancelHoldsOpen /\ \A c \in Batches : Accounted(c)
  BY DEF ClosingInv
<1>1. \A r \in Runs : status'[r] = "pending" => status[r] = "pending" /\ BatchOf[r] \notin B
  OBVIOUS
<1>2. \A b \in B : ~IsOpen(b)'
  BY <1>1 DEF IsOpen
<1>3. \A b \in Batches \ B : \A r \in Runs : BatchOf[r] = b => status'[r] = status[r]
  OBVIOUS
<1>4. \A b \in Batches \ B : IsOpen(b)' <=> IsOpen(b)
  BY <1>3 DEF IsOpen
<1>5. InvisibleIsUntouched'
  BY <1>3, <1>i DEF InvisibleIsUntouched
<1>u. UNCHANGED <<phase, succeeded, job, result, rec>>
  BY DEF streamVars
<1>6. OpenMeansUnrecorded'
  <2> SUFFICES ASSUME NEW r \in Runs, IsOpen(BatchOf[r])', status'[r] # "pending"
               PROVE  job[r] = "no_credential" \/ result[r] = "persisted"
    BY <1>u DEF OpenMeansUnrecorded
  <2>1. BatchOf[r] \in Batches \ B
    BY <1>2, <1>t
  <2>2. IsOpen(BatchOf[r]) /\ status[r] # "pending"
    BY <1>3, <1>4, <2>1
  <2> QED
    BY <1>i, <2>2 DEF OpenMeansUnrecorded
<1>7. PersistReadIsFresh'
  <2>1. ASSUME rec.at # "idle"
        PROVE  /\ phase[BatchOf[rec.run]] = "visible"
               /\ status'[rec.run] = "pending" => rec.seen = "pending"
    BY <1>1, <1>i, <1>t, <2>1 DEF PersistReadIsFresh
  <2>2. ASSUME rec.at = "batch", IsOpen(BatchOf[rec.run])'
        PROVE  /\ rec.succ = succeeded[BatchOf[rec.run]]
               /\ rec.fail = failed'[BatchOf[rec.run]]
    <3>1. PICK b \in Batches : b = BatchOf[rec.run]
      BY <1>t, <2>2
    <3>2. BatchOf[rec.run]' = b
      BY <1>u, <3>1
    <3>3. b \notin B /\ IsOpen(b)
      BY <1>2, <1>4, <2>2, <3>1, <3>2
    <3>4. failed'[b] = failed[b]
      BY <3>3
    <3> QED
      BY <1>i, <2>2, <3>1, <3>3, <3>4 DEF PersistReadIsFresh
  <2> QED
    BY <1>u, <2>1, <2>2 DEF PersistReadIsFresh
<1>8. ReaperHoldsOpen'
  BY <1>1, <1>i, <1>t DEF ReaperHoldsOpen, NoReap
<1>9. CancelHoldsOpen'
  BY <1>1, <1>i, <1>t DEF CancelHoldsOpen, NoAdmin
<1>10. ASSUME NEW b \in Batches PROVE Accounted(b)'
  <2>1. CASE b \in B
    BY <1>2, <2>1 DEF Accounted
  <2>2. CASE b \notin B
    BY <1>3, <1>i, <2>2, AccountedUntouched
  <2> QED
    BY <2>1, <2>2
<1> QED
  BY <1>5, <1>6, <1>7, <1>8, <1>9, <1>10 DEF ClosingInv

(* The commit of _persist: in an open batch it settles a run that was open *)
(* and counts one more, on counters that nobody has written since.         *)
LEMMA ClosingInvPersistCommit ==
  ASSUME ClosingInv, ExactInv', PersistCommit
  PROVE  ClosingInv'
<1>t. /\ BatchOf \in [Runs -> Batches] /\ rec \in PersistRecord
      /\ status \in [Runs -> RunStatus] /\ result \in [Runs -> ResultState]
      /\ succeeded \in [Batches -> Nat] /\ failed \in [Batches -> Nat]
      /\ finished \in [Batches -> BOOLEAN] /\ good \in [Runs -> BOOLEAN]
  <2>1. TypeOK
    BY DEF ClosingInv, ExactInv
  <2>2. rec.at = "batch"
    BY DEF PersistCommit
  <2>3. rec \in PersistRecord
    BY <2>1, <2>2 DEF TypeOK, NoPersist
  <2> QED
    BY <2>1, <2>3, PipelineAssumption DEF TypeOK
<1>p. PICK run \in Runs, b \in Batches : run = rec.run /\ b = BatchOf[run]
  BY <1>t DEF PersistRecord
<1>r. run = rec.run /\ b = BatchOf[run] /\ rec.succ \in Nat /\ rec.fail \in Nat
  BY <1>t, <1>p DEF PersistRecord
<1>i. InvisibleIsUntouched /\ OpenMeansUnrecorded /\ PersistReadIsFresh /\ ReaperHoldsOpen
      /\ CancelHoldsOpen /\ \A c \in Batches : Accounted(c)
  BY DEF ClosingInv
<1>1. rec.at = "batch" /\ rec'.at = "idle" /\ UNCHANGED <<phase, stale, job, reap, admin>>
      /\ result' = [result EXCEPT ![run] = "persisted"]
  BY <1>r DEF PersistCommit, NoPersist
<1>2. phase[b] = "visible"
  BY <1>1, <1>r, <1>i DEF PersistReadIsFresh
<1>3. \A r \in Runs : r # run => status'[r] = status[r]
  BY <1>r, <1>t DEF PersistCommit
<1>4. status'[run] # "pending"
  BY <1>1, <1>r, <1>t, <1>i DEF PersistCommit, PersistReadIsFresh
<1>5. \A r \in Runs : status'[r] = "pending" => status[r] = "pending"
  BY <1>3, <1>4
<1>6. \A c \in Batches : IsOpen(c)' => IsOpen(c)
  BY <1>5 DEF IsOpen
<1>7. \A c \in Batches : c # b => /\ succeeded'[c] = succeeded[c] /\ failed'[c] = failed[c]
                                  /\ finished'[c] = finished[c]
                                  /\ \A r \in Runs : BatchOf[r] = c => status'[r] = status[r]
  BY <1>3, <1>r, <1>t DEF PersistCommit
<1>8. InvisibleIsUntouched'
  BY <1>1, <1>2, <1>7, <1>i, <1>t DEF InvisibleIsUntouched
<1>9. OpenMeansUnrecorded'
  BY <1>1, <1>3, <1>6, <1>i, <1>t, <1>r DEF OpenMeansUnrecorded
<1>10. PersistReadIsFresh' /\ ReaperHoldsOpen' /\ CancelHoldsOpen'
  BY <1>1, <1>5, <1>i DEF PersistReadIsFresh, ReaperHoldsOpen, CancelHoldsOpen
<1>11. ASSUME NEW c \in Batches, c # b PROVE Accounted(c)'
  BY <1>7, <1>11, <1>i, AccountedUntouched
<1>12. Accounted(b)'
  <2>1. CASE ~IsOpen(b)'
    BY <2>1 DEF Accounted
  <2>2. CASE IsOpen(b)'
    <3>1. IsOpen(b) /\ ~finished[b] /\ succeeded[b] + failed[b] <= Cardinality(SettledRuns(b))
      BY <1>6, <1>r, <1>i, <2>2 DEF Accounted
    <3>2. rec.succ = succeeded[b] /\ rec.fail = failed[b]
      BY <1>1, <1>i, <1>r, <3>1 DEF PersistReadIsFresh
    <3>3. result[run] = "held" /\ job[run] # "no_credential"
      BY <1>1, <1>r DEF ClosingInv, ExactInv, PersistsWhatItHolds, OneResultPerJob
    <3>4. status[run] = "pending"
      BY <1>i, <1>r, <3>1, <3>3 DEF OpenMeansUnrecorded
    <3>5. rec.seen = "pending"
      BY <1>1, <1>i, <1>r, <3>4 DEF PersistReadIsFresh
    <3>6. status'[run] \in {"success", "failed"}
      BY <1>r, <1>t, <3>5 DEF PersistCommit
    <3>7. SettledRuns(b)' = SettledRuns(b) \cup {run} /\ run \notin SettledRuns(b)
      BY <1>3, <1>r, <3>4, <3>6 DEF SettledRuns, RunsOf
    <3>8. SettledRuns(b) \subseteq Runs
      BY DEF SettledRuns, RunsOf
    <3>9. /\ Cardinality(SettledRuns(b)') = Cardinality(SettledRuns(b)) + 1
          /\ Cardinality(SettledRuns(b)) \in Nat
      BY <3>7, <3>8, CountsAreNat, FS_AddElement
    <3>10. succeeded'[b] + failed'[b] = succeeded[b] + failed[b] + 1
      BY <1>r, <1>t, <3>2 DEF PersistCommit
    <3>11. PICK open \in RunsOf(b) : status'[open] = "pending"
      BY <2>2 DEF IsOpen, RunsOf
    <3>12. SettledRuns(b)' \subseteq RunsOf(b) \ {open}
      BY <3>11 DEF SettledRuns, RunsOf
    <3>13. Cardinality(SettledRuns(b)') < Total(b)
      <4>1. RunsOf(b) \subseteq Runs /\ RunsOf(b) \ {open} \subseteq Runs
        BY DEF RunsOf
      <4>2. IsFiniteSet(RunsOf(b)) /\ IsFiniteSet(RunsOf(b) \ {open})
            /\ Cardinality(RunsOf(b)) \in Nat
        BY <4>1, CountsAreNat
      <4>3. Cardinality(RunsOf(b) \ {open}) = Cardinality(RunsOf(b)) - 1
        BY <3>11, <4>2, FS_RemoveElement
      <4>4. Cardinality(SettledRuns(b)') <= Cardinality(RunsOf(b) \ {open})
        BY <3>12, <4>2, FS_Subset
      <4> QED
        BY <3>9, <4>2, <4>3, <4>4 DEF Total
    <3>14. succeeded[b] \in Nat /\ failed[b] \in Nat /\ Total(b) \in Nat
      BY <1>r, <1>t, BatchCounts
    <3>15. finished'[b] = finished[b]
      BY <1>r, <1>t, <3>1, <3>2, <3>9, <3>13, <3>14 DEF PersistCommit, PersistCloses
    <3> QED
      BY <3>1, <3>9, <3>10, <3>14, <3>15 DEF Accounted
  <2> QED
    BY <2>1, <2>2
<1> QED
  BY <1>8, <1>9, <1>10, <1>11, <1>12 DEF ClosingInv

-----------------------------------------------------------------------------
(* Every step keeps the invariant.                                         *)
LEMMA StepClosingInv == WithoutPurge /\ ClosingInv /\ [Next]_vars => ClosingInv'
<1> SUFFICES ASSUME WithoutPurge, ClosingInv, [Next]_vars PROVE ClosingInv'
  OBVIOUS
<1>0. ExactInv'
  BY StepExactInv DEF ClosingInv
<1>t. TypeOK
  BY DEF ClosingInv, ExactInv
<1>i. InvisibleIsUntouched /\ OpenMeansUnrecorded /\ PersistReadIsFresh /\ ReaperHoldsOpen
      /\ CancelHoldsOpen
  BY DEF ClosingInv
<1>1. ASSUME NEW b \in Batches, FireReject(b) \/ FireStart(b) \/ FireRollback(b)
      PROVE  ClosingInv'
  <2>1. /\ phase[b] # "visible" /\ phase'[b] # "visible"
        /\ \A c \in Batches : c # b => phase'[c] = phase[c]
        /\ UNCHANGED <<status, succeeded, failed, finished, stale, streamVars, rec, reap, admin>>
    BY <1>1, <1>t DEF FireReject, FireStart, FireRollback, TypeOK
  <2> QED
    BY <1>0, <2>1, ClosingInvInvisible
<1>2. ASSUME NEW b \in Batches, FireCommit(b) \/ FireInterrupted(b) PROVE ClosingInv'
  BY <1>0, <1>2, ClosingInvCommitRows DEF FireCommit, FireInterrupted
<1>3. ASSUME NEW r \in Runs,
             \/ FirePublish(r) \/ WorkerTake(r) \/ WorkerCrash(r) \/ JobTrimmed(r)
      PROVE  ClosingInv'
  <2>1. /\ UNCHANGED <<dbVars, result, rec, reap, admin>>
        /\ \A q \in Runs : job[q] = "no_credential" => job'[q] = "no_credential"
    BY <1>3, <1>t DEF FirePublish, WorkerTake, WorkerCrash, JobTrimmed, TypeOK
  <2> QED
    BY <1>0, <2>1, ClosingInvStream
<1>4. ASSUME NEW r \in Runs, WorkerFinish(r) \/ ResultTrimmed(r) PROVE ClosingInv'
  <2>1. result[r] # "persisted"
    BY <1>4 DEF ResultTrimmed, WorkerFinish, ClosingInv, ExactInv, OneResultPerJob
  <2>2. /\ UNCHANGED <<dbVars, rec, reap, admin>>
        /\ \A q \in Runs : job[q] = "no_credential" => job'[q] = "no_credential"
        /\ \A q \in Runs : result[q] = "persisted" => result'[q] = "persisted"
    BY <1>4, <1>t, <2>1 DEF ResultTrimmed, WorkerFinish, TypeOK
  <2> QED
    BY <1>0, <2>2, ClosingInvStream
<1>5. CASE RecorderRead
  <2>1. PICK S \in SUBSET Unread :
          result' = [r \in Runs |-> IF r \in S THEN "held" ELSE result[r]]
    BY <1>5 DEF RecorderRead
  <2>2. \A r \in Runs : result[r] = "persisted" => result'[r] = "persisted"
    BY <2>1 DEF Unread
  <2>3. UNCHANGED <<dbVars, job, rec, reap, admin>>
    BY <1>5 DEF RecorderRead
  <2> QED
    BY <1>0, <2>2, <2>3, ClosingInvStream
<1>6. ASSUME NEW r \in Runs, PersistReadRun(r) PROVE ClosingInv'
  <2>1. /\ UNCHANGED <<dbVars, job, reap, admin>> /\ result[r] = "held"
        /\ \A q \in Runs : result[q] = "persisted" => result'[q] = "persisted"
    BY <1>6, <1>t DEF PersistReadRun, TypeOK
  <2>2. PersistReadIsFresh'
    <3>1. CASE rec' = rec
      BY <2>1, <3>1, HeldUntouched
    <3>2. CASE rec' # rec
      <4>1. /\ status[r] \notin {"absent", "cancelled"}
            /\ rec' = [at |-> "run", run |-> r, seen |-> status[r],
                       succ |-> 0, fail |-> 0, fin |-> FALSE]
        BY <1>6, <3>2 DEF PersistReadRun
      <4>2. phase[BatchOf[r]] = "visible"
        BY <1>i, <4>1, PipelineAssumption DEF InvisibleIsUntouched
      <4> QED
        BY <2>1, <4>1, <4>2 DEF PersistReadIsFresh, dbVars
    <3> QED
      BY <3>1, <3>2
  <2> QED
    BY <1>0, <2>1, <2>2, ClosingInvTablesUntouched, HeldUntouched
<1>7. CASE PersistReadBatch
  <2>1. UNCHANGED <<dbVars, streamVars, reap, admin>> /\ UNCHANGED <<job, result>>
    BY <1>7 DEF PersistReadBatch, streamVars
  <2>2. PersistReadIsFresh'
    <3>1. /\ rec.at = "run" /\ rec'.at = "batch" /\ rec'.run = rec.run /\ rec'.seen = rec.seen
          /\ rec'.succ = succeeded[BatchOf[rec.run]] /\ rec'.fail = failed[BatchOf[rec.run]]
      BY <1>7 DEF PersistReadBatch
    <3> QED
      BY <1>i, <2>1, <3>1 DEF PersistReadIsFresh, dbVars
  <2> QED
    BY <1>0, <2>1, <2>2, ClosingInvTablesUntouched, HeldUntouched
<1>8. CASE PersistCommit
  BY <1>0, <1>8, ClosingInvPersistCommit
<1>9. CASE PersistFails
  <2>1. /\ UNCHANGED <<dbVars, job, reap, admin>> /\ rec' = NoPersist /\ result[rec.run] = "held"
        /\ result' = [result EXCEPT ![rec.run] = "gone"]
    BY <1>9 DEF PersistFails, ClosingInv, ExactInv, PersistsWhatItHolds
  <2>2. \A q \in Runs : result[q] = "persisted" => result'[q] = "persisted"
    BY <1>t, <2>1 DEF TypeOK
  <2>3. PersistReadIsFresh'
    BY <2>1 DEF PersistReadIsFresh, NoPersist
  <2> QED
    BY <1>0, <2>1, <2>2, <2>3, ClosingInvTablesUntouched, HeldUntouched
<1>10. CASE RecorderCrash
  <2>1. /\ UNCHANGED <<dbVars, job, admin>> /\ rec' = NoPersist /\ reap' = NoReap
        /\ \A q \in Runs : result[q] = "persisted" => result'[q] = "persisted"
    BY <1>10 DEF RecorderCrash
  <2>2. PersistReadIsFresh' /\ ReaperHoldsOpen'
    BY <2>1 DEF PersistReadIsFresh, NoPersist, ReaperHoldsOpen, NoReap
  <2> QED
    BY <1>0, <2>1, <2>2, ClosingInvTablesUntouched, HeldUntouched
<1>11. ASSUME NEW b \in Batches, BatchExpires(b) PROVE ClosingInv'
  <2>1. /\ phase[b] = "visible" /\ stale' = stale \cup {b}
        /\ UNCHANGED <<phase, status, succeeded, failed, finished, job, result, rec, reap, admin>>
    BY <1>11 DEF BatchExpires, streamVars
  <2>2. InvisibleIsUntouched'
    BY <1>i, <2>1 DEF InvisibleIsUntouched
  <2>3. \A c \in Batches : Accounted(c)'
    BY <2>1, AccountedUntouched DEF ClosingInv
  <2>4. OpenMeansUnrecorded' /\ PersistReadIsFresh' /\ ReaperHoldsOpen' /\ CancelHoldsOpen'
    BY <1>i, <2>1
       DEF OpenMeansUnrecorded, PersistReadIsFresh, ReaperHoldsOpen, CancelHoldsOpen, IsOpen
  <2> QED
    BY <1>0, <2>2, <2>3, <2>4 DEF ClosingInv
<1>12. CASE ReapSelect
  <2>1. /\ UNCHANGED <<dbVars, streamVars, rec, admin>> /\ UNCHANGED <<job, result>>
        /\ reap'.at = "batches" /\ reap'.batches \subseteq stale
    BY <1>12 DEF ReapSelect, streamVars
  <2>2. \A b \in stale : phase[b] = "visible"
    BY <1>i, <1>t DEF InvisibleIsUntouched, TypeOK
  <2>3. ReaperHoldsOpen'
    BY <2>1, <2>2 DEF ReaperHoldsOpen, dbVars
  <2> QED
    BY <1>0, <2>1, <2>3, ClosingInvTablesUntouched, HeldUntouched
<1>13. CASE ReapReadRuns
  <2>1. /\ UNCHANGED <<dbVars, streamVars, rec, admin>> /\ UNCHANGED <<job, result>>
        /\ reap.at = "batches" /\ reap'.at = "runs" /\ reap'.batches = reap.batches
        /\ reap'.victims = UNION {OpenRuns(b) : b \in reap.batches}
    BY <1>13 DEF ReapReadRuns, streamVars
  <2>2. \A r \in Runs : r \in reap'.victims
                         <=> BatchOf[r] \in reap.batches /\ status[r] = "pending"
    BY <2>1 DEF OpenRuns, RunsOf
  <2>3. ReaperHoldsOpen'
    <3>1. \A r \in reap'.victims : r \in Runs
      BY <2>1 DEF OpenRuns, RunsOf
    <3> QED
      BY <1>i, <2>1, <2>2, <3>1 DEF ReaperHoldsOpen, dbVars
  <2> QED
    BY <1>0, <2>1, <2>3, ClosingInvTablesUntouched, HeldUntouched
<1>14. CASE ReapCommit
  <2>1. /\ reap.batches \in SUBSET Batches /\ reap.victims \in SUBSET Runs
        /\ \A b \in reap.batches : phase[b] = "visible"
        /\ \A r \in reap.victims : BatchOf[r] \in reap.batches
        /\ \A r \in Runs : BatchOf[r] \in reap.batches /\ status[r] = "pending"
                               => r \in reap.victims
    BY <1>14, <1>i, <1>t DEF ReapCommit, ReaperHoldsOpen, TypeOK, ReapRecord
  <2>2. \A b \in Batches \ reap.batches : failed'[b] = failed[b] /\ finished'[b] = finished[b]
    <3>1. \A b \in Batches \ reap.batches : reap.victims \cap RunsOf(b) = {}
      BY <2>1 DEF RunsOf
    <3>2. \A b \in Batches \ reap.batches : Count(reap.victims, b) = 0
      BY <3>1, FS_EmptySet DEF Count
    <3> QED
      BY <1>14, <1>t, <3>2 DEF ReapCommit, TypeOK
  <2>3. PICK B \in SUBSET Batches, V \in SUBSET Runs : B = reap.batches /\ V = reap.victims
    BY <2>1
  <2>4. /\ status' = [r \in Runs |-> IF r \in V THEN "failed" ELSE status[r]]
        /\ UNCHANGED <<phase, succeeded, stale, streamVars, rec>>
        /\ reap' = NoReap /\ UNCHANGED admin
    BY <1>14, <2>3 DEF ReapCommit
  <2> QED
    BY <1>0, <2>1, <2>2, <2>3, <2>4, SettlingAll
<1>15. CASE ReapFails
  <2>1. UNCHANGED <<dbVars, streamVars, rec, admin>> /\ UNCHANGED <<job, result>> /\ reap' = NoReap
    BY <1>15 DEF ReapFails, streamVars
  <2>2. ReaperHoldsOpen'
    BY <2>1 DEF ReaperHoldsOpen, NoReap
  <2> QED
    BY <1>0, <2>1, <2>2, ClosingInvTablesUntouched, HeldUntouched
<1>16. ASSUME NEW w \in WebWorkers, NEW b \in Batches, CancelReadBatch(w, b) PROVE ClosingInv'
  <2>1. /\ UNCHANGED <<dbVars, streamVars, rec, reap>> /\ UNCHANGED <<job, result>>
        /\ phase[b] = "visible"
        /\ admin'[w].at = "cancel" /\ admin'[w].batches = {b}
        /\ \A v \in WebWorkers : v # w => admin'[v] = admin[v]
    BY <1>16, <1>t DEF CancelReadBatch, streamVars, TypeOK
  <2>2. CancelHoldsOpen'
    BY <1>i, <2>1 DEF CancelHoldsOpen, dbVars
  <2> QED
    BY <1>0, <2>1, <2>2, ClosingInvTablesUntouched, HeldUntouched
<1>17. ASSUME NEW w \in WebWorkers, CancelReadRuns(w) PROVE ClosingInv'
  <2>1. /\ UNCHANGED <<dbVars, streamVars, rec, reap>> /\ UNCHANGED <<job, result>>
        /\ admin[w].at = "cancel" /\ admin'[w].at = "ready"
        /\ admin'[w].batches = admin[w].batches
        /\ admin'[w].victims = UNION {OpenRuns(b) : b \in admin[w].batches}
        /\ \A v \in WebWorkers : v # w => admin'[v] = admin[v]
    BY <1>17, <1>t DEF CancelReadRuns, streamVars, TypeOK
  <2>2. /\ \A r \in Runs : r \in admin'[w].victims
                            <=> BatchOf[r] \in admin[w].batches /\ status[r] = "pending"
        /\ \A r \in admin'[w].victims : r \in Runs
    BY <2>1 DEF OpenRuns, RunsOf
  <2>3. CancelHoldsOpen'
    BY <1>i, <2>1, <2>2 DEF CancelHoldsOpen, dbVars
  <2> QED
    BY <1>0, <2>1, <2>3, ClosingInvTablesUntouched, HeldUntouched
<1>18. ASSUME NEW w \in WebWorkers, PurgeScan(w) \/ PurgeDelete(w) \/ PurgeReadBatches(w)
       PROVE  ClosingInv'
  BY <1>18, <1>i DEF WithoutPurge, PurgeScan, PurgeDelete, PurgeReadBatches, CancelHoldsOpen
<1>19. ASSUME NEW w \in WebWorkers, AdminCommit(w) PROVE ClosingInv'
  <2>1. /\ admin[w].batches \in SUBSET Batches /\ admin[w].victims \in SUBSET Runs
        /\ \A b \in admin[w].batches : phase[b] = "visible"
        /\ \A r \in admin[w].victims : BatchOf[r] \in admin[w].batches
        /\ \A r \in Runs : BatchOf[r] \in admin[w].batches /\ status[r] = "pending"
                               => r \in admin[w].victims
    BY <1>19, <1>i, <1>t DEF AdminCommit, CancelHoldsOpen, TypeOK, AdminRecord
  <2>2. \A b \in Batches \ admin[w].batches :
           failed'[b] = failed[b] /\ finished'[b] = finished[b]
    <3>1. \A b \in Batches \ admin[w].batches : admin[w].victims \cap RunsOf(b) = {}
      BY <2>1 DEF RunsOf
    <3>2. \A b \in Batches \ admin[w].batches : Count(admin[w].victims, b) = 0
      BY <3>1, FS_EmptySet DEF Count
    <3> QED
      BY <1>19, <1>t, <3>2 DEF AdminCommit, AdminCloses, TypeOK
  <2>3. PICK B \in SUBSET Batches, V \in SUBSET Runs :
          B = admin[w].batches /\ V = admin[w].victims
    BY <2>1
  <2>4. /\ status' = [r \in Runs |-> IF r \in V THEN "cancelled" ELSE status[r]]
        /\ UNCHANGED <<phase, succeeded, stale, streamVars, rec>> /\ reap' = reap
        /\ \A v \in WebWorkers : admin'[v] \in {admin[v], NoAdmin}
    BY <1>19, <1>t, <2>3 DEF AdminCommit, TypeOK
  <2>5. /\ \A b \in B : phase[b] = "visible"
        /\ \A r \in V : BatchOf[r] \in B
        /\ \A r \in Runs : BatchOf[r] \in B /\ status[r] = "pending" => r \in V
        /\ \A b \in Batches \ B : failed'[b] = failed[b] /\ finished'[b] = finished[b]
    BY <2>1, <2>2, <2>3
  <2> QED
    BY <1>0, <2>4, <2>5, SettlingAll
<1>20. ASSUME NEW w \in WebWorkers, AdminFails(w) PROVE ClosingInv'
  <2>1. /\ UNCHANGED <<dbVars, streamVars, rec, reap>> /\ UNCHANGED <<job, result>>
        /\ \A v \in WebWorkers : admin'[v] \in {admin[v], NoAdmin}
    BY <1>20, <1>t DEF AdminFails, streamVars, TypeOK
  <2>2. CancelHoldsOpen'
    BY <1>i, <2>1 DEF CancelHoldsOpen, NoAdmin, dbVars
  <2> QED
    BY <1>0, <2>1, <2>2, ClosingInvTablesUntouched, HeldUntouched
<1>21. CASE UNCHANGED vars
  <2>1. UNCHANGED <<dbVars, job, result, rec, reap, admin>>
    BY <1>21 DEF vars, streamVars
  <2> QED
    BY <1>0, <2>1, ClosingInvStream
<1> QED
  BY <1>1, <1>2, <1>3, <1>4, <1>5, <1>6, <1>7, <1>8, <1>9, <1>10, <1>11, <1>12, <1>13,
     <1>14, <1>15, <1>16, <1>17, <1>18, <1>19, <1>20, <1>21
     DEF Next, Dispatch, Work, Record, Administer

(* A finished batch has no pending run, for every set of batches and runs, *)
(* whichever of the recorder, the reaper and cancels raced to close it, as *)
(* long as nobody purges the queue.                                        *)
THEOREM ClosedBatchesAreSettled ==
  ASSUME WithoutPurge PROVE Spec => []ClosedMeansSettled
<1>1. Init => ClosingInv
  BY InitClosingInv
<1>2. ClosingInv /\ [Next]_vars => ClosingInv'
  BY StepClosingInv
<1>3. ClosingInv => ClosedMeansSettled
  BY AccountedIs DEF ClosingInv
<1> QED
  BY <1>1, <1>2, <1>3, PTL DEF Spec

(* While a batch is open its counters count settled runs only, under the   *)
(* same condition: the test that closes a batch is never met too early.    *)
THEOREM OpenCountsAreOfSettledRuns ==
  ASSUME WithoutPurge PROVE Spec => []CountedRunsAreSettled
<1>1. Init => ClosingInv
  BY InitClosingInv
<1>2. ClosingInv /\ [Next]_vars => ClosingInv'
  BY StepClosingInv
<1>3. ClosingInv => CountedRunsAreSettled
  BY AccountedIs DEF ClosingInv
<1> QED
  BY <1>1, <1>2, <1>3, PTL DEF Spec
=============================================================================
