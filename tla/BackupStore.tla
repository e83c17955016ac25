----------------------------- MODULE BackupStore -----------------------------
(***************************************************************************)
(* What the recorder does with captured configurations: the git working    *)
(* tree, the index, the history, the recorder's memory of changed files    *)
(* (batch_staged) and the database rows that point into the history.       *)
(*                                                                         *)
(* Four stores are written in turn and only the database has transactions: *)
(* _persist writes the file to disk, remembers its path in memory if it    *)
(* changed, adds and commits the remembered paths when the batch closes,   *)
(* and only then commits its rows.  A failure or a crash between two of    *)
(* these leaves the earlier ones done.  Meanwhile a web process may close  *)
(* the batch by cancelling it, or by purging the jobs of its runs.         *)
(*                                                                         *)
(* One backup is a pair <<batch, device>>.  Contents are model values and  *)
(* a commit's sha is its position in the history.  The batch counters are  *)
(* those of Pipeline; here a batch is done when it has no pending run.     *)
(***************************************************************************)
EXTENDS Integers, Sequences, FiniteSets

CONSTANTS
  Devices,    \* the devices; a device's file has one path (its first group is fixed)
  Batches,    \* backup batches, which may overlap in time and in devices
  Targets,    \* the devices of each batch
  Content,    \* configurations a device may report
  Blank,      \* the file before any backup
  NoBackup,   \* "no result is being persisted"
  WebOps,     \* "cancel", "purge": what administrators do
  MaxFaults   \* bound: failed transactions and crashes

ASSUME BackupAssumption ==
  /\ Targets \in [Batches -> SUBSET Devices]
  /\ Blank \notin Content
  /\ NoBackup \notin Batches \X Devices
  /\ WebOps \subseteq {"cancel", "purge"}
  /\ MaxFaults \in Nat

VARIABLES
  disk,      \* the file of each device in the working tree
  index,     \* the file of each device in the git index
  log,       \* the trees of the commits, oldest first
  staged,    \* batch_staged: the changed paths of each batch, in memory
  status,    \* runs.status
  msg,       \* whether the result of a run can still arrive
  finished,  \* run_batches.finished_at is not null
  stamp,     \* runs.commit_sha, 0 for none
  payload,   \* runs.payload_sha256, Blank for none
  latest,    \* device_configs.content
  call,      \* the recorder's transaction in progress
  faults     \* how much of MaxFaults has been used

gitVars == <<disk, index, log>>
dbVars  == <<status, finished, stamp, payload, latest>>
vars    == <<gitVars, dbVars, staged, msg, call, faults>>

Backups  == {r \in Batches \X Devices : r[2] \in Targets[r[1]]}
Of(b)    == {r \in Backups : r[1] = b}
File     == Content \cup {Blank}
Tree     == [Devices -> File]
NewTree  == [d \in Devices |-> Blank]
HEAD     == log[Len(log)]
NoShas   == [b \in Batches |-> 0]
Open(b)  == {r \in Of(b) : status[r] = "pending"}

\* at: "idle", "git" (choosing the next batch to commit), "added" (paths are
\* in the index, not committed).  todo: batches this transaction closes and
\* has not handled yet; closed: those it has; cur and paths: the one at hand.
Idle == [at |-> "idle", run |-> NoBackup, ok |-> FALSE, got |-> Blank,
         todo |-> {}, closed |-> {}, cur |-> {}, paths |-> {}, sha |-> NoShas]

Init ==
  /\ disk = NewTree /\ index = NewTree /\ log = <<NewTree>>
  /\ staged = [b \in Batches |-> {}]
  /\ status = [r \in Backups |-> "pending"]
  /\ msg = [r \in Backups |-> "due"]
  /\ finished = [b \in Batches |-> FALSE]
  /\ stamp = [r \in Backups |-> 0]
  /\ payload = [r \in Backups |-> Blank]
  /\ latest = NewTree
  /\ call = Idle
  /\ faults = 0

-----------------------------------------------------------------------------
\* The worker, or its result, is lost.
ResultLost(r) ==
  /\ msg[r] = "due"
  /\ msg' = [msg EXCEPT ![r] = "gone"]
  /\ UNCHANGED <<gitVars, dbVars, staged, call, faults>>

\* cancel_batch: every pending run is cancelled, so the counters reach the
\* total and the batch is closed.  The recorder's memory is out of reach.
Cancel(b) ==
  /\ "cancel" \in WebOps
  /\ ~finished[b]
  /\ status' = [r \in Backups |-> IF r \in Open(b) THEN "cancelled" ELSE status[r]]
  /\ finished' = [finished EXCEPT ![b] = TRUE]
  /\ UNCHANGED <<gitVars, stamp, payload, latest, staged, msg, call, faults>>

\* purge_queue: the runs whose jobs were waiting are cancelled, in one
\* transaction for all the batches they are of.  A worker may have taken a job
\* meanwhile and still answer.
Purge(runs) ==
  /\ "purge" \in WebOps
  /\ runs # {} /\ \A r \in runs : status[r] = "pending" /\ msg[r] = "due"
  /\ status' = [r \in Backups |-> IF r \in runs THEN "cancelled" ELSE status[r]]
  /\ finished' = [b \in Batches |-> finished[b] \/ (Of(b) \cap runs # {} /\ Open(b) \subseteq runs)]
  /\ UNCHANGED <<gitVars, stamp, payload, latest, staged, msg, call, faults>>

\* A result of a cancelled run is acknowledged and discarded.
PersistDiscard(r) ==
  /\ call.at = "idle"
  /\ msg[r] = "due"
  /\ status[r] = "cancelled"
  /\ msg' = [msg EXCEPT ![r] = "gone"]
  /\ UNCHANGED <<gitVars, dbVars, staged, call, faults>>

\* "When the last result of a batch arrives": the transaction will close b.
Closes(r) == ~finished[r[1]] /\ Open(r[1]) \subseteq {r}

Began(r, ok, c) ==
  [at |-> "git", run |-> r, ok |-> ok, got |-> c,
   todo |-> IF Closes(r) THEN {r[1]} ELSE {},
   closed |-> {}, cur |-> {}, paths |-> {}, sha |-> NoShas]

PersistFailure(r) ==
  /\ call.at = "idle"
  /\ msg[r] = "due"
  /\ status[r] # "cancelled"
  /\ msg' = [msg EXCEPT ![r] = "gone"]
  /\ call' = Began(r, FALSE, Blank)
  /\ UNCHANGED <<gitVars, dbVars, staged, faults>>

\* GitStore.stage: the file is written if it differs from what is on DISK,
\* and only then is its path remembered.
PersistStage(r, c) ==
  /\ call.at = "idle"
  /\ msg[r] = "due"
  /\ status[r] # "cancelled"
  /\ msg' = [msg EXCEPT ![r] = "gone"]
  /\ disk' = [disk EXCEPT ![r[2]] = c]
  /\ staged' = IF disk[r[2]] = c THEN staged
               ELSE [staged EXCEPT ![r[1]] = @ \cup {r[2]}]
  /\ call' = Began(r, TRUE, c)
  /\ UNCHANGED <<index, log, dbVars, faults>>

\* A mutant of ReapSelect: a batch with nothing recorded is left alone.
ReapSelectTouched(S) ==
  /\ call.at = "idle"
  /\ S # {} /\ \A b \in S : ~finished[b] /\ Open(b) # Of(b)
  /\ call' = [Idle EXCEPT !.at = "git", !.todo = S]
  /\ UNCHANGED <<gitVars, dbVars, staged, msg, faults>>

\* _reap_stale_batches: one transaction for all the batches found stale.
ReapSelect(S) ==
  /\ call.at = "idle"
  /\ S # {} /\ \A b \in S : ~finished[b]
  /\ call' = [Idle EXCEPT !.at = "git", !.todo = S]
  /\ UNCHANGED <<gitVars, dbVars, staged, msg, faults>>

\* A mutant of CommitBatch: the paths are popped and nothing is committed.
CommitBatchPopsOnly(b) ==
  /\ call.at = "git"
  /\ b \in call.todo
  /\ staged' = [staged EXCEPT ![b] = {}]
  /\ call' = [call EXCEPT !.todo = @ \ {b}, !.closed = @ \cup {b}]
  /\ UNCHANGED <<gitVars, dbVars, msg, faults>>

\* batch_staged.pop, then commit_batch adds the popped paths to the index,
\* with the content they have on disk NOW.
CommitBatch(b) ==
  /\ call.at = "git"
  /\ b \in call.todo
  /\ staged' = [staged EXCEPT ![b] = {}]
  /\ IF staged[b] = {}
       THEN /\ call' = [call EXCEPT !.todo = @ \ {b}, !.closed = @ \cup {b}]
            /\ index' = index
       ELSE /\ call' = [call EXCEPT !.at = "added", !.todo = @ \ {b},
                                    !.closed = @ \cup {b}, !.cur = {b},
                                    !.paths = staged[b]]
            /\ index' = [d \in Devices |-> IF d \in staged[b] THEN disk[d] ELSE index[d]]
  /\ UNCHANGED <<disk, log, dbVars, msg, faults>>

\* A mutant of GitCommit: it returns a sha whether or not it committed.
GitCommitAlwaysReturns ==
  /\ call.at = "added"
  /\ log' = IF index = HEAD THEN log ELSE Append(log, index)
  /\ call' = [call EXCEPT !.at = "git", !.cur = {}, !.paths = {},
                          !.sha = [b \in Batches |-> IF b \in call.cur
                                     THEN Len(log) + 1 ELSE call.sha[b]]]
  /\ UNCHANGED <<disk, index, dbVars, staged, msg, faults>>

\* ... and commits the whole index if it differs from HEAD.
GitCommit ==
  /\ call.at = "added"
  /\ log' = IF index = HEAD THEN log ELSE Append(log, index)
  /\ call' = [call EXCEPT !.at = "git", !.cur = {}, !.paths = {},
                          !.sha = [b \in Batches |->
                                     IF b \in call.cur /\ index # HEAD
                                       THEN Len(log) + 1 ELSE call.sha[b]]]
  /\ UNCHANGED <<disk, index, dbVars, staged, msg, faults>>

\* A mutant of CallCommit: a result of a closed batch does not reach the
\* table of latest configurations.
CallCommitSkipsLate ==
  LET r == call.run IN
  /\ call.at = "git"
  /\ call.todo = {}
  /\ status' = [q \in Backups |->
                  IF q = r THEN IF call.ok THEN "success" ELSE "failed"
                  ELSE IF q[1] \in call.closed /\ status[q] = "pending" THEN "failed"
                  ELSE status[q]]
  /\ finished' = [b \in Batches |-> finished[b] \/ b \in call.closed]
  /\ stamp' = [q \in Backups |-> IF call.sha[q[1]] > 0 THEN call.sha[q[1]] ELSE stamp[q]]
  /\ payload' = IF call.ok THEN [payload EXCEPT ![r] = call.got] ELSE payload
  /\ latest' = IF call.ok /\ ~finished[r[1]]
                 THEN [latest EXCEPT ![r[2]] = call.got] ELSE latest
  /\ call' = Idle
  /\ UNCHANGED <<gitVars, staged, msg, faults>>

\* The database commit.  Runs the reaper found open are failed; the sha of
\* the batch is stamped on all its runs.
CallCommit ==
  LET r == call.run IN
  /\ call.at = "git"
  /\ call.todo = {}
  /\ status' = [q \in Backups |->
                  IF q = r THEN IF call.ok THEN "success" ELSE "failed"
                  ELSE IF q[1] \in call.closed /\ status[q] = "pending" THEN "failed"
                  ELSE status[q]]
  /\ finished' = [b \in Batches |-> finished[b] \/ b \in call.closed]
  /\ stamp' = [q \in Backups |-> IF call.sha[q[1]] > 0 THEN call.sha[q[1]] ELSE stamp[q]]
  /\ payload' = IF call.ok THEN [payload EXCEPT ![r] = call.got] ELSE payload
  /\ latest' = IF call.ok THEN [latest EXCEPT ![r[2]] = call.got] ELSE latest
  /\ call' = Idle
  /\ UNCHANGED <<gitVars, staged, msg, faults>>

\* A mutant of CallFails: the call is left, its state is not.
CallFailsLeavesState ==
  /\ faults < MaxFaults
  /\ call.at # "idle"
  /\ call' = [call EXCEPT !.at = "idle"]
  /\ faults' = faults + 1
  /\ UNCHANGED <<gitVars, dbVars, staged, msg>>

\* Git, the compliance evaluation or the database raises: the rows are rolled
\* back; the files, the index, the history and the memory are not.
CallFails ==
  /\ faults < MaxFaults
  /\ call.at # "idle"
  /\ call' = Idle
  /\ faults' = faults + 1
  /\ UNCHANGED <<gitVars, dbVars, staged, msg>>

\* The recorder is restarted: its memory is gone too.
Crash ==
  /\ faults < MaxFaults
  /\ call' = Idle
  /\ staged' = [b \in Batches |-> {}]
  /\ faults' = faults + 1
  /\ UNCHANGED <<gitVars, dbVars, msg>>

-----------------------------------------------------------------------------
Next ==
  \/ \E r \in Backups : \/ ResultLost(r) \/ PersistDiscard(r) \/ PersistFailure(r)
                        \/ \E c \in Content : PersistStage(r, c)
  \/ \E b \in Batches : Cancel(b) \/ CommitBatch(b)
  \/ \E S \in SUBSET Batches : ReapSelect(S)
  \/ \E runs \in SUBSET Backups : Purge(runs)
  \/ GitCommit \/ CallCommit \/ CallFails \/ Crash

Spec == Init /\ [][Next]_vars

\* The recorder's loop goes on: a transaction begun is carried through, and
\* open batches are reaped.  No result need ever arrive.
Fairness ==
  /\ WF_vars(\E b \in Batches : CommitBatch(b))
  /\ WF_vars(GitCommit)
  /\ WF_vars(CallCommit)
  /\ WF_vars(ReapSelect({b \in Batches : ~finished[b]}))

FairSpec == Spec /\ Fairness

-----------------------------------------------------------------------------
(* Properties.                                                             *)

Call ==
  [at : {"idle", "git", "added"}, run : Backups \cup {NoBackup}, ok : BOOLEAN,
   got : File, todo : SUBSET Batches, closed : SUBSET Batches,
   cur : SUBSET Batches, paths : SUBSET Devices, sha : [Batches -> Nat]]

\* Every variable has its type, the history has its initial commit, and
\* nothing of a transaction outlives it.
TypeOK ==
  /\ disk \in Tree /\ index \in Tree /\ latest \in Tree
  /\ log \in Seq(Tree) /\ log # <<>>
  /\ staged \in [Batches -> SUBSET Devices]
  /\ status \in [Backups -> {"pending", "success", "failed", "cancelled"}]
  /\ msg \in [Backups -> {"due", "gone"}]
  /\ finished \in [Batches -> BOOLEAN]
  /\ stamp \in [Backups -> Nat]
  /\ payload \in [Backups -> File]
  /\ call \in Call /\ (call.at = "idle" => call = Idle)
  /\ faults \in Nat

\* A commit_sha in the database names a commit of the repository, whatever
\* crashes between the git commit and the database commit.
StampsExist == \A r \in Backups : stamp[r] <= Len(log)

\* The file on disk, the index and HEAD disagree about d.  The index counts: a
\* failed commit leaves content in it that the next commit, of whatever
\* files, takes along.
Dirty(d)   == disk[d] # HEAD[d] \/ index[d] # HEAD[d]

\* Somebody will commit d: an open batch, or the transaction in progress.
Tracked(d) ==
  \/ \E b \in Batches : d \in staged[b] /\ (~finished[b] \/ b \in call.todo)
  \/ d \in call.paths

Unaccounted(d) == Dirty(d) /\ ~Tracked(d)

\* A changed file is forgotten by the recorder in four ways only: a restart,
\* a failure in the middle of its transaction, a cancel or a purge that closes
\* the batch that captured it, a result that arrives after its batch is closed.  No
\* overlapping batch and no reaper forgets one.
ForgottenInFourWays ==
  [][\A d \in Devices :
       ~Unaccounted(d) /\ Unaccounted(d)' =>
         \/ faults' > faults
         \/ call' = call /\ \E b \in Batches : d \in staged[b] /\ ~finished[b] /\ finished'[b]
         \/ call.at = "idle" /\ call'.run # NoBackup /\ finished[call'.run[1]]]_vars

\* A changed file that is tracked is committed, or forgotten in one of the
\* four ways: no batch keeps it back for ever.
TrackedIsHandled ==
  \A d \in Devices : Dirty(d) /\ Tracked(d) ~> ~Dirty(d) \/ ~Tracked(d)

\* As long as nothing fails, the table that the configuration search reads
\* holds, between transactions, exactly what is in the working tree.
SearchSeesDisk == faults = 0 /\ call.at = "idle" => latest = disk
=============================================================================
