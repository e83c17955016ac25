-------------------------- MODULE BackupStoreProofs --------------------------
(***************************************************************************)
(* Proofs about BackupStore, for any batches, devices, contents and number *)
(* of faults.  All of them follow from one inductive invariant, which says *)
(* what the transaction in progress knows about the stores it has already  *)
(* written.                                                                *)
(***************************************************************************)
EXTENDS BackupStore, SequenceTheorems, TLAPS

\* What a transaction may stamp on its runs is in the history already.
ShasExist ==
  /\ StampsExist
  /\ \A b \in Batches : call.sha[b] <= Len(log)

\* A batch the transaction has handled has no remembered paths left, and
\* none come in before the transaction ends.
ClosedAreCommitted == \A b \in call.closed : staged[b] = {}

\* Between index.add and the commit the index holds what is on disk.
AddedIsOnDisk ==
  /\ call.at # "added" => call.paths = {}
  /\ \A d \in call.paths : index[d] = disk[d]

\* As long as nothing failed, the database is behind the working tree by the
\* result being persisted and by nothing else.
BehindByTheCall ==
  /\ call.ok => call.run \in Backups
  /\ faults = 0 =>
       disk = IF call.ok THEN [latest EXCEPT ![call.run[2]] = call.got] ELSE latest

\* The web process closes batches behind the recorder.
WebCloses ==
  (\E b \in Batches : Cancel(b)) \/ (\E runs \in SUBSET Backups : Purge(runs))

StoreInv ==
  TypeOK /\ ShasExist /\ ClosedAreCommitted /\ AddedIsOnDisk /\ BehindByTheCall

-----------------------------------------------------------------------------
(* Lemmas.                                                                 *)

\* A backup names a batch and a device.
LEMMA BackupParts == \A r \in Backups : r[1] \in Batches /\ r[2] \in Devices
BY DEF Backups

\* Trees, and the record of an idle recorder.
LEMMA IdleType == NewTree \in Tree /\ Idle \in Call /\ NoShas \in [Batches -> Nat]
BY DEF NewTree, Tree, File, Idle, Call, NoShas

\* There is always a last commit.
LEMMA HeadIsTree == TypeOK => HEAD \in Tree /\ Len(log) \in Nat \ {0}
BY DEF TypeOK, HEAD

\* A commit adds one tree to the history, which is then its head.
LEMMA Committed ==
  ASSUME TypeOK, GitCommit
  PROVE  /\ log' \in Seq(Tree) /\ log' # <<>>
         /\ Len(log') \in Nat /\ Len(log') >= Len(log)
         /\ index # HEAD => Len(log') = Len(log) + 1
         /\ HEAD' = index
<1>1. CASE index = HEAD
  BY <1>1 DEF GitCommit, TypeOK, HEAD
<1>2. CASE index # HEAD
  <2>1. log' = Append(log, index)
    BY <1>2 DEF GitCommit
  <2>2. Len(log') = Len(log) + 1 /\ log'[Len(log) + 1] = index
    BY <2>1 DEF TypeOK
  <2>3. log' \in Seq(Tree) /\ log' # <<>>
    BY <2>1, <2>2 DEF TypeOK
  <2> QED
    BY <1>2, <2>2, <2>3 DEF TypeOK, HEAD
<1> QED
  BY <1>1, <1>2

-----------------------------------------------------------------------------
(* The invariant, action by action.                                        *)

LEMMA InitStoreInv == Init => StoreInv
<1> SUFFICES ASSUME Init PROVE StoreInv
  OBVIOUS
<1>1. TypeOK
  <2>1. disk \in Tree /\ index \in Tree /\ latest \in Tree
    BY IdleType DEF Init
  <2>2. log \in Seq(Tree) /\ log # <<>>
    BY IdleType DEF Init
  <2>3. /\ staged \in [Batches -> SUBSET Devices]
        /\ status \in [Backups -> {"pending", "success", "failed", "cancelled"}]
        /\ msg \in [Backups -> {"due", "gone"}]
        /\ finished \in [Batches -> BOOLEAN]
        /\ stamp \in [Backups -> Nat]
        /\ payload \in [Backups -> File]
    BY DEF Init, File
  <2>4. call \in Call /\ call = Idle /\ faults \in Nat
    BY IdleType DEF Init
  <2> QED
    BY <2>1, <2>2, <2>3, <2>4 DEF TypeOK
<1>2. ShasExist
  <2>1. Len(log) = 1
    BY DEF Init
  <2> QED
    BY <2>1 DEF Init, ShasExist, StampsExist, Idle, NoShas
<1>3. ClosedAreCommitted /\ AddedIsOnDisk /\ BehindByTheCall
  BY DEF Init, Idle, ClosedAreCommitted, AddedIsOnDisk, BehindByTheCall
<1> QED
  BY <1>1, <1>2, <1>3 DEF StoreInv

\* Every step preserves the types.
LEMMA StepTypeOK == TypeOK /\ [Next]_vars => TypeOK'
<1> SUFFICES ASSUME TypeOK, [Next]_vars PROVE TypeOK'
  OBVIOUS
<1> USE BackupParts, IdleType
<1>1. ASSUME NEW r \in Backups, ResultLost(r) \/ PersistDiscard(r) PROVE TypeOK'
  BY <1>1 DEF ResultLost, PersistDiscard, TypeOK, gitVars, dbVars
<1>2. ASSUME NEW r \in Backups, NEW c \in File, NEW ok \in BOOLEAN
      PROVE  Began(r, ok, c) \in Call /\ Began(r, ok, c).at # "idle"
  BY DEF Began, Call, File
<1>3. ASSUME NEW r \in Backups, PersistFailure(r) PROVE TypeOK'
  <2>1. call' = Began(r, FALSE, Blank) /\ Blank \in File
    BY <1>3 DEF PersistFailure, File
  <2> QED
    BY <1>2, <1>3, <2>1 DEF PersistFailure, TypeOK, gitVars, dbVars
<1>4. ASSUME NEW r \in Backups, NEW c \in Content, PersistStage(r, c) PROVE TypeOK'
  <2>1. c \in File
    BY DEF File
  <2>2. disk' \in Tree /\ staged' \in [Batches -> SUBSET Devices]
    BY <1>4, <2>1 DEF PersistStage, TypeOK, Tree
  <2> QED
    BY <1>2, <1>4, <2>1, <2>2 DEF PersistStage, TypeOK, dbVars
<1>5. ASSUME WebCloses PROVE TypeOK'
  <2>1. UNCHANGED <<gitVars, stamp, payload, latest, staged, msg, call, faults>>
    BY <1>5 DEF WebCloses, Cancel, Purge
  <2>2. finished' \in [Batches -> BOOLEAN]
    BY <1>5 DEF WebCloses, Cancel, Purge, TypeOK
  <2>3. status' \in [Backups -> {"pending", "success", "failed", "cancelled"}]
    BY <1>5 DEF WebCloses, Cancel, Purge, TypeOK
  <2> QED
    BY <2>1, <2>2, <2>3 DEF TypeOK, gitVars
<1>6. ASSUME NEW b \in Batches, CommitBatch(b) PROVE TypeOK'
  <2>1. staged' \in [Batches -> SUBSET Devices]
    BY <1>6 DEF CommitBatch, TypeOK
  <2>2. index' \in Tree
    BY <1>6 DEF CommitBatch, TypeOK, Tree
  <2>3. call \in Call /\ call.at = "git" /\ staged[b] \in SUBSET Devices
    BY <1>6 DEF CommitBatch, TypeOK
  <2>4. CASE staged[b] = {}
    <3>1. call' = [call EXCEPT !.todo = @ \ {b}, !.closed = @ \cup {b}]
      BY <1>6, <2>4 DEF CommitBatch
    <3>2. call' \in Call /\ call'.at = "git"
      BY <2>3, <3>1 DEF Call
    <3> QED
      BY <1>6, <2>1, <2>2, <3>2 DEF CommitBatch, TypeOK, dbVars
  <2>5. CASE staged[b] # {}
    <3>1. call' = [call EXCEPT !.at = "added", !.todo = @ \ {b}, !.closed = @ \cup {b},
                               !.cur = {b}, !.paths = staged[b]]
      BY <1>6, <2>5 DEF CommitBatch
    <3>2. call' \in Call /\ call'.at = "added"
      BY <2>3, <3>1 DEF Call
    <3> QED
      BY <1>6, <2>1, <2>2, <3>2 DEF CommitBatch, TypeOK, dbVars
  <2> QED
    BY <2>4, <2>5
<1>7. ASSUME NEW S \in SUBSET Batches, ReapSelect(S) PROVE TypeOK'
  <2>1. call' \in Call /\ call'.at # "idle"
    BY <1>7 DEF ReapSelect, Call, Idle, File
  <2> QED
    BY <1>7, <2>1 DEF ReapSelect, TypeOK, gitVars, dbVars
<1>8. CASE GitCommit
  <2>1. call' \in Call /\ call'.at # "idle"
    <3>1. call \in Call /\ call.sha \in [Batches -> Nat] /\ Len(log) \in Nat
      BY HeadIsTree DEF TypeOK, Call
    <3>2. PICK sha \in [Batches -> Nat] :
            call' = [call EXCEPT !.at = "git", !.cur = {}, !.paths = {}, !.sha = sha]
      <4> DEFINE sha == [b \in Batches |-> IF b \in call.cur /\ index # HEAD
                                             THEN Len(log) + 1 ELSE call.sha[b]]
      <4>1. sha \in [Batches -> Nat]
        BY <3>1
      <4>2. call' = [call EXCEPT !.at = "git", !.cur = {}, !.paths = {}, !.sha = sha]
        BY <1>8 DEF GitCommit
      <4> QED
        BY <4>1, <4>2
    <3> QED
      BY <3>1, <3>2 DEF Call
  <2> QED
    BY <1>8, <2>1, Committed DEF GitCommit, TypeOK, dbVars
<1>9. CASE CallCommit
  <2>1. /\ status' \in [Backups -> {"pending", "success", "failed", "cancelled"}]
        /\ finished' \in [Batches -> BOOLEAN]
    BY <1>9 DEF CallCommit, TypeOK
  <2>2. stamp' \in [Backups -> Nat]
    BY <1>9 DEF CallCommit, TypeOK, Call
  <2>3. payload' \in [Backups -> File] /\ latest' \in Tree
    BY <1>9 DEF CallCommit, TypeOK, Call, Tree
  <2> QED
    BY <1>9, <2>1, <2>2, <2>3 DEF CallCommit, TypeOK, gitVars
<1>10. CASE CallFails \/ Crash
  <2>1. faults' \in Nat /\ call' = Idle /\ staged' \in [Batches -> SUBSET Devices]
    BY <1>10 DEF CallFails, Crash, TypeOK
  <2> QED
    BY <1>10, <2>1 DEF CallFails, Crash, TypeOK, gitVars, dbVars
<1>11. CASE UNCHANGED vars
  BY <1>11 DEF vars, gitVars, dbVars, TypeOK
<1> QED
  BY <1>1, <1>3, <1>4, <1>5, <1>6, <1>7, <1>8, <1>9, <1>10, <1>11 DEF Next, WebCloses

\* What handling a batch changes: its paths move from the memory to the
\* index, and the rest of the call stays as it is.
LEMMA Popped ==
  ASSUME TypeOK, NEW b \in Batches, CommitBatch(b)
  PROVE  /\ call'.run = call.run /\ call'.ok = call.ok /\ call'.got = call.got
         /\ call'.sha = call.sha
         /\ call'.todo = call.todo \ {b} /\ call'.closed = call.closed \cup {b}
         /\ staged' = [staged EXCEPT ![b] = {}]
         /\ IF staged[b] = {}
              THEN call'.at = "git" /\ call'.paths = call.paths /\ index' = index
              ELSE /\ call'.at = "added" /\ call'.paths = staged[b]
                   /\ index' = [d \in Devices |-> IF d \in staged[b] THEN disk[d] ELSE index[d]]
<1>1. call \in Call /\ call.at = "git"
  BY DEF TypeOK, CommitBatch
<1>2. CASE staged[b] = {}
  <2>1. /\ call' = [call EXCEPT !.todo = @ \ {b}, !.closed = @ \cup {b}]
        /\ index' = index /\ staged' = [staged EXCEPT ![b] = {}]
    BY <1>2 DEF CommitBatch
  <2> QED
    BY <1>1, <1>2, <2>1 DEF Call
<1>3. CASE staged[b] # {}
  <2>1. /\ call' = [call EXCEPT !.at = "added", !.todo = @ \ {b}, !.closed = @ \cup {b},
                                !.cur = {b}, !.paths = staged[b]]
        /\ index' = [d \in Devices |-> IF d \in staged[b] THEN disk[d] ELSE index[d]]
        /\ staged' = [staged EXCEPT ![b] = {}]
    BY <1>3 DEF CommitBatch
  <2> QED
    BY <1>1, <1>3, <2>1 DEF Call
<1> QED
  BY <1>2, <1>3

\* What a commit changes in the call.
LEMMA CommittedCall ==
  ASSUME TypeOK, GitCommit
  PROVE  /\ call'.at = "git" /\ call'.paths = {}
         /\ call'.run = call.run /\ call'.ok = call.ok /\ call'.got = call.got
         /\ call'.todo = call.todo /\ call'.closed = call.closed
         /\ \A b \in Batches :
              call'.sha[b] = IF b \in call.cur /\ index # HEAD THEN Len(log) + 1 ELSE call.sha[b]
<1> DEFINE sha == [b \in Batches |-> IF b \in call.cur /\ index # HEAD
                                       THEN Len(log) + 1 ELSE call.sha[b]]
<1>1. call \in Call
  BY DEF TypeOK
<1>2. call' = [call EXCEPT !.at = "git", !.cur = {}, !.paths = {}, !.sha = sha]
  BY DEF GitCommit
<1>3. \A b \in Batches : sha[b] = IF b \in call.cur /\ index # HEAD
                                    THEN Len(log) + 1 ELSE call.sha[b]
  OBVIOUS
<1> HIDE DEF sha
<1> QED
  BY <1>1, <1>2, <1>3 DEF Call

LEMMA StepShasExist == StoreInv /\ TypeOK' /\ [Next]_vars => ShasExist'
<1> SUFFICES ASSUME StoreInv, TypeOK', [Next]_vars PROVE ShasExist'
  OBVIOUS
<1>t. TypeOK /\ ShasExist
  BY DEF StoreInv
<1>l. /\ Len(log) \in Nat /\ Len(log)' \in Nat /\ Len(log) > 0
      /\ stamp \in [Backups -> Nat] /\ call.sha \in [Batches -> Nat]
      /\ \A r \in Backups : stamp[r] <= Len(log)
      /\ \A b \in Batches : call.sha[b] <= Len(log)
  BY <1>t, HeadIsTree DEF TypeOK, ShasExist, StampsExist, Call
\* Without a commit the history stays, and what is stamped was in the call.
<1>1. ASSUME log' = log, stamp' = stamp, call'.sha \in {call.sha, NoShas} PROVE ShasExist'
  BY <1>1, <1>l DEF ShasExist, StampsExist, NoShas
<1>2. ASSUME NEW r \in Backups, ResultLost(r) \/ PersistDiscard(r) PROVE ShasExist'
  BY <1>1, <1>2 DEF ResultLost, PersistDiscard, gitVars, dbVars
<1>3. ASSUME NEW r \in Backups, PersistFailure(r) PROVE ShasExist'
  BY <1>1, <1>3 DEF PersistFailure, gitVars, dbVars, Began
<1>4. ASSUME NEW r \in Backups, NEW c \in Content, PersistStage(r, c) PROVE ShasExist'
  BY <1>1, <1>4 DEF PersistStage, dbVars, Began
<1>5. ASSUME WebCloses PROVE ShasExist'
  BY <1>1, <1>5 DEF WebCloses, Cancel, Purge, gitVars
<1>6. ASSUME NEW b \in Batches, CommitBatch(b) PROVE ShasExist'
  <2>1. log' = log /\ stamp' = stamp
    BY <1>6 DEF CommitBatch, dbVars
  <2>2. call'.sha = call.sha
    BY <1>t, <1>6, Popped
  <2> QED
    BY <1>1, <2>1, <2>2
<1>7. ASSUME NEW S \in SUBSET Batches, ReapSelect(S) PROVE ShasExist'
  BY <1>1, <1>7 DEF ReapSelect, gitVars, dbVars, Idle
<1>8. CASE GitCommit
  <2>1. stamp' = stamp
    BY <1>8 DEF GitCommit, dbVars
  <2>2. \A r \in Backups : stamp[r] <= Len(log)'
    BY <1>l, <1>t, <1>8, Committed
  <2>3. ASSUME NEW b \in Batches PROVE call'.sha[b] <= Len(log)'
    <3>1. CASE b \in call.cur /\ index # HEAD
      <4>1. call'.sha[b] = Len(log) + 1 /\ Len(log)' = Len(log) + 1
        BY <3>1, <1>t, <1>8, Committed, CommittedCall
      <4> QED
        BY <4>1, <1>l
    <3>2. CASE ~ (b \in call.cur /\ index # HEAD)
      <4>1. call'.sha[b] = call.sha[b] /\ Len(log)' >= Len(log)
        BY <3>2, <1>t, <1>8, Committed, CommittedCall
      <4>2. call.sha[b] <= Len(log) /\ call.sha[b] \in Nat
        BY <1>l
      <4> QED
        BY <4>1, <4>2, <1>l
    <3> QED
      BY <3>1, <3>2
  <2> QED
    BY <2>1, <2>2, <2>3 DEF ShasExist, StampsExist
<1>9. CASE CallCommit
  <2>1. /\ log' = log /\ call'.sha = NoShas
        /\ stamp' = [q \in Backups |-> IF call.sha[q[1]] > 0 THEN call.sha[q[1]] ELSE stamp[q]]
    BY <1>9 DEF CallCommit, gitVars, Idle
  <2> QED
    BY <1>l, <2>1, BackupParts DEF ShasExist, StampsExist, NoShas
<1>10. CASE CallFails \/ Crash
  BY <1>1, <1>10 DEF CallFails, Crash, gitVars, dbVars, Idle
<1>11. CASE UNCHANGED vars
  BY <1>1, <1>11 DEF vars, gitVars, dbVars
<1> QED
  BY <1>2, <1>3, <1>4, <1>5, <1>6, <1>7, <1>8, <1>9, <1>10, <1>11 DEF Next, WebCloses

LEMMA StepClosedAreCommitted == StoreInv /\ [Next]_vars => ClosedAreCommitted'
<1> SUFFICES ASSUME StoreInv, [Next]_vars PROVE ClosedAreCommitted'
  OBVIOUS
<1>t. TypeOK /\ ClosedAreCommitted /\ staged \in [Batches -> SUBSET Devices]
  BY DEF StoreInv, TypeOK
\* Whoever leaves the call and the memory alone, and whoever begins or ends a
\* call: nothing is closed that was not.
<1>1. ASSUME staged' = staged, call' = call PROVE ClosedAreCommitted'
  BY <1>t, <1>1 DEF ClosedAreCommitted
<1>2. ASSUME call'.closed = {} PROVE ClosedAreCommitted'
  BY <1>2 DEF ClosedAreCommitted
<1>3. ASSUME NEW r \in Backups, ResultLost(r) \/ PersistDiscard(r) PROVE ClosedAreCommitted'
  BY <1>1, <1>3 DEF ResultLost, PersistDiscard
<1>4. ASSUME NEW r \in Backups, PersistFailure(r) \/ \E c \in Content : PersistStage(r, c)
      PROVE  ClosedAreCommitted'
  <2>1. call'.closed = {}
    BY <1>4 DEF PersistFailure, PersistStage, Began
  <2> QED
    BY <1>2, <2>1
<1>5. ASSUME WebCloses PROVE ClosedAreCommitted'
  BY <1>1, <1>5 DEF WebCloses, Cancel, Purge
<1>6. ASSUME NEW b \in Batches, CommitBatch(b) PROVE ClosedAreCommitted'
  <2>1. /\ staged' = [staged EXCEPT ![b] = {}] /\ call'.closed = call.closed \cup {b}
    BY <1>t, <1>6, Popped
  <2>2. call.closed \subseteq Batches
    BY <1>t DEF TypeOK, Call
  <2> QED
    BY <1>t, <2>1, <2>2 DEF ClosedAreCommitted
<1>7. ASSUME NEW S \in SUBSET Batches, ReapSelect(S) PROVE ClosedAreCommitted'
  BY <1>2, <1>7 DEF ReapSelect, Idle
<1>8. CASE GitCommit
  <2>1. staged' = staged /\ call'.closed = call.closed
    BY <1>t, <1>8, CommittedCall DEF GitCommit
  <2> QED
    BY <1>t, <2>1 DEF ClosedAreCommitted
<1>9. CASE CallCommit \/ CallFails \/ Crash
  BY <1>2, <1>9 DEF CallCommit, CallFails, Crash, Idle
<1>10. CASE UNCHANGED vars
  BY <1>1, <1>10 DEF vars
<1> QED
  BY <1>3, <1>4, <1>5, <1>6, <1>7, <1>8, <1>9, <1>10 DEF Next, WebCloses

LEMMA StepAddedIsOnDisk == StoreInv /\ [Next]_vars => AddedIsOnDisk'
<1> SUFFICES ASSUME StoreInv, [Next]_vars PROVE AddedIsOnDisk'
  OBVIOUS
<1>t. TypeOK /\ AddedIsOnDisk
  BY DEF StoreInv
<1>1. ASSUME call' = call, disk' = disk, index' = index PROVE AddedIsOnDisk'
  BY <1>t, <1>1 DEF AddedIsOnDisk
<1>2. ASSUME call'.paths = {} PROVE AddedIsOnDisk'
  BY <1>2 DEF AddedIsOnDisk
<1>3. ASSUME NEW r \in Backups, ResultLost(r) \/ PersistDiscard(r) PROVE AddedIsOnDisk'
  BY <1>1, <1>3 DEF ResultLost, PersistDiscard, gitVars
<1>4. ASSUME NEW r \in Backups, PersistFailure(r) \/ \E c \in Content : PersistStage(r, c)
      PROVE  AddedIsOnDisk'
  BY <1>2, <1>4 DEF PersistFailure, PersistStage, Began
<1>5. ASSUME WebCloses PROVE AddedIsOnDisk'
  BY <1>1, <1>5 DEF WebCloses, Cancel, Purge, gitVars
<1>6. ASSUME NEW b \in Batches, CommitBatch(b) PROVE AddedIsOnDisk'
  <2>1. call.paths = {} /\ disk' = disk
    BY <1>t, <1>6 DEF CommitBatch, AddedIsOnDisk
  <2>2. CASE staged[b] = {}
    BY <1>2, <1>t, <1>6, <2>1, <2>2, Popped
  <2>3. CASE staged[b] # {}
    <3>1. /\ call'.at = "added" /\ call'.paths = staged[b]
          /\ index' = [d \in Devices |-> IF d \in staged[b] THEN disk[d] ELSE index[d]]
      BY <1>t, <1>6, <2>3, Popped
    <3>2. staged[b] \subseteq Devices
      BY <1>t DEF TypeOK
    <3> QED
      BY <2>1, <3>1, <3>2 DEF AddedIsOnDisk
  <2> QED
    BY <2>2, <2>3
<1>7. ASSUME NEW S \in SUBSET Batches, ReapSelect(S) PROVE AddedIsOnDisk'
  BY <1>2, <1>7 DEF ReapSelect, Idle
<1>8. CASE GitCommit
  BY <1>2, <1>t, <1>8, CommittedCall
<1>9. CASE CallCommit \/ CallFails \/ Crash
  BY <1>2, <1>9 DEF CallCommit, CallFails, Crash, Idle
<1>10. CASE UNCHANGED vars
  BY <1>1, <1>10 DEF vars, gitVars
<1> QED
  BY <1>3, <1>4, <1>5, <1>6, <1>7, <1>8, <1>9, <1>10 DEF Next, WebCloses

LEMMA StepBehindByTheCall == StoreInv /\ [Next]_vars => BehindByTheCall'
<1> SUFFICES ASSUME StoreInv, [Next]_vars PROVE BehindByTheCall'
  OBVIOUS
<1>t. TypeOK /\ BehindByTheCall /\ faults \in Nat
  BY DEF StoreInv, TypeOK
<1>0. call.at = "idle" => ~ call.ok /\ (faults = 0 => disk = latest)
  BY <1>t DEF TypeOK, Idle, BehindByTheCall
\* Neither the files nor the rows change, and the result at hand stays.
<1>1. ASSUME UNCHANGED <<disk, latest, faults>>,
             call'.run = call.run, call'.ok = call.ok, call'.got = call.got
      PROVE  BehindByTheCall'
  BY <1>t, <1>1 DEF BehindByTheCall
\* A call without a result begins.
<1>2. ASSUME UNCHANGED <<disk, latest, faults>>, call.at = "idle", ~ call'.ok
      PROVE  BehindByTheCall'
  BY <1>0, <1>2 DEF BehindByTheCall
<1>3. ASSUME NEW r \in Backups, ResultLost(r) \/ PersistDiscard(r) PROVE BehindByTheCall'
  BY <1>1, <1>3 DEF ResultLost, PersistDiscard, gitVars, dbVars
<1>4. ASSUME NEW r \in Backups, PersistFailure(r) PROVE BehindByTheCall'
  BY <1>2, <1>4 DEF PersistFailure, gitVars, dbVars, Began
<1>5. ASSUME NEW r \in Backups, NEW c \in Content, PersistStage(r, c) PROVE BehindByTheCall'
  <2>1. /\ call'.ok /\ call'.run = r /\ call'.got = c /\ call.at = "idle"
        /\ disk' = [disk EXCEPT ![r[2]] = c] /\ UNCHANGED <<latest, faults>>
    BY <1>5 DEF PersistStage, Began, dbVars
  <2> QED
    BY <1>0, <2>1 DEF BehindByTheCall
<1>6. ASSUME WebCloses PROVE BehindByTheCall'
  BY <1>1, <1>6 DEF WebCloses, Cancel, Purge, gitVars
<1>7. ASSUME NEW b \in Batches, CommitBatch(b) PROVE BehindByTheCall'
  BY <1>1, <1>t, <1>7, Popped DEF CommitBatch, dbVars
<1>8. ASSUME NEW S \in SUBSET Batches, ReapSelect(S) PROVE BehindByTheCall'
  BY <1>2, <1>8 DEF ReapSelect, gitVars, dbVars, Idle
<1>9. CASE GitCommit
  BY <1>1, <1>t, <1>9, CommittedCall DEF GitCommit, dbVars
<1>10. CASE CallCommit
  <2>1. /\ ~ call'.ok /\ UNCHANGED <<disk, faults>>
        /\ latest' = IF call.ok THEN [latest EXCEPT ![call.run[2]] = call.got] ELSE latest
    BY <1>10 DEF CallCommit, gitVars, Idle
  <2> QED
    BY <1>t, <2>1 DEF BehindByTheCall
<1>11. CASE CallFails \/ Crash
  <2>1. ~ call'.ok /\ faults' = faults + 1
    BY <1>11 DEF CallFails, Crash, Idle
  <2> QED
    BY <1>t, <2>1 DEF BehindByTheCall
<1>12. CASE UNCHANGED vars
  BY <1>1, <1>12 DEF vars, gitVars, dbVars
<1> QED
  BY <1>3, <1>4, <1>5, <1>6, <1>7, <1>8, <1>9, <1>10, <1>11, <1>12
  DEF Next, WebCloses

LEMMA StepStoreInv == StoreInv /\ [Next]_vars => StoreInv'
<1>1. StoreInv => TypeOK
  BY DEF StoreInv
<1> QED
  BY <1>1, StepTypeOK, StepShasExist, StepClosedAreCommitted, StepAddedIsOnDisk,
     StepBehindByTheCall DEF StoreInv

-----------------------------------------------------------------------------
(* Every variable has its type, the history has its initial commit, and    *)
(* nothing of a transaction outlives it.                                   *)
THEOREM StoreTypeCorrectness == Spec => []TypeOK
<1>1. StoreInv => TypeOK
  BY DEF StoreInv
<1> QED
  BY <1>1, InitStoreInv, StepStoreInv, PTL DEF Spec

(* A commit_sha in the database names a commit of the repository, whatever *)
(* crashes between the git commit and the database commit.                 *)
THEOREM StampedCommitsExist == Spec => []StampsExist
<1>1. StoreInv => StampsExist
  BY DEF StoreInv, ShasExist
<1> QED
  BY <1>1, InitStoreInv, StepStoreInv, PTL DEF Spec

(* As long as nothing fails, the table of the configuration search and the *)
(* working tree agree between transactions.                                *)
THEOREM SearchAgreesWithDisk == Spec => []SearchSeesDisk
<1>1. StoreInv => SearchSeesDisk
  BY DEF StoreInv, SearchSeesDisk, TypeOK, BehindByTheCall, Idle
<1> QED
  BY <1>1, InitStoreInv, StepStoreInv, PTL DEF Spec

\* One of the four ways in which a changed file is forgotten.
Forgets(d) ==
  \/ faults' > faults
  \/ call' = call /\ \E b \in Batches : d \in staged[b] /\ ~finished[b] /\ finished'[b]
  \/ call.at = "idle" /\ call'.run # NoBackup /\ finished[call'.run[1]]

\* A step that leaves the repository alone forgets nothing as long as every
\* memory of a path survives it.
LEMMA NothingForgotten ==
  ASSUME UNCHANGED gitVars, NEW d \in Devices, Tracked(d) => Tracked(d)'
  PROVE  Unaccounted(d)' => Unaccounted(d)
BY DEF Unaccounted, Dirty, HEAD, gitVars

LEMMA StepForgets ==
  StoreInv /\ StoreInv' /\ [Next]_vars =>
    \A d \in Devices : ~Unaccounted(d) /\ Unaccounted(d)' => Forgets(d)
<1> SUFFICES ASSUME StoreInv, StoreInv', [Next]_vars, NEW d \in Devices,
                    ~Unaccounted(d), Unaccounted(d)'
             PROVE  Forgets(d)
  OBVIOUS
<1>t. /\ TypeOK /\ ClosedAreCommitted /\ AddedIsOnDisk
      /\ staged \in [Batches -> SUBSET Devices] /\ finished \in [Batches -> BOOLEAN]
      /\ call \in Call
  BY DEF StoreInv, TypeOK
<1>g. ASSUME UNCHANGED gitVars PROVE Tracked(d) /\ ~Tracked(d)'
  BY <1>g, NothingForgotten DEF Unaccounted, Dirty, HEAD, gitVars
<1>i. call.at = "idle" => call.todo = {} /\ call.paths = {}
  BY <1>t DEF TypeOK, Idle
<1>1. ASSUME NEW r \in Backups, ResultLost(r) \/ PersistDiscard(r) PROVE FALSE
  BY <1>1, <1>g DEF ResultLost, PersistDiscard, dbVars, Tracked
<1>2. ASSUME NEW r \in Backups, PersistFailure(r) PROVE FALSE
  <2>1. /\ UNCHANGED <<gitVars, staged, finished>> /\ call.at = "idle"
        /\ call'.paths = {}
    BY <1>2 DEF PersistFailure, dbVars, Began
  <2> QED
    BY <1>g, <1>i, <2>1 DEF Tracked
<1>3. ASSUME NEW r \in Backups, NEW c \in Content, PersistStage(r, c) PROVE Forgets(d)
  <2>1. /\ call.at = "idle" /\ call'.run = r /\ call'.paths = {}
        /\ UNCHANGED <<index, log, finished>>
        /\ disk' = [disk EXCEPT ![r[2]] = c]
        /\ staged' = IF disk[r[2]] = c THEN staged
                     ELSE [staged EXCEPT ![r[1]] = @ \cup {r[2]}]
    BY <1>3 DEF PersistStage, dbVars, Began
  <2>2. r[1] \in Batches /\ r[2] \in Devices /\ r # NoBackup /\ disk \in Tree
    BY <1>t, BackupParts, BackupAssumption DEF Backups, TypeOK
  <2>3. CASE finished[r[1]]
    BY <2>1, <2>2, <2>3 DEF Forgets
  <2>4. CASE ~ finished[r[1]]
    <3>1. \A b \in Batches : staged[b] \subseteq staged'[b]
      BY <1>t, <2>1, <2>2
    <3>2. Tracked(d) => Tracked(d)'
      BY <1>i, <2>1, <3>1 DEF Tracked
    <3>3. CASE disk'[d] = disk[d]
      BY <2>1, <3>2, <3>3 DEF Unaccounted, Dirty, HEAD
    <3>4. CASE disk'[d] # disk[d]
      <4>1. d = r[2] /\ disk[r[2]] # c
        BY <2>1, <2>2, <3>4 DEF Tree
      <4>2. d \in staged'[r[1]]
        BY <1>t, <2>1, <2>2, <4>1
      <4> QED
        BY <2>1, <2>2, <2>4, <4>2 DEF Tracked, Unaccounted
    <3> QED
      BY <3>3, <3>4
  <2> QED
    BY <2>3, <2>4
<1>4. ASSUME WebCloses PROVE Forgets(d)
  <2>1. UNCHANGED <<gitVars, staged, call>> /\ finished' \in [Batches -> BOOLEAN]
    BY <1>t, <1>4 DEF WebCloses, Cancel, Purge, TypeOK
  <2>2. PICK a \in Batches : d \in staged[a] /\ ~finished[a] /\ finished'[a]
    BY <1>t, <1>g, <2>1 DEF Tracked
  <2> QED
    BY <2>1, <2>2 DEF Forgets
<1>5. ASSUME NEW b \in Batches, CommitBatch(b) PROVE FALSE
  <2>1. /\ UNCHANGED <<disk, log, finished>> /\ call.paths = {} /\ b \in call.todo
        /\ staged' = [staged EXCEPT ![b] = {}] /\ call'.todo = call.todo \ {b}
        /\ staged[b] # {} => call'.paths = staged[b]
        /\ \/ index' = index
           \/ index' = [e \in Devices |-> IF e \in staged[b] THEN disk[e] ELSE index[e]]
    BY <1>t, <1>5, Popped DEF CommitBatch, AddedIsOnDisk, dbVars
  <2>2. Tracked(d) => Tracked(d)'
    <3>1. CASE d \in staged[b]
      BY <2>1, <3>1 DEF Tracked
    <3>2. CASE d \notin staged[b]
      BY <1>t, <2>1, <3>2 DEF Tracked
    <3> QED
      BY <3>1, <3>2
  <2>3. CASE d \in staged[b]
    BY <2>1, <2>3 DEF Tracked, Unaccounted
  <2>4. CASE d \notin staged[b]
    <3>1. index'[d] = index[d]
      BY <2>1, <2>4
    <3> QED
      BY <2>1, <2>2, <3>1 DEF Unaccounted, Dirty, HEAD
  <2> QED
    BY <2>3, <2>4
<1>6. ASSUME NEW S \in SUBSET Batches, ReapSelect(S) PROVE FALSE
  <2>1. /\ UNCHANGED <<gitVars, staged, finished>> /\ call.at = "idle"
    BY <1>6 DEF ReapSelect, dbVars
  <2> QED
    BY <1>g, <1>i, <2>1 DEF Tracked
<1>7. CASE GitCommit
  <2>1. /\ UNCHANGED <<disk, index, staged, finished>> /\ call'.todo = call.todo
        /\ HEAD' = index
    BY <1>t, <1>7, Committed, CommittedCall DEF GitCommit, dbVars
  <2>2. CASE d \in call.paths
    BY <1>t, <2>1, <2>2 DEF AddedIsOnDisk, Unaccounted, Dirty
  <2>3. CASE d \notin call.paths
    <3>1. ~ Tracked(d)
      BY <2>1, <2>3 DEF Unaccounted, Tracked
    <3>2. disk[d] # index[d]
      BY <2>1 DEF Unaccounted, Dirty
    <3> QED
      BY <3>1, <3>2 DEF Unaccounted, Dirty
  <2> QED
    BY <2>2, <2>3
<1>8. CASE CallCommit
  <2>1. /\ UNCHANGED <<gitVars, staged>> /\ call.todo = {} /\ call.at = "git"
        /\ finished' = [b \in Batches |-> finished[b] \/ b \in call.closed]
    BY <1>8 DEF CallCommit
  <2>2. call.paths = {}
    BY <1>t, <2>1 DEF AddedIsOnDisk
  <2>3. PICK b \in Batches : d \in staged[b] /\ ~ finished[b] /\ b \notin call.closed
    BY <1>t, <1>g, <2>1, <2>2 DEF Tracked, ClosedAreCommitted
  <2> QED
    BY <1>g, <2>1, <2>3 DEF Tracked
<1>9. CASE CallFails \/ Crash
  BY <1>t, <1>9 DEF CallFails, Crash, Forgets, TypeOK
<1>10. CASE UNCHANGED vars
  BY <1>10, <1>g DEF vars, dbVars, Tracked
<1> QED
  BY <1>1, <1>2, <1>3, <1>4, <1>5, <1>6, <1>7, <1>8, <1>9, <1>10 DEF Next, WebCloses

(* A changed file is forgotten by the recorder in four ways only: a        *)
(* restart, a failure in the middle of its transaction, a cancel or a      *)
(* purge that closes the batch that captured it, a result that arrives     *)
(* after its batch is closed.  No overlapping batch and no reaper forgets  *)
(* one.                                                                    *)
THEOREM FilesAreForgottenInFourWays == Spec => ForgottenInFourWays
<1>1. StoreInv /\ StoreInv' /\ [Next]_vars =>
        [\A d \in Devices :
           ~Unaccounted(d) /\ Unaccounted(d)' =>
             \/ faults' > faults
             \/ call' = call /\ \E b \in Batches : d \in staged[b] /\ ~finished[b] /\ finished'[b]
             \/ call.at = "idle" /\ call'.run # NoBackup /\ finished[call'.run[1]]]_vars
  BY StepForgets DEF Forgets
<1> QED
  BY <1>1, InitStoreInv, StepStoreInv, PTL DEF Spec, ForgottenInFourWays
=============================================================================
