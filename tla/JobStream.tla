------------------------------ MODULE JobStream ------------------------------
(***************************************************************************)
(* One job stream in Redis: admission of batches by its fill, publishing   *)
(* with a length cap, delivery to the consumer group, acknowledgement and  *)
(* purge.                                                                  *)
(*                                                                         *)
(* Entries are known by the order they were added in, which is the order   *)
(* of their ids.  Redis itself is external and modelled by what queue.py   *)
(* uses: XLEN, the group's entries-read and last-delivered-id, XADD with   *)
(* an approximate MAXLEN (the oldest entries above the cap are trimmed,    *)
(* or some of them, or none), XREADGROUP ">", XACK and XDEL.  Each command *)
(* is atomic; a function that issues two is split.  The streams of worker  *)
(* pools share nothing, so one stream is modelled.                         *)
(*                                                                         *)
(* entries-read is no exact counter: Redis does not know it before the     *)
(* first delivery, and may estimate it anew or lose it once entries have   *)
(* been deleted or trimmed.  XINFO GROUPS then answers nil.                *)
(***************************************************************************)
EXTENDS Integers, FiniteSets, FiniteSetsExt

CONSTANTS
  Dispatchers,  \* processes that may be in fire_job: web processes, the scheduler
  Counts,       \* how many jobs a batch may put on this stream
  MaxLen,       \* stream_max_len
  HighWater,    \* int(stream_max_len * stream_high_water_ratio)
  MaxJobs       \* bound: jobs published in a behaviour

ASSUME StreamAssumption ==
  /\ Counts \subseteq Nat \ {0}
  /\ MaxLen \in Nat \ {0}
  /\ HighWater \in 0..MaxLen
  /\ MaxJobs \in Nat

VARIABLES
  entries,  \* the entries now in the stream
  added,    \* how many were ever added
  group,    \* the consumer group exists
  last,     \* its last-delivered-id
  read,     \* its entries-read, or Unknown
  fate,     \* what became of each job
  disp,     \* the fire_job call in progress in each dispatcher
  purge     \* the purge_undelivered call in progress

groupVars == <<group, last, read>>
vars      == <<entries, added, groupVars, fate, disp, purge>>

Jobs    == 1..MaxJobs
Unknown == -1  \* nil in the answer of XINFO GROUPS

\* "held": delivered, not acknowledged; "acked": acknowledged and deleted;
\* "stranded": its worker died; "trimmed": cut off by MAXLEN before delivery.
Fate == {"none", "queued", "held", "acked", "stranded", "purged", "trimmed"}

Undelivered == {i \in entries : i > last}
Delivered   == {i \in Jobs : fate[i] \in {"held", "acked", "stranded"}}

NoCheck == [at |-> "idle", count |-> 0, len |-> 0, waiting |-> 0, left |-> 0]
Publishing(n) == [at |-> "publishing", count |-> n, len |-> 0, waiting |-> 0, left |-> 0]
NoPurge == [at |-> "idle", ids |-> {}]

Init ==
  /\ entries = {} /\ added = 0
  /\ group = FALSE /\ last = 0 /\ read = Unknown
  /\ fate = [i \in Jobs |-> "none"]
  /\ disp = [p \in Dispatchers |-> NoCheck]
  /\ purge = NoPurge

-----------------------------------------------------------------------------
(* fire_job: job_stream_pressure, then one publish_job per device.         *)

\* XLEN.  How many of the entries wait at that moment, and how many are left
\* of those delivered, is noted for the properties.
CheckLength(p, n) ==
  /\ disp[p].at = "idle"
  /\ disp' = [disp EXCEPT ![p] =
       [at |-> "len", count |-> n, len |-> Cardinality(entries),
        waiting |-> Cardinality(Undelivered),
        left |-> Cardinality(Delivered \cap entries)]]
  /\ UNCHANGED <<entries, added, groupVars, fate, purge>>

\* A mutant of Pressure: deliveries are not subtracted.
PressureIsLength(p) == disp[p].len

\* XINFO GROUPS, and max(0, length - entries_read); entries_read is 0 when
\* the group does not exist or its entries-read is nil.
Pressure(p) ==
  LET entriesRead == IF read = Unknown THEN 0 ELSE read
  IN  IF disp[p].len > entriesRead THEN disp[p].len - entriesRead ELSE 0

\* The batch is refused above the high-water mark and published below.
Admit(p) ==
  /\ disp[p].at = "len"
  /\ IF Pressure(p) + disp[p].count > HighWater
       THEN disp' = [disp EXCEPT ![p] = NoCheck]
       ELSE disp' = [disp EXCEPT ![p] = Publishing(disp[p].count)]
  /\ UNCHANGED <<entries, added, groupVars, fate, purge>>

\* A mutant of Publish: the new entry reuses the id of the last one.
PublishReusesId(p) ==
  /\ disp[p].at = "publishing"
  /\ added < MaxJobs
  /\ entries' = entries \cup {added + 1}
  /\ fate' = [fate EXCEPT ![added + 1] = "queued"]
  /\ UNCHANGED <<added, groupVars, disp, purge>>

\* XADD.  Trimming takes the oldest entries, delivered or not.
Publish(p) ==
  LET new  == added + 1
      full == entries \cup {new}
  IN
  /\ disp[p].at = "publishing"
  /\ new <= MaxJobs
  /\ added' = new
  /\ \E cut \in SUBSET full :
       /\ cut = {} \/ Cardinality(full \ cut) >= MaxLen
       /\ \A i \in cut, j \in full \ cut : i < j
       /\ entries' = full \ cut
       /\ fate' = [i \in Jobs |-> IF i = new THEN "queued"
                                  ELSE IF i \in cut /\ fate[i] = "queued" THEN "trimmed"
                                  ELSE fate[i]]
  /\ disp' = [disp EXCEPT ![p] =
       IF disp[p].count = 1 THEN NoCheck
       ELSE Publishing(disp[p].count - 1)]
  /\ UNCHANGED <<groupVars, purge>>

\* The dispatcher dies or a call raises between two jobs.
DispatcherStops(p) ==
  /\ disp[p].at # "idle"
  /\ disp' = [disp EXCEPT ![p] = NoCheck]
  /\ UNCHANGED <<entries, added, groupVars, fate, purge>>

-----------------------------------------------------------------------------
(* read_jobs and ack_job.                                                  *)

\* A mutant of CreateGroup: the group starts at "$", as the tests expect.
CreateGroupAtEnd ==
  /\ ~group
  /\ group' = TRUE
  /\ last' = added
  /\ UNCHANGED <<entries, added, read, fate, disp, purge>>

\* ensure_consumer_group: the group starts at "0", before every entry.
CreateGroup ==
  /\ ~group
  /\ group' = TRUE
  /\ UNCHANGED <<entries, added, last, read, fate, disp, purge>>

\* entries-read after a delivery.  It is the place of the entry among all
\* those ever added as long as none has gone.  Otherwise Redis, according to
\* its version and to where entries are missing, adds one to it, estimates
\* it as that place, or gives it up.
EntriesRead(next) ==
  IF entries = 1..added THEN {next}
  ELSE {next, Unknown} \cup (IF read = Unknown THEN {} ELSE {read + 1})

\* XREADGROUP ">": an answer of several entries is several of these.
Deliver ==
  LET next == Min(Undelivered) IN
  /\ group
  /\ Undelivered # {}
  /\ last' = next
  /\ read' \in EntriesRead(next)
  /\ fate' = [fate EXCEPT ![next] = "held"]
  /\ UNCHANGED <<entries, added, group, disp, purge>>

\* XACK and XDEL.
Ack(i) ==
  /\ fate[i] = "held"
  /\ fate' = [fate EXCEPT ![i] = "acked"]
  /\ entries' = entries \ {i}
  /\ UNCHANGED <<added, groupVars, disp, purge>>

\* The worker dies before XDEL; nothing claims what it was delivered.
WorkerDies(i) ==
  /\ fate[i] = "held"
  /\ fate' = [fate EXCEPT ![i] = "stranded"]
  /\ UNCHANGED <<entries, added, groupVars, disp, purge>>

-----------------------------------------------------------------------------
(* purge_undelivered.                                                      *)

PurgeScan ==
  /\ purge.at = "idle"
  /\ Undelivered # {}
  /\ purge' = [at |-> "scanned", ids |-> Undelivered]
  /\ UNCHANGED <<entries, added, groupVars, fate, disp>>

\* XDEL of what was scanned, including what has been delivered since.
PurgeDelete ==
  /\ purge.at = "scanned"
  /\ entries' = entries \ purge.ids
  /\ fate' = [i \in Jobs |-> IF i \in purge.ids /\ fate[i] = "queued"
                               THEN "purged" ELSE fate[i]]
  /\ purge' = NoPurge
  /\ UNCHANGED <<added, groupVars, disp>>

-----------------------------------------------------------------------------
Next ==
  \/ \E p \in Dispatchers : \/ \E n \in Counts : CheckLength(p, n)
                            \/ Admit(p) \/ Publish(p) \/ DispatcherStops(p)
  \/ CreateGroup \/ Deliver
  \/ \E i \in Jobs : Ack(i) \/ WorkerDies(i)
  \/ PurgeScan \/ PurgeDelete

Spec == Init /\ [][Next]_vars

\* Some worker keeps reading the stream; what it does with a job is its own
\* affair.
FairSpec == Spec /\ WF_vars(CreateGroup) /\ WF_vars(Deliver)

-----------------------------------------------------------------------------
(* Properties.                                                             *)

\* Every variable has its type; what is in the stream has been added, and the
\* group has not been delivered more than that.
TypeOK ==
  /\ entries \subseteq 1..added /\ added \in 0..MaxJobs
  /\ group \in BOOLEAN /\ last \in 0..added /\ read \in {Unknown} \cup 0..added
  /\ fate \in [Jobs -> Fate]
  /\ disp \in [Dispatchers -> [at : {"idle", "len", "publishing"}, count : Nat,
                               len : Nat, waiting : Nat, left : Nat]]
  /\ purge \in [at : {"idle", "scanned"}, ids : SUBSET Jobs]

\* What job_stream_pressure takes for the number of undelivered jobs.  As long
\* as entries-read is known, XLEN - entries-read is too low: at least by the
\* jobs delivered that are no longer there, as is every completed one, and at
\* most by all that have gone from the stream up to the last one delivered.
\* When it is nil, every entry counts: it is too high by the jobs that are in
\* hand or were stranded by their worker (queue.py:53-67).
DriftIsBounded ==
  LET gone == Cardinality((1..last) \ entries) IN
  IF read = Unknown
  THEN Cardinality(entries) - Cardinality(Undelivered) = Cardinality(Delivered \cap entries)
  ELSE Cardinality(Undelivered) - (Cardinality(entries) - read)
         \in Cardinality(Delivered \ entries) .. gone

\* A batch is refused only if, when its dispatcher looked, the jobs waiting and
\* its own exceeded the high-water mark, whatever is delivered, acknowledged
\* or purged between the two commands of the check.  With entries-read nil,
\* the jobs delivered and not acknowledged are counted as waiting.
RefusalsAreJustified ==
  [][\A p \in Dispatchers :
       disp[p].at = "len" /\ Pressure(p) + disp[p].count > HighWater
         => disp[p].waiting + (IF read = Unknown THEN disp[p].left ELSE 0)
              + disp[p].count > HighWater]_vars

\* A published job does not wait for ever: it is delivered, purged or
\* trimmed, even if it was published before the group existed.
EveryJobLeavesTheQueue ==
  \A i \in Jobs : fate[i] = "queued" ~> fate[i] # "queued"
=============================================================================
