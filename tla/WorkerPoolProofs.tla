--------------------------- MODULE WorkerPoolProofs ---------------------------
(***************************************************************************)
(* Proofs about WorkerPool, for any set of jobs, any specs of them and any *)
(* number of subprocesses: what a result that claims success stands for,   *)
(* what is left behind on disk and in hand, and that the worker implements *)
(* JobHandling.                                                            *)
(***************************************************************************)
EXTENDS WorkerPool, FiniteSetTheorems, TLAPS

Results == [success : BOOLEAN, chunks : Nat, parsed : {"no", "rows", "nothing", "raised"},
            entries : {"none", "found", "query_failed"}]

PoolTypes ==
  /\ TypeOK
  /\ stop \in BOOLEAN
  /\ session \in [Jobs -> BOOLEAN] /\ temp \in [Jobs -> BOOLEAN]
  /\ flagged \in [Jobs -> BOOLEAN]
  /\ out \in [Jobs -> Results]

\* What is true of one job and its session: no error before the device is
\* done with, no success before the result is built, and a run of the driver
\* that ended without an error has been through the whole session.
JobOK(j) ==
  /\ step[j] \in {"stream", "submitted", "built", "open"} => error[j] = "none"
  /\ step[j] \in {"stream", "submitted", "built", "open", "over"} => ~out[j].success
  /\ step[j] = "over" /\ error[j] = "none" => sent[j] = Total(j) /\ ~session[j]
  /\ out[j].success =>
       /\ sent[j] = Total(j) /\ ~session[j]
       /\ spec[j].driver = "cli" => ~flagged[j]
       /\ spec[j].kind = "backup" => out[j].chunks = Total(j)
  /\ temp[j] => \/ step[j] = "built"
                \/ error[j] = "escaped"
                \/ step[j] = "raised" /\ Broken

\* No more jobs are taken than there were slots, none runs without a process,
\* and none is left when the last process is lost.
PoolBounds ==
  /\ Cardinality(InPool) <= Concurrency
  /\ Cardinality(InHand) <= procs
  /\ procs = 0 => InPool = {}

PoolInv ==
  /\ PoolTypes
  /\ Cardinality(pending) <= Concurrency
  /\ PoolBounds
  /\ GracefulStopLeavesNothing
  /\ \A j \in Jobs : JobOK(j)

(* Sets of jobs are finite, so their sizes are numbers.                    *)
LEMMA PoolCounts ==
  ASSUME NEW S, S \subseteq Jobs
  PROVE  IsFiniteSet(S) /\ Cardinality(S) \in Nat
BY WorkerPoolAssumption, FS_Subset, FS_CardinalityType

LEMMA PoolSmaller ==
  ASSUME NEW T, T \subseteq Jobs, NEW S, S \subseteq T
  PROVE  /\ IsFiniteSet(S) /\ Cardinality(S) \in Nat
         /\ Cardinality(T) \in Nat /\ Cardinality(S) <= Cardinality(T)
BY PoolCounts, FS_Subset

(* What is to be sent is a number, and fixed with the spec.                *)
LEMMA TotalIsNat ==
  ASSUME spec \in Queues, NEW j \in Jobs
  PROVE  /\ Total(j) \in Nat
         /\ spec[j].driver \in {"cli", "netconf"}
         /\ UNCHANGED spec => Total(j)' = Total(j)
BY WorkerPoolAssumption DEF Total

(* A step that leaves a job and its session alone.                         *)
LEMMA JobUntouched ==
  ASSUME NEW j \in Jobs, JobOK(j), Broken => Broken', spec' = spec,
         step'[j] = step[j], session'[j] = session[j], temp'[j] = temp[j],
         sent'[j] = sent[j], flagged'[j] = flagged[j], error'[j] = error[j],
         out'[j] = out[j]
  PROVE  JobOK(j)'
BY DEF JobOK, Total

(* What the bounds count are jobs.                                         *)
LEMMA PoolSets ==
  /\ InPool \subseteq Jobs /\ InHand \subseteq InPool /\ Queued \subseteq Jobs
  /\ IsFiniteSet(InPool) /\ Cardinality(InPool) \in Nat
  /\ IsFiniteSet(InHand) /\ Cardinality(InHand) \in Nat
<1>1. InPool \subseteq Jobs /\ InHand \subseteq InPool /\ Queued \subseteq Jobs
  BY DEF InPool, InHand, Queued
<1> QED
  BY <1>1, PoolCounts

(* Fewer jobs in the pool and in hand keep the bounds.                     *)
LEMMA BoundsShrink ==
  ASSUME PoolInv, procs' = procs, InPool' \subseteq InPool, InHand' \subseteq InHand
  PROVE  PoolBounds'
<1>1. /\ Cardinality(InPool)' \in Nat /\ Cardinality(InPool') <= Cardinality(InPool)
      /\ Cardinality(InHand)' \in Nat /\ Cardinality(InHand') <= Cardinality(InHand)
  <2>1. InPool \subseteq Jobs /\ InHand \subseteq Jobs
    BY PoolSets
  <2> QED
    BY <2>1, PoolSmaller
<1>2. /\ Cardinality(InPool) \in Nat /\ Cardinality(InHand) \in Nat
      /\ procs \in Nat /\ Concurrency \in Nat
  BY PoolSets, WorkerPoolAssumption DEF PoolInv, PoolTypes, TypeOK
<1>3. PoolBounds
  BY DEF PoolInv
<1> QED
  BY <1>1, <1>2, <1>3 DEF PoolBounds

(* The loop's own steps: they move no job, and may forget ended futures.   *)
LEMMA LoopSteps ==
  ASSUME PoolInv, UNCHANGED <<spec, procs, jobVars>>, pending' \subseteq pending,
         ~Broken => InPool \subseteq pending', stop' \in BOOLEAN,
         loop' \in {"top", "full", "reading", "joining", "down"},
         loop' = "down" => InPool = {}
  PROVE  PoolInv'
<1>t. /\ spec \in Queues /\ pending \subseteq Jobs /\ step \in [Jobs -> Steps]
      /\ sent \in [Jobs -> Nat] /\ \A j \in Jobs : sent[j] =< Total(j)
      /\ error \in [Jobs -> {"none", "caught", "escaped"}]
  BY DEF PoolInv, PoolTypes, TypeOK
<1>u. UNCHANGED <<spec, procs, step, session, temp, sent, flagged, error, out>>
  BY DEF jobVars
<1>v. InPool' = InPool /\ InHand' = InHand /\ Broken' = Broken
  BY <1>u DEF InPool, InHand, Queued, Broken
<1>1. PoolTypes'
  BY <1>t, <1>u, <1>v DEF PoolInv, PoolTypes, TypeOK, Total
<1>2. Cardinality(pending)' <= Concurrency
  <2>1. IsFiniteSet(pending) /\ Cardinality(pending) \in Nat /\ Cardinality(pending) <= Concurrency
    BY <1>t, PoolCounts DEF PoolInv
  <2>2. Cardinality(pending') <= Cardinality(pending) /\ Cardinality(pending') \in Nat
    BY <1>t, <2>1, PoolCounts, FS_Subset
  <2> QED
    BY <2>1, <2>2, WorkerPoolAssumption
<1>3. GracefulStopLeavesNothing'
  BY <1>u DEF GracefulStopLeavesNothing, InPool
<1>4. \A j \in Jobs : JobOK(j)'
  BY <1>u, <1>v, JobUntouched DEF PoolInv
<1>5. PoolBounds'
  BY <1>u, <1>v, BoundsShrink
<1> QED
  BY <1>1, <1>2, <1>3, <1>4, <1>5 DEF PoolInv

\* The variables of the jobs keep their types and only j is concerned.
Alone(j) ==
  /\ step' \in [Jobs -> Steps] /\ session' \in [Jobs -> BOOLEAN] /\ temp' \in [Jobs -> BOOLEAN]
  /\ sent' \in [Jobs -> Nat] /\ flagged' \in [Jobs -> BOOLEAN]
  /\ error' \in [Jobs -> {"none", "caught", "escaped"}] /\ out' \in [Jobs -> Results]
  /\ sent'[j] =< Total(j)
  /\ \A k \in Jobs \ {j} :
       /\ step'[k] = step[k] /\ session'[k] = session[k] /\ temp'[k] = temp[k]
       /\ sent'[k] = sent[k] /\ flagged'[k] = flagged[k] /\ error'[k] = error[k]
       /\ out'[k] = out[k]

(* The steps of the subprocess that runs a job, one by one.                *)
LEMMA HandleKeepsJob ==
  ASSUME PoolInv, NEW j \in Jobs, Handle(j)
  PROVE  Alone(j) /\ JobOK(j)'
<1>t. /\ step \in [Jobs -> Steps] /\ sent \in [Jobs -> Nat] /\ sent[j] =< Total(j)
      /\ error \in [Jobs -> {"none", "caught", "escaped"}]
      /\ session \in [Jobs -> BOOLEAN] /\ temp \in [Jobs -> BOOLEAN]
      /\ flagged \in [Jobs -> BOOLEAN] /\ out \in [Jobs -> Results]
  BY DEF PoolInv, PoolTypes, TypeOK
<1>n. Total(j) \in Nat /\ spec[j].driver \in {"cli", "netconf"}
      /\ (UNCHANGED spec => Total(j)' = Total(j))
  BY TotalIsNat DEF PoolInv, PoolTypes, TypeOK
<1>o. JobOK(j) /\ out[j].success \in BOOLEAN
  BY <1>t DEF PoolInv, Results
<1>1. UNCHANGED <<spec, loop, pending, stop, procs>>
  BY DEF Handle, Refuse, Build, Open, Send, Close, Finish, Publish, PublishFails, Ack, poolVars
<1> USE <1>t
<1>2. CASE Refuse(j)
  <2>1. /\ step[j] = "submitted" /\ step' = [step EXCEPT ![j] = "finished"]
        /\ error' = [error EXCEPT ![j] = "escaped"]
        /\ UNCHANGED <<session, temp, sent, flagged, out>>
    BY <1>2 DEF Refuse, Failed, To
  <2>2. Alone(j)
    BY <2>1 DEF Alone, Steps
  <2> QED
    BY <1>o, <2>1, <2>2 DEF JobOK
<1>3. CASE Build(j)
  <2>1. /\ step[j] = "submitted" /\ UNCHANGED <<session, sent, flagged, out>>
        /\ temp' = [temp EXCEPT ![j] = spec[j].driver = "cli" /\ spec[j].platform = "custom"]
        /\ \/ step' = [step EXCEPT ![j] = "built"] /\ error' = error
           \/ /\ spec[j].driver = "netconf" /\ step' = [step EXCEPT ![j] = "over"]
              /\ error' = [error EXCEPT ![j] = "caught"]
           \/ /\ step' = [step EXCEPT ![j] = "finished"]
              /\ error' = [error EXCEPT ![j] = "escaped"]
    BY <1>3 DEF Build, Failed, Raise, To
  <2>2. Alone(j)
    <3>1. (spec[j].driver = "cli" /\ spec[j].platform = "custom") \in BOOLEAN
      OBVIOUS
    <3> QED
      BY <2>1, <3>1 DEF Alone, Steps
  <2>3. temp'[j] => spec[j].driver # "netconf"
    BY <2>1
  <2> QED
    BY <1>o, <2>1, <2>2, <2>3 DEF JobOK
<1>4. CASE Open(j)
  <2>1. /\ step[j] = "built" /\ UNCHANGED <<sent, flagged, out>>
        /\ temp' = [temp EXCEPT ![j] = FALSE]
        /\ \/ /\ step' = [step EXCEPT ![j] = "open"] /\ error' = error
              /\ session' = [session EXCEPT ![j] = TRUE]
           \/ /\ step' = [step EXCEPT ![j] = "over"] /\ session' = session
              /\ error' = [error EXCEPT ![j] = "caught"]
    BY <1>4 DEF Open, Raise, To, Unlinked
  <2>2. Alone(j)
    BY <2>1 DEF Alone, Steps
  <2> QED
    BY <1>o, <2>1, <2>2 DEF JobOK
<1>5. CASE Send(j)
  <2>1. /\ step[j] = "open" /\ sent[j] < Total(j) /\ UNCHANGED <<session, temp, out>>
        /\ \/ /\ sent' = [sent EXCEPT ![j] = sent[j] + 1] /\ UNCHANGED <<step, error>>
              /\ \E bad \in BOOLEAN : flagged' = [flagged EXCEPT ![j] = flagged[j] \/ bad]
           \/ /\ step' = [step EXCEPT ![j] = "over"] /\ UNCHANGED <<sent, flagged>>
              /\ error' = [error EXCEPT ![j] = "caught"]
    BY <1>5 DEF Send, Raise, To
  <2>2. Alone(j)
    BY <1>n, <2>1 DEF Alone, Steps
  <2> QED
    BY <1>o, <2>1, <2>2 DEF JobOK
<1>6. CASE Close(j)
  <2>1. /\ step[j] = "open" /\ sent[j] = Total(j) /\ UNCHANGED <<temp, sent, flagged, out>>
        /\ step' = [step EXCEPT ![j] = "over"]
        /\ \/ session' = [session EXCEPT ![j] = FALSE] /\ error' = error
           \/ session' = session /\ error' = [error EXCEPT ![j] = "caught"]
    BY <1>6 DEF Close, Raise, To
  <2>2. Alone(j)
    BY <2>1 DEF Alone, Steps
  <2> QED
    BY <1>1, <1>n, <1>o, <2>1, <2>2 DEF JobOK
<1>7. CASE Finish(j)
  <2>1. PICK parsed \in Parses(j) : \E entries \in Entries(j, parsed) :
          out' = [out EXCEPT ![j] =
            [success |-> Success(j), parsed |-> parsed, entries |-> entries,
             chunks |-> IF spec[j].kind = "backup" THEN sent[j] ELSE 0]]
    BY <1>7 DEF Finish
  <2>2. PICK entries \in Entries(j, parsed) :
          out' = [out EXCEPT ![j] =
            [success |-> Success(j), parsed |-> parsed, entries |-> entries,
             chunks |-> IF spec[j].kind = "backup" THEN sent[j] ELSE 0]]
    BY <2>1
  <2>3. /\ step[j] = "over" /\ step' = [step EXCEPT ![j] = "finished"]
        /\ UNCHANGED <<session, temp, sent, flagged, error>>
    BY <1>7 DEF Finish, To
  <2>4. /\ parsed \in {"no", "rows", "nothing", "raised"}
        /\ entries \in {"none", "found", "query_failed"}
        /\ Success(j) \in BOOLEAN
        /\ (IF spec[j].kind = "backup" THEN sent[j] ELSE 0) \in Nat
    BY DEF Parses, Entries, Success
  <2>5. out' \in [Jobs -> Results]
    BY <2>2, <2>4 DEF Results
  <2>6. Alone(j)
    BY <2>2, <2>3, <2>5 DEF Alone, Steps
  <2>7. /\ out'[j].success = Success(j)
        /\ spec[j].kind = "backup" => out'[j].chunks = sent[j]
    BY <2>2
  <2> QED
    BY <1>1, <1>n, <1>o, <2>3, <2>6, <2>7 DEF JobOK, Success
<1>8. CASE Publish(j) \/ PublishFails(j) \/ Ack(j)
  <2>1. /\ step[j] \in {"finished", "published"}
        /\ \E s \in {"published", "raised", "acked"} : step' = [step EXCEPT ![j] = s]
        /\ UNCHANGED <<session, temp, sent, flagged, error, out>>
    BY <1>8 DEF Publish, PublishFails, Ack, To
  <2>2. Alone(j)
    BY <2>1 DEF Alone, Steps
  <2> QED
    BY <1>1, <1>n, <1>o, <2>1, <2>2 DEF JobOK
<1> QED
  BY <1>2, <1>3, <1>4, <1>5, <1>6, <1>7, <1>8 DEF Handle

(* A job that is being handled is in the pool, and stays there or ends.    *)
LEMMA HandleStaysTaken ==
  ASSUME PoolInv, NEW j \in Jobs, Handle(j)
  PROVE  /\ step[j] \notin Ended \cup {"stream"} /\ step'[j] # "stream"
         /\ step'[j] # "submitted" /\ (step[j] = "submitted" => Idle)
<1>t. step \in [Jobs -> Steps]
  BY DEF PoolInv, PoolTypes, TypeOK
<1> QED
  BY <1>t
     DEF Handle, Refuse, Build, Open, Send, Close, Finish, Publish, PublishFails, Ack,
         To, Raise, Failed, Ended

LEMMA HandleSteps ==
  ASSUME PoolInv, NEW j \in Jobs, Handle(j)
  PROVE  PoolInv'
<1>1. /\ UNCHANGED <<spec, loop, pending, stop, procs>>
  BY DEF Handle, Refuse, Build, Open, Send, Close, Finish, Publish, PublishFails, Ack, poolVars
<1>2. Alone(j) /\ JobOK(j)'
  BY HandleKeepsJob
<1>3. /\ step[j] \notin Ended \cup {"stream"} /\ step'[j] # "stream"
      /\ step'[j] # "submitted" /\ (step[j] = "submitted" => Idle)
  BY HandleStaysTaken
<1>b. Broken' = Broken
  BY <1>1 DEF Broken
<1>4. \A k \in Jobs \ {j} : JobOK(k)'
  BY <1>1, <1>b, <1>2, JobUntouched DEF PoolInv, Alone
<1>5. InPool' \subseteq InPool
  BY <1>2, <1>3 DEF InPool, Alone
<1>6. \A k \in Jobs : sent'[k] =< Total(k)'
  BY <1>1, <1>2 DEF PoolInv, PoolTypes, TypeOK, Alone, Total
<1>7. PoolTypes'
  BY <1>1, <1>b, <1>2, <1>5, <1>6 DEF PoolInv, PoolTypes, TypeOK, Alone
<1>9. PoolBounds'
  <2>1. CASE step[j] # "submitted"
    <3>1. InHand' \subseteq InHand
      BY <1>2, <1>3, <2>1 DEF InHand, InPool, Queued, Alone
    <3> QED
      BY <1>1, <1>5, <3>1, BoundsShrink
  <2>2. CASE step[j] = "submitted"
    <3>1. InHand' \subseteq InHand \cup {j}
      BY <1>2 DEF InHand, InPool, Queued, Alone
    <3>2. Cardinality(InHand) < procs /\ procs \in Nat
      BY <1>3, <2>2 DEF Idle, PoolInv, PoolTypes, TypeOK
    <3>3. Cardinality(InHand') \in Nat /\ Cardinality(InHand') <= Cardinality(InHand) + 1
      <4>1. InHand \cup {j} \subseteq Jobs
        BY PoolSets
      <4>2. /\ Cardinality(InHand \cup {j}) \in Nat /\ Cardinality(InHand') \in Nat
            /\ Cardinality(InHand') <= Cardinality(InHand \cup {j})
        BY <3>1, <4>1, PoolSmaller
      <4>3. \/ Cardinality(InHand \cup {j}) = Cardinality(InHand)
            \/ Cardinality(InHand \cup {j}) = Cardinality(InHand) + 1
        BY PoolSets, FS_AddElement
      <4> QED
        BY <4>2, <4>3, PoolSets
    <3>4. Cardinality(InPool') <= Concurrency
      <4>1. Cardinality(InPool') <= Cardinality(InPool) /\ Cardinality(InPool') \in Nat
        BY <1>5, PoolSets, PoolSmaller
      <4> QED
        BY <4>1, PoolSets, WorkerPoolAssumption DEF PoolInv, PoolBounds
    <3>5. Cardinality(InHand') <= procs' /\ procs' # 0
      BY <1>1, <3>2, <3>3, PoolSets
    <3> QED
      BY <3>4, <3>5 DEF PoolBounds
  <2> QED
    BY <2>1, <2>2
<1>8. GracefulStopLeavesNothing'
  BY <1>1, <1>2, <1>3 DEF PoolInv, GracefulStopLeavesNothing, Alone
<1> QED
  BY <1>1, <1>2, <1>4, <1>7, <1>8, <1>9 DEF PoolInv

LEMMA InitPoolInv == Init => PoolInv
<1> SUFFICES ASSUME Init PROVE PoolInv
  OBVIOUS
<1>1. \A j \in Jobs : Total(j) \in Nat
  BY TotalIsNat DEF Init
<1>2. PoolTypes
  <2>1. InPool = {} /\ procs \in 0..Concurrency
    BY WorkerPoolAssumption DEF Init, InPool
  <2>2. out \in [Jobs -> Results]
    BY DEF Init, Results, NoResult
  <2>3. /\ step \in [Jobs -> Steps] /\ error \in [Jobs -> {"none", "caught", "escaped"}]
        /\ session \in [Jobs -> BOOLEAN] /\ temp \in [Jobs -> BOOLEAN]
        /\ flagged \in [Jobs -> BOOLEAN]
    BY DEF Init, Steps
  <2>4. sent \in [Jobs -> Nat] /\ \A j \in Jobs : sent[j] =< Total(j)
    BY <1>1 DEF Init
  <2>5. /\ spec \in Queues /\ loop \in {"top", "full", "reading", "joining", "down"}
        /\ pending \subseteq Jobs /\ stop \in BOOLEAN
    BY DEF Init
  <2> QED
    BY <2>1, <2>2, <2>3, <2>4, <2>5 DEF PoolTypes, TypeOK
<1>3. Cardinality(pending) <= Concurrency
  BY WorkerPoolAssumption, FS_EmptySet DEF Init
<1>4. PoolBounds
  <2>1. InPool = {} /\ InHand = {}
    BY DEF Init, InPool, InHand
  <2> QED
    BY <2>1, WorkerPoolAssumption, FS_EmptySet DEF Init, PoolBounds
<1> QED
  BY <1>2, <1>3, <1>4 DEF Init, PoolInv, GracefulStopLeavesNothing, JobOK, NoResult

(* read_jobs takes at most as many jobs as there are idle subprocesses.    *)
LEMMA ReadSteps == PoolInv /\ ReadJobs => PoolInv'
<1> SUFFICES ASSUME PoolInv, ReadJobs PROVE PoolInv'
  OBVIOUS
<1>1. PICK S \in SUBSET {j \in Jobs : step[j] = "stream"} :
        /\ Cardinality(S) =< Slots
        /\ step' = [j \in Jobs |-> IF j \in S THEN "submitted" ELSE step[j]]
        /\ pending' = pending \cup S
  BY DEF ReadJobs, Futures
<1>2. /\ loop' = "top" /\ UNCHANGED <<spec, stop, procs, session, temp, sent, flagged, error, out>>
      /\ ~Broken
  BY DEF ReadJobs
<1>s. /\ step \in [Jobs -> Steps] /\ pending \subseteq Jobs /\ InPool \subseteq pending
      /\ procs \in 0..Concurrency
  BY <1>2 DEF PoolInv, PoolTypes, TypeOK
<1>v. InPool' \subseteq pending' /\ InHand' \subseteq InHand /\ Broken' = Broken
  BY <1>1, <1>2, <1>s DEF InPool, InHand, Queued, Broken, Ended
<1>3. PoolTypes'
  <2>1. step' \in [Jobs -> Steps] /\ pending' \subseteq Jobs
    BY <1>1, <1>s DEF Steps
  <2> QED
    BY <1>2, <1>v, <2>1 DEF PoolInv, PoolTypes, TypeOK, Total
<1>4. Cardinality(pending') <= Concurrency
  <2>1. pending \subseteq Jobs /\ S \subseteq Jobs /\ pending \cap S \subseteq Jobs
    BY DEF PoolInv, PoolTypes, TypeOK
  <2>2. /\ IsFiniteSet(pending) /\ IsFiniteSet(S)
        /\ Cardinality(pending) \in Nat /\ Cardinality(S) \in Nat
        /\ Cardinality(pending \cap S) \in Nat
    BY <2>1, PoolCounts
  <2>3. Cardinality(pending') = Cardinality(pending) + Cardinality(S) - Cardinality(pending \cap S)
    BY <1>1, <2>2, FS_Union
  <2> QED
    BY <1>1, <2>2, <2>3, WorkerPoolAssumption DEF Slots
<1>5. GracefulStopLeavesNothing'
  BY <1>2 DEF GracefulStopLeavesNothing
<1>6. ASSUME NEW j \in Jobs PROVE JobOK(j)'
  BY <1>1, <1>2, <1>v DEF PoolInv, JobOK, Total
<1>7. PoolBounds'
  <2>1. /\ Cardinality(InPool') \in Nat /\ Cardinality(pending') \in Nat
        /\ Cardinality(InPool') <= Cardinality(pending')
    <3>1. pending' \subseteq Jobs
      BY <1>3 DEF PoolTypes, TypeOK
    <3> QED
      BY <1>v, <3>1, PoolSmaller
  <2>2. /\ Cardinality(InHand') \in Nat /\ Cardinality(InHand) \in Nat
        /\ Cardinality(InHand') <= Cardinality(InHand)
    <3>1. InHand \subseteq Jobs
      BY PoolSets
    <3> QED
      BY <1>v, <3>1, PoolSmaller
  <2>3. procs' = procs /\ procs # 0 /\ procs \in Nat
    BY <1>2, <1>s, WorkerPoolAssumption DEF Broken
  <2> QED
    BY <1>4, <2>1, <2>2, <2>3, WorkerPoolAssumption DEF PoolInv, PoolBounds
<1> QED
  BY <1>3, <1>4, <1>5, <1>6, <1>7 DEF PoolInv

\* Jobs that end without an answer, and nothing else: the pool may lose a
\* process meanwhile.
Loses ==
  /\ UNCHANGED <<spec, pending, stop, temp, sent, flagged, error, out>>
  /\ step' \in [Jobs -> Steps] /\ session' \in [Jobs -> BOOLEAN]
  /\ \A j \in Jobs :
       /\ session'[j] \in {session[j], FALSE}
       /\ \/ step'[j] = step[j]
          \/ step'[j] = "raised" /\ step[j] \notin Ended
          \/ step'[j] = "unacked" /\ step[j] = "published"

(* A loss keeps all but the bounds.  A job with a definition on disk is    *)
(* lost only from a subprocess that runs it, which breaks the pool.        *)
LEMMA LosesKeeps ==
  ASSUME PoolInv, Loses, procs' \in 0..Concurrency, Broken => Broken',
         loop' \in {"top", "full", "reading", "joining"} \/ loop' = loop,
         \A j \in Jobs : step'[j] # step[j] => step[j] = "stream" \/ Broken',
         PoolBounds'
  PROVE  PoolInv'
<1>1. InPool' \subseteq InPool
  BY DEF Loses, InPool, Ended
<1>2. PoolTypes'
  BY <1>1 DEF Loses, PoolInv, PoolTypes, TypeOK, Total
<1>3. ASSUME NEW j \in Jobs PROVE JobOK(j)'
  BY <1>3 DEF Loses, PoolInv, JobOK, Total, Ended
<1>4. GracefulStopLeavesNothing'
  BY DEF Loses, PoolInv, GracefulStopLeavesNothing, Ended
<1> QED
  BY <1>2, <1>3, <1>4 DEF Loses, PoolInv

(* A read whose submit raises, or whose answer is lost in part.            *)
LEMMA DropSteps ==
  ASSUME PoolInv, ReadBroken \/ \E j \in Jobs : ReadDrops(j)
  PROVE  PoolInv'
<1>t. /\ step \in [Jobs -> Steps] /\ session \in [Jobs -> BOOLEAN]
      /\ procs \in 0..Concurrency
  BY DEF PoolInv, PoolTypes, TypeOK
<1>1. PICK S \in SUBSET {j \in Jobs : step[j] = "stream"} :
        step' = [j \in Jobs |-> IF j \in S THEN "raised" ELSE step[j]]
  <2>1. CASE ReadBroken
    BY <2>1 DEF ReadBroken
  <2>2. ASSUME NEW k \in Jobs, ReadDrops(k)
        PROVE  \E S \in SUBSET {j \in Jobs : step[j] = "stream"} :
                 step' = [j \in Jobs |-> IF j \in S THEN "raised" ELSE step[j]]
    <3>1. /\ {k} \in SUBSET {j \in Jobs : step[j] = "stream"}
          /\ step' = [j \in Jobs |-> IF j \in {k} THEN "raised" ELSE step[j]]
      BY <2>2, <1>t DEF ReadDrops
    <3> QED
      BY <3>1
  <2> QED
    BY <2>1, <2>2
<1>2. /\ UNCHANGED <<spec, pending, stop, procs, session, temp, sent, flagged, error, out>>
      /\ loop' \in {"joining", "reading"}
  BY DEF ReadBroken, ReadDrops, poolVars
<1>3. Loses
  <2>1. step' \in [Jobs -> Steps]
    BY <1>1, <1>t DEF Steps
  <2> QED
    BY <1>1, <1>2, <1>t, <2>1 DEF Loses, Ended
<1>4. InPool' \subseteq InPool /\ InHand' \subseteq InHand
  BY <1>1, <1>t DEF InPool, InHand, Queued, Ended
<1>5. PoolBounds'
  BY <1>2, <1>4, BoundsShrink
<1>6. Broken' = Broken
  BY <1>2 DEF Broken
<1> QED
  BY <1>1, <1>2, <1>3, <1>5, <1>6, <1>t, LosesKeeps

(* The loss of a subprocess: what it had ends, or it had nothing and       *)
(* another was idle; the last one takes the calls not started with it.     *)
LEMMA DieSteps ==
  ASSUME PoolInv, SubprocessDies
  PROVE  PoolInv'
<1>t. /\ step \in [Jobs -> Steps] /\ session \in [Jobs -> BOOLEAN]
      /\ procs \in 0..Concurrency /\ procs > 0 /\ Concurrency \in Nat /\ procs' = procs - 1
      /\ UNCHANGED <<spec, loop, pending, stop, temp, sent, flagged, error, out>>
  BY WorkerPoolAssumption DEF PoolInv, PoolTypes, TypeOK, SubprocessDies
<1>1. PICK victim \in SUBSET InHand, lost \in SUBSET Queued :
        /\ Cardinality(victim) =< 1
        /\ victim = {} => Idle
        /\ procs = 1 => lost = Queued
        /\ step' = [j \in Jobs |-> IF j \in victim /\ step[j] = "published" THEN "unacked"
                                   ELSE IF j \in victim \cup lost THEN "raised" ELSE step[j]]
        /\ session' = [j \in Jobs |-> session[j] /\ j \notin victim]
  BY DEF SubprocessDies
<1>2. Broken' /\ procs' \in 0..Concurrency
  BY <1>t DEF Broken
<1>3. Loses
  <2>1. session' \in [Jobs -> BOOLEAN] /\ \A j \in Jobs : session'[j] \in {session[j], FALSE}
    BY <1>1, <1>t
  <2>2. step' \in [Jobs -> Steps]
    BY <1>1, <1>t DEF Steps
  <2>3. \A j \in Jobs : \/ step'[j] = step[j]
                        \/ step'[j] = "raised" /\ step[j] \notin Ended
                        \/ step'[j] = "unacked" /\ step[j] = "published"
    BY <1>1 DEF InPool, InHand, Queued, Ended
  <2> QED
    BY <1>t, <2>1, <2>2, <2>3 DEF Loses
<1>4. InPool' \subseteq InPool /\ InHand' \subseteq InHand \ victim
  BY <1>1, <1>t DEF InPool, InHand, Queued, Ended
<1>5. Cardinality(InHand') <= procs'
  <2>0. /\ IsFiniteSet(InHand) /\ Cardinality(InHand) \in Nat /\ Cardinality(InHand') \in Nat
        /\ Cardinality(InHand) <= procs
    <3>1. InHand' \subseteq InHand /\ InHand \subseteq Jobs
      BY <1>4, PoolSets
    <3> QED
      BY <3>1, PoolSets, PoolSmaller DEF PoolInv, PoolBounds
  <2>1. CASE victim = {}
    <3>1. Cardinality(InHand') <= Cardinality(InHand)
      BY <1>4, <2>0, FS_Subset
    <3>2. Cardinality(InHand) < procs
      BY <1>1, <2>1 DEF Idle
    <3> QED
      BY <1>t, <2>0, <3>1, <3>2
  <2>2. ASSUME NEW j \in victim PROVE Cardinality(InHand') <= procs'
    <3>1. j \in InHand /\ InHand' \subseteq InHand \ {j}
      BY <1>1, <1>4, <2>2
    <3>2. IsFiniteSet(InHand \ {j}) /\ Cardinality(InHand \ {j}) = Cardinality(InHand) - 1
      BY <2>0, <3>1, FS_RemoveElement
    <3>3. Cardinality(InHand') <= Cardinality(InHand \ {j})
      BY <3>1, <3>2, FS_Subset
    <3> QED
      BY <1>t, <2>0, <3>2, <3>3
  <2> QED
    BY <2>1, <2>2
<1>6. PoolBounds'
  <2>1. Cardinality(InPool') <= Concurrency
    <3>1. Cardinality(InPool') <= Cardinality(InPool) /\ Cardinality(InPool') \in Nat
      BY <1>4, PoolSets, PoolSmaller
    <3> QED
      BY <1>t, <3>1, PoolSets DEF PoolInv, PoolBounds
  <2>2. procs' = 0 => InPool' = {}
    <3> SUFFICES ASSUME procs' = 0 PROVE InPool' = {}
      OBVIOUS
    <3>0. InHand' \subseteq InHand /\ InHand \subseteq Jobs
      BY <1>4, PoolSets
    <3>1. IsFiniteSet(InHand') /\ Cardinality(InHand') = 0
      <4>1. IsFiniteSet(InHand') /\ Cardinality(InHand') \in Nat
        BY <3>0, PoolSmaller
      <4> QED
        BY <1>5, <4>1
    <3>2. InHand' = {}
      BY <3>1, FS_EmptySet
    <3>3. Queued' = {}
      <4>1. lost = Queued
        BY <1>1, <1>t
      <4> QED
        BY <1>1, <1>t, <4>1 DEF Queued
    <3> QED
      BY <3>2, <3>3 DEF InHand
  <2> QED
    BY <1>t, <1>5, <2>1, <2>2 DEF PoolBounds
<1> QED
  BY <1>2, <1>3, <1>6, <1>t, LosesKeeps

LEMMA StepPoolInv == PoolInv /\ [Next]_vars => PoolInv'
<1> SUFFICES ASSUME PoolInv, [Next]_vars PROVE PoolInv'
  OBVIOUS
<1>t. /\ loop \in {"top", "full", "reading", "joining", "down"} /\ stop \in BOOLEAN
      /\ ~Broken => InPool \subseteq pending
      /\ InPool \cap DoneJobs = {}
      /\ loop = "down" => InPool = {}
      /\ procs = 0 => InPool = {}
  BY DEF PoolInv, PoolTypes, TypeOK, PoolBounds, GracefulStopLeavesNothing, InPool, DoneJobs
<1>1. CASE Signal \/ UNCHANGED vars
  BY <1>1, <1>t, LoopSteps DEF Signal, vars, poolVars
<1>2. CASE LoopTop \/ WaitFull \/ ReadNothing
  BY <1>2, <1>t, LoopSteps DEF LoopTop, WaitFull, ReadNothing, FuturesDone
<1>3. CASE Join \/ JoinBroken
  <2>1. InPool = {}
    BY <1>3, <1>t DEF Join, Joined, JoinBroken
  <2> QED
    BY <1>3, <1>t, <2>1, LoopSteps DEF Join, JoinBroken
<1>4. CASE ReadJobs
  BY <1>4, ReadSteps
<1>5. CASE ReadBroken \/ \E j \in Jobs : ReadDrops(j)
  BY <1>5, DropSteps
<1>6. CASE SubprocessDies
  BY <1>6, DieSteps
<1>7. ASSUME NEW j \in Jobs, Handle(j) PROVE PoolInv'
  BY <1>7, HandleSteps
<1> QED
  BY <1>1, <1>2, <1>3, <1>4, <1>5, <1>6, <1>7 DEF Next, Loop

-----------------------------------------------------------------------------
(* Every variable has its type, no more is sent than there is to send, and *)
(* every job a subprocess has is among the loop's futures.                 *)
THEOREM PoolTypeCorrectness == Spec => []TypeOK
<1>1. PoolInv => TypeOK
  BY DEF PoolInv, PoolTypes
<1> QED
  BY <1>1, InitPoolInv, StepPoolInv, PTL DEF Spec

(* A result that claims success speaks for a whole session, whatever the   *)
(* device answers and whichever call raises.                               *)
THEOREM SuccessIsHonest == Spec => []SuccessMeansTheWholeSession
<1>1. PoolInv => SuccessMeansTheWholeSession
  BY DEF PoolInv, JobOK, SuccessMeansTheWholeSession
<1> QED
  BY <1>1, InitPoolInv, StepPoolInv, PTL DEF Spec

(* A platform definition stays on disk only for a driver whose constructor *)
(* raised or a process that was killed.                                    *)
THEOREM DefinitionsDoNotPileUp == Spec => []DefinitionsAreRemoved
<1>1. PoolInv => DefinitionsAreRemoved
  BY DEF PoolInv, JobOK, DefinitionsAreRemoved
<1> QED
  BY <1>1, InitPoolInv, StepPoolInv, PTL DEF Spec

(* A worker that has ended, on a signal or by a broken pool, leaves no job *)
(* it has taken unfinished.                                                *)
THEOREM GracefulStopIsClean == Spec => []GracefulStopLeavesNothing
<1>1. PoolInv => GracefulStopLeavesNothing
  BY DEF PoolInv
<1> QED
  BY <1>1, InitPoolInv, StepPoolInv, PTL DEF Spec

-----------------------------------------------------------------------------
(* The worker implements JobHandling.                                      *)

(* The FiniteSets that JobHandling extends is the one WorkerPool extends.  *)
LEMMA PoolSameCardinality == \A S : Handling!Cardinality(S) = Cardinality(S)
BY DEF Handling!Cardinality, Cardinality

LEMMA PoolInIs == \A s : Handling!In(s) = {j \in Jobs : Handled(j) = s}
BY DEF Handling!In

(* A step that moves the jobs of one set, and those alone, is a Move.      *)
LEMMA PoolMoveIs ==
  ASSUME NEW S \in SUBSET Jobs, NEW to,
         \A j \in S : Handled(j)' = to,
         \A j \in Jobs \ S : Handled(j)' = Handled(j)
  PROVE  Handling!Move(S, to)
BY DEF Handling!Move

LEMMA PoolStutters ==
  ASSUME \A j \in Jobs : Handled(j)' = Handled(j)
  PROVE  UNCHANGED [j \in Jobs |-> Handled(j)]
OBVIOUS

LEMMA StepImplements ==
  PoolInv /\ [Next]_vars => [Handling!Next]_([j \in Jobs |-> Handled(j)])
<1> SUFFICES ASSUME PoolInv, [Next]_vars
             PROVE  [Handling!Next]_([j \in Jobs |-> Handled(j)])
  OBVIOUS
<1>t. /\ step \in [Jobs -> Steps] /\ pending \subseteq Jobs
      /\ ~Broken => InPool \subseteq pending
      /\ Cardinality(pending) <= Concurrency
  BY DEF PoolInv, PoolTypes, TypeOK
<1>1. CASE UNCHANGED step
  BY <1>1, PoolStutters DEF Handled
<1>2. CASE Signal \/ LoopTop \/ WaitFull \/ ReadNothing \/ Join \/ JoinBroken \/ UNCHANGED vars
  BY <1>1, <1>2 DEF Signal, LoopTop, WaitFull, ReadNothing, Join, JoinBroken, vars, jobVars
<1>3. CASE ReadJobs
  <2>1. PICK S \in SUBSET {j \in Jobs : step[j] = "stream"} :
          /\ Cardinality(S) =< Slots
          /\ step' = [j \in Jobs |-> IF j \in S THEN "submitted" ELSE step[j]]
    BY <1>3 DEF ReadJobs
  <2>2. CASE S = {}
    BY <1>t, <2>1, <2>2, PoolStutters DEF Handled
  <2>3. CASE S # {}
    <3>1. S \in (SUBSET Handling!In("waiting")) \ {{}}
      BY <2>1, <2>3, PoolInIs DEF Handled
    <3>2. Handling!Move(S, "held")
      <4>1. \A j \in S : Handled(j)' = "held"
        BY <2>1 DEF Handled
      <4>2. \A j \in Jobs \ S : Handled(j)' = Handled(j)
        BY <2>1 DEF Handled
      <4> QED
        BY <2>1, <4>1, <4>2, PoolMoveIs
    <3>3. Handling!In("held") \cup S \subseteq pending \cup S
      <4>1. Handling!In("held") \subseteq InPool
        BY PoolInIs DEF Handled, InPool, Ended
      <4> QED
        BY <1>3, <1>t, <4>1 DEF ReadJobs
    <3>4. Cardinality(Handling!In("held") \cup S) =< Concurrency
      <4>1. S \subseteq Jobs /\ pending \cap S \subseteq Jobs /\ pending \cup S \subseteq Jobs
            /\ Handling!In("held") \cup S \subseteq Jobs
        BY <1>t, <2>1, <3>3
      <4>2. /\ IsFiniteSet(pending) /\ IsFiniteSet(S) /\ IsFiniteSet(pending \cup S)
            /\ Cardinality(pending) \in Nat /\ Cardinality(S) \in Nat
            /\ Cardinality(pending \cap S) \in Nat /\ Cardinality(pending \cup S) \in Nat
            /\ Cardinality(Handling!In("held") \cup S) \in Nat
        BY <1>t, <4>1, PoolCounts
      <4>3. Cardinality(pending \cup S)
              = Cardinality(pending) + Cardinality(S) - Cardinality(pending \cap S)
        BY <4>2, FS_Union
      <4>4. Cardinality(Handling!In("held") \cup S) <= Cardinality(pending \cup S)
        BY <3>3, <4>2, FS_Subset
      <4> QED
        BY <2>1, <4>2, <4>3, <4>4, WorkerPoolAssumption DEF Slots
    <3> QED
      BY <3>1, <3>2, <3>4, PoolSameCardinality DEF Handling!Next, Handling!Take
  <2> QED
    BY <2>2, <2>3
<1>4. CASE ReadBroken
  <2>1. PICK S \in (SUBSET {j \in Jobs : step[j] = "stream"}) \ {{}} :
          step' = [j \in Jobs |-> IF j \in S THEN "raised" ELSE step[j]]
    BY <1>4 DEF ReadBroken
  <2>2. S \in (SUBSET Handling!In("waiting")) \ {{}}
    BY <2>1, PoolInIs DEF Handled
  <2>3. \A j \in S : Handled(j)' = "lost"
    BY <2>1 DEF Handled
  <2>4. \A j \in Jobs \ S : Handled(j)' = Handled(j)
    BY <2>1 DEF Handled
  <2>5. Handling!Move(S, "lost")
    BY <2>1, <2>3, <2>4, PoolMoveIs
  <2> QED
    BY <2>2, <2>5 DEF Handling!Next
<1>5. ASSUME NEW j \in Jobs, ReadDrops(j)
      PROVE  [Handling!Next]_([k \in Jobs |-> Handled(k)])
  <2>1. step[j] = "stream" /\ step' = [step EXCEPT ![j] = "raised"]
    BY <1>5 DEF ReadDrops
  <2>2. \A k \in {j} : Handled(k)' = "lost"
    BY <1>t, <2>1 DEF Handled
  <2>3. \A k \in Jobs \ {j} : Handled(k)' = Handled(k)
    BY <1>t, <2>1 DEF Handled
  <2>4. Handling!Move({j}, "lost")
    BY <2>2, <2>3, PoolMoveIs
  <2>5. {j} \in (SUBSET Handling!In("waiting")) \ {{}}
    BY <2>1, PoolInIs DEF Handled
  <2> QED
    BY <2>4, <2>5 DEF Handling!Next
<1>6. CASE SubprocessDies
  <2>1. PICK victim \in SUBSET InHand, lost \in SUBSET Queued :
          step' = [j \in Jobs |-> IF j \in victim /\ step[j] = "published" THEN "unacked"
                                  ELSE IF j \in victim \cup lost THEN "raised" ELSE step[j]]
    BY <1>6 DEF SubprocessDies
  <2>2. PICK S \in SUBSET Jobs :
          S = {j \in Jobs : j \in victim \cup lost /\ step[j] # "published"}
    OBVIOUS
  <2>3. \A j \in S : Handled(j)' = "lost" /\ Handled(j) = "held"
    BY <2>1, <2>2 DEF Handled, InPool, InHand, Queued, Ended
  <2>4. \A j \in Jobs \ S : Handled(j)' = Handled(j)
    <3>1. \A j \in Jobs : j \in lost => step[j] = "submitted"
      BY <2>1 DEF Queued
    <3> QED
      BY <1>t, <2>1, <2>2, <3>1 DEF Handled
  <2>5. CASE S = {}
    BY <2>4, <2>5, PoolStutters
  <2>6. CASE S # {}
    <3>1. S \in (SUBSET Handling!In("held")) \ {{}}
      BY <2>3, <2>6, PoolInIs
    <3>2. Handling!Move(S, "lost")
      BY <2>3, <2>4, PoolMoveIs
    <3> QED
      BY <3>1, <3>2 DEF Handling!Next
  <2> QED
    BY <2>5, <2>6
<1>7. ASSUME NEW j \in Jobs, Handle(j)
      PROVE  [Handling!Next]_([k \in Jobs |-> Handled(k)])
  <2>1. \A k \in Jobs \ {j} : Handled(k)' = Handled(k)
    BY <1>7, HandleKeepsJob DEF Alone, Handled
  <2>2. CASE Handled(j)' = Handled(j)
    BY <2>1, <2>2, PoolStutters
  <2>3. CASE Publish(j)
    <3>1. Handled(j) = "held" /\ Handled(j)' = "answered"
      BY <1>t, <2>3 DEF Publish, To, Handled
    <3>2. Handling!Move({j}, "answered")
      BY <2>1, <3>1, PoolMoveIs
    <3>3. j \in Handling!In("held")
      BY <3>1, PoolInIs
    <3> QED
      BY <3>2, <3>3 DEF Handling!Next, Handling!Answer
  <2>4. CASE PublishFails(j)
    <3>1. Handled(j) = "held" /\ Handled(j)' = "lost"
      BY <1>t, <2>4 DEF PublishFails, To, Handled
    <3>2. Handling!Move({j}, "lost")
      BY <2>1, <3>1, PoolMoveIs
    <3>3. {j} \in (SUBSET Handling!In("held")) \ {{}}
      BY <3>1, PoolInIs
    <3> QED
      BY <3>2, <3>3 DEF Handling!Next
  <2>5. CASE \/ Refuse(j) \/ Build(j) \/ Open(j) \/ Send(j) \/ Close(j) \/ Finish(j)
             \/ Ack(j)
    <3>1. Handled(j)' = Handled(j)
      BY <1>t, <2>5 DEF Refuse, Build, Open, Send, Close, Finish, Ack, To, Raise, Failed, Handled
    <3> QED
      BY <2>2, <3>1
  <2> QED
    BY <1>7, <2>3, <2>4, <2>5 DEF Handle
<1> QED
  BY <1>1, <1>2, <1>3, <1>4, <1>5, <1>6, <1>7 DEF Next, Loop

(* The worker keeps the account of JobHandling: with any number of jobs    *)
(* and subprocesses, a job is taken once and answered at most once, and    *)
(* never more jobs are held than there are subprocesses.                   *)
THEOREM PoolImplementsHandling == Spec => ImplementsHandling
<1>1. Init => Handling!Init
  BY DEF Init, Handling!Init, Handled
<1>2. PoolInv /\ [Next]_vars => [Handling!Next]_([j \in Jobs |-> Handled(j)])
  BY StepImplements
<1> QED
  BY <1>1, <1>2, InitPoolInv, StepPoolInv, PTL DEF Spec, ImplementsHandling, Handling!Spec
=============================================================================
