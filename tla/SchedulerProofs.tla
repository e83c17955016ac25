--------------------------- MODULE SchedulerProofs ---------------------------
(***************************************************************************)
(* Proofs about Scheduler, for any number of instances and schedules, any  *)
(* crons, any horizon and any edits: as long as no connection is lost and  *)
(* no tick fails after it fired, the advisory lock keeps the instances     *)
(* from firing a slot twice.                                               *)
(***************************************************************************)
EXTENDS Scheduler, TLAPS

-----------------------------------------------------------------------------
(* Types, in the shape that a step needs to preserve them.                 *)

Reads      == UNION {[D -> Rows] : D \in SUBSET Schedules}
TickRecord == [at : {"asleep", "firing"}, t : 0..Horizon, read : Reads,
               todo : SUBSET Schedules, done : SUBSET Schedules]
Firing     == [slot : 1..Horizon, at : 1..Horizon]

RequestIsTyped ==
  web # NoRequest =>
    /\ web.s \in Schedules /\ web.old \in Rows
    /\ web.op \in {"update", "skip", "delete"}
    /\ web.op = "update" => web.cron \in Crons /\ web.enabled \in BOOLEAN

\* A tick that has dealt with a schedule it must move can compute its next
\* slot: the others ended it.
DoneHaveNextFire ==
  \A i \in Instances : \A s \in tick[i].done :
    s \in Reached(tick[i]) => tick[i].read[s].cron # Invalid

SchedulerTypes ==
  /\ now \in 0..Horizon
  /\ row \in [Schedules -> Rows]
  /\ lock \in up \cup {Nobody}
  /\ up \subseteq Instances /\ have \subseteq up
  /\ tick \in [Instances -> TickRecord]
  /\ \A i \in Instances : tick[i].todo \cup tick[i].done \subseteq DOMAIN tick[i].read
  /\ fired \in [Schedules -> Seq(Firing)]
  /\ edits \in 0..MaxEdits /\ faults \in 0..MaxFaults /\ broken \in BOOLEAN
  /\ RequestIsTyped
  /\ DoneHaveNextFire

-----------------------------------------------------------------------------
(* Leadership, and what the leader knows.                                  *)

\* Only an instance that believes it leads is in a tick, which began in the
\* past.
TicksAreOfLeaders ==
  \A i \in Instances : tick[i].at = "firing" => i \in have /\ tick[i].t <= now

\* Who believes to lead holds the lock.
OneLeader == \A i \in have : lock = i

\* Every firing of s so far was before n, NULL standing for no slot at all.
AllBefore(s, n) == n = Null \/ \A k \in 1..Len(fired[s]) : fired[s][k].at < n

\* No firing is later than the tick that is firing, if there is one.
FiringsArePast ==
  \A s \in Schedules : \A k \in 1..Len(fired[s]) :
    /\ fired[s][k].at <= now
    /\ \A i \in Instances : tick[i].at = "firing" => fired[s][k].at <= tick[i].t

\* The slots a tick has still to fire are later than all firings so far.
TodoIsUnfired ==
  \A i \in Instances : tick[i].at = "firing" =>
    \A s \in tick[i].todo : AllBefore(s, tick[i].read[s].next)

\* So is the stored slot, but for the schedules whose new slot the tick in
\* progress has not committed.
StoredIsUnfired ==
  \A s \in Schedules :
    \/ \E i \in Instances : tick[i].at = "firing" /\ s \in tick[i].done \cap Reached(tick[i])
    \/ AllBefore(s, row[s].next)

Unbroken ==
  OneLeader /\ FiringsArePast /\ TodoIsUnfired /\ StoredIsUnfired /\ FiringsAdvance

SchedulerInv == SchedulerTypes /\ TicksAreOfLeaders /\ (~broken => Unbroken)

-----------------------------------------------------------------------------
(* Lemmas.                                                                 *)

\* _next_fire of a cron that croniter accepts is later than t.
LEMMA NextFireIsLater ==
  ASSUME NEW c \in Nat, c # Invalid, NEW t \in Nat
  PROVE  NextFire(c, t) \in Nat /\ NextFire(c, t) > t
BY DEF NextFire, Invalid

LEMMA AsleepType == Asleep \in TickRecord
<1>1. <<>> \in [{} -> Rows]
  OBVIOUS
<1>2. <<>> \in Reads
  BY <1>1 DEF Reads
<1> QED
  BY <1>2, SchedulerAssumption DEF Asleep, TickRecord

LEMMA ReadType ==
  ASSUME NEW f \in Reads
  PROVE  DOMAIN f \subseteq Schedules /\ \A s \in DOMAIN f : f[s] \in Rows
BY DEF Reads

LEMMA TypesImplyTypeOK == SchedulerTypes => TypeOK
<1> SUFFICES ASSUME SchedulerTypes PROVE TypeOK
  OBVIOUS
<1>1. ASSUME NEW i \in Instances
      PROVE  /\ tick[i].at \in {"asleep", "firing"} /\ tick[i].t \in 0..Horizon
             /\ tick[i].todo \cup tick[i].done \subseteq DOMAIN tick[i].read
             /\ \A s \in DOMAIN tick[i].read : tick[i].read[s] \in Rows
  <2>1. tick[i] \in TickRecord
    BY DEF SchedulerTypes
  <2> QED
    BY <2>1, ReadType DEF SchedulerTypes, TickRecord
<1> QED
  BY <1>1 DEF SchedulerTypes, TypeOK, Firing

LEMMA InitSchedulerInv == Init => SchedulerInv
<1> SUFFICES ASSUME Init PROVE SchedulerInv
  OBVIOUS
<1> USE SchedulerAssumption
<1>1. row \in [Schedules -> Rows]
  <2> DEFINE New == [is : {"live"}, cron : Crons \ {Invalid}, enabled : {TRUE}, job : {TRUE},
                     skip : {FALSE}, next : {Null}]
  <2>1. ASSUME NEW x \in New PROVE x \in Rows
    <3>1. /\ x = [is |-> x.is, cron |-> x.cron, enabled |-> x.enabled, job |-> x.job,
                  skip |-> x.skip, next |-> x.next]
          /\ x.is = "live" /\ x.cron \in Crons /\ x.enabled \in BOOLEAN /\ x.job \in BOOLEAN
          /\ x.skip \in BOOLEAN /\ x.next = 0
      BY DEF Null
    <3> QED
      BY <3>1 DEF Rows
  <2>2. row \in [Schedules -> New]
    BY DEF Init
  <2> HIDE DEF New
  <2> QED
    BY <2>1, <2>2
<1>2. tick \in [Instances -> TickRecord]
  BY AsleepType DEF Init
<1>3. fired \in [Schedules -> Seq(Firing)] /\ \A s \in Schedules : fired[s] = <<>>
  BY DEF Init
<1>4. \A i \in Instances : tick[i].at = "asleep" /\ tick[i].todo = {} /\ tick[i].done = {}
  BY DEF Init, Asleep
<1>5. SchedulerTypes
  <2>1. RequestIsTyped /\ DoneHaveNextFire
    BY <1>4 DEF Init, RequestIsTyped, DoneHaveNextFire
  <2>2. now \in 0..Horizon /\ edits \in 0..MaxEdits /\ faults \in 0..MaxFaults
    BY DEF Init
  <2> QED
    BY <1>1, <1>2, <1>3, <1>4, <2>1, <2>2 DEF Init, SchedulerTypes
<1>6. TicksAreOfLeaders /\ OneLeader /\ TodoIsUnfired
  BY <1>4 DEF Init, TicksAreOfLeaders, OneLeader, TodoIsUnfired
<1>7. FiringsArePast /\ StoredIsUnfired /\ FiringsAdvance
  BY <1>3, <1>4 DEF FiringsArePast, StoredIsUnfired, AllBefore, FiringsAdvance
<1> QED
  BY <1>5, <1>6, <1>7 DEF SchedulerInv, Unbroken

-----------------------------------------------------------------------------
(* Types.                                                                  *)

\* The part of SchedulerTypes about one tick.
TickIsTyped(k) ==
  /\ k \in TickRecord
  /\ k.todo \cup k.done \subseteq DOMAIN k.read
  /\ \A s \in k.done : s \in Reached(k) => k.read[s].cron # Invalid

LEMMA TicksAreTyped ==
  SchedulerTypes => \A i \in Instances : TickIsTyped(tick[i])
BY DEF SchedulerTypes, DoneHaveNextFire, TickIsTyped

\* What a step does to the ticks: it replaces one.
LEMMA OneTickChanges ==
  ASSUME SchedulerTypes, NEW i \in Instances, NEW k, TickIsTyped(k),
         tick' = [tick EXCEPT ![i] = k]
  PROVE  /\ tick' \in [Instances -> TickRecord]
         /\ \A j \in Instances : tick'[j].todo \cup tick'[j].done \subseteq DOMAIN tick'[j].read
         /\ DoneHaveNextFire'
         /\ tick'[i] = k /\ \A j \in Instances : j # i => tick'[j] = tick[j]
<1>1. tick \in [Instances -> TickRecord] /\ k \in TickRecord
  BY DEF SchedulerTypes, TickIsTyped
<1>2. /\ tick' \in [Instances -> TickRecord]
      /\ tick'[i] = k /\ \A j \in Instances : j # i => tick'[j] = tick[j]
  BY <1>1
<1>3. \A j \in Instances : TickIsTyped(tick'[j])
  BY <1>2, TicksAreTyped
<1> QED
  BY <1>2, <1>3 DEF TickIsTyped, DoneHaveNextFire, Reached

\* The ticks an instance can be in after one of its steps.
LEMMA AsleepIsTyped == TickIsTyped(Asleep)
BY AsleepType DEF TickIsTyped, Asleep

LEMMA BegunIsTyped ==
  ASSUME SchedulerTypes, NEW due \in SUBSET Schedules
  PROVE  TickIsTyped([at |-> "firing", t |-> now, todo |-> due, done |-> {},
                      read |-> [s \in due |-> row[s]]])
<1>1. [s \in due |-> row[s]] \in [due -> Rows]
  BY DEF SchedulerTypes
<1>2. [s \in due |-> row[s]] \in Reads
  BY <1>1 DEF Reads
<1> QED
  BY <1>2 DEF TickIsTyped, TickRecord, SchedulerTypes

\* A row written by a tick, or by a web request, is a row.
LEMMA WrittenIsRow ==
  ASSUME NEW x \in Rows, NEW old \in Rows, old.cron # Invalid, NEW t \in Nat
  PROVE  /\ Written(x, old, t) \in Rows
         /\ Written(x, old, t).next = NextFire(old.cron, t)
<1>1. NextFire(old.cron, t) \in Nat
  BY NextFireIsLater, SchedulerAssumption DEF Rows
<1> QED
  BY <1>1 DEF Written, Rows

LEMMA UpdatedIsRow ==
  ASSUME RequestIsTyped, web # NoRequest, web.op = "update", NEW x \in Rows
  PROVE  Updated(x) \in Rows /\ Updated(x).next \in {x.next, Null}
BY DEF Updated, RequestIsTyped, Rows, Null

\* The tick of TickSchedule and that of TickAborts.
LEMMA ScheduledTick ==
  ASSUME SchedulerTypes, NEW i \in Instances, NEW s \in tick[i].todo, TickSchedule(i, s)
  PROVE  \E k : /\ tick' = [tick EXCEPT ![i] = k] /\ TickIsTyped(k)
                /\ k.at = "firing" /\ k.t = tick[i].t /\ k.read = tick[i].read
                /\ k.todo = tick[i].todo \ {s} /\ k.done = tick[i].done \cup {s}
<1> DEFINE k == [tick[i] EXCEPT !.todo = @ \ {s}, !.done = @ \cup {s}]
<1>1. TickIsTyped(tick[i]) /\ tick[i].at = "firing" /\ tick \in [Instances -> TickRecord]
  BY TicksAreTyped DEF TickSchedule, SchedulerTypes
<1>2. tick' = [tick EXCEPT ![i] = k]
  BY <1>1 DEF TickSchedule
<1>3. /\ k \in TickRecord /\ k.at = "firing" /\ k.t = tick[i].t /\ k.read = tick[i].read
      /\ k.todo = tick[i].todo \ {s} /\ k.done = tick[i].done \cup {s}
  BY <1>1 DEF TickIsTyped, TickRecord
<1>4. s \in Reached(tick[i]) => tick[i].read[s].cron # Invalid
  BY DEF TickSchedule
<1> HIDE DEF k
<1>5. TickIsTyped(k)
  BY <1>1, <1>3, <1>4 DEF TickIsTyped, Reached
<1> QED
  BY <1>2, <1>3, <1>5

LEMMA AbortedTick ==
  ASSUME SchedulerTypes, NEW i \in Instances, NEW s \in tick[i].todo, TickAborts(i, s)
  PROVE  \E k : /\ tick' = [tick EXCEPT ![i] = k] /\ TickIsTyped(k)
                /\ k.at = "firing" /\ k.t = tick[i].t /\ k.read = tick[i].read
                /\ k.todo = {} /\ k.done = tick[i].done
<1> DEFINE k == [tick[i] EXCEPT !.todo = {}]
<1>1. TickIsTyped(tick[i]) /\ tick[i].at = "firing" /\ tick \in [Instances -> TickRecord]
  BY TicksAreTyped DEF TickAborts, SchedulerTypes
<1>2. tick' = [tick EXCEPT ![i] = k]
  BY <1>1 DEF TickAborts
<1>3. /\ k \in TickRecord /\ k.at = "firing" /\ k.t = tick[i].t /\ k.read = tick[i].read
      /\ k.todo = {} /\ k.done = tick[i].done
  BY <1>1 DEF TickIsTyped, TickRecord
<1> HIDE DEF k
<1>4. TickIsTyped(k)
  BY <1>1, <1>3 DEF TickIsTyped, Reached
<1> QED
  BY <1>2, <1>3, <1>4

\* A firing is of a slot that the tick has reached.
LEMMA FiringType ==
  ASSUME SchedulerTypes, NEW i \in Instances, NEW s \in tick[i].todo, TickSchedule(i, s)
  PROVE  /\ fired' \in [Schedules -> Seq(Firing)] /\ s \in Schedules
         /\ \/ fired' = fired
            \/ /\ tick[i].read[s].next \in 1..tick[i].t
               /\ fired' = [fired EXCEPT ![s] =
                              Append(@, [slot |-> tick[i].read[s].next, at |-> tick[i].t])]
<1>1. /\ tick[i] \in TickRecord /\ fired \in [Schedules -> Seq(Firing)]
  BY DEF SchedulerTypes
<1>2. s \in Schedules /\ tick[i].t \in 0..Horizon /\ Horizon \in Nat
  BY <1>1, SchedulerAssumption DEF TickRecord
<1>3. CASE fired' = fired
  BY <1>1, <1>2, <1>3
<1>4. CASE /\ tick[i].read[s].next \in 1..tick[i].t
           /\ fired' = [fired EXCEPT ![s] =
                          Append(@, [slot |-> tick[i].read[s].next, at |-> tick[i].t])]
  <2>1. [slot |-> tick[i].read[s].next, at |-> tick[i].t] \in Firing
    BY <1>2, <1>4 DEF Firing
  <2>2. Append(fired[s], [slot |-> tick[i].read[s].next, at |-> tick[i].t]) \in Seq(Firing)
    BY <1>1, <1>2, <2>1
  <2> QED
    BY <1>1, <1>2, <1>4, <2>2
<1> QED
  BY <1>3, <1>4 DEF TickSchedule

\* Whoever leaves the ticks and the request alone keeps their types.
LEMMA OthersKeepTheirTypes ==
  ASSUME SchedulerTypes
  PROVE  /\ tick' = tick =>
              /\ tick' \in [Instances -> TickRecord]
              /\ \A i \in Instances : tick'[i].todo \cup tick'[i].done \subseteq DOMAIN tick'[i].read
              /\ DoneHaveNextFire'
         /\ web' = web => RequestIsTyped'
BY DEF SchedulerTypes, DoneHaveNextFire, Reached, RequestIsTyped

\* What the instances do.
LEMMA InstanceKeepsTypes ==
  ASSUME SchedulerTypes, NEW i \in Instances,
         \/ TickBegin(i) \/ TickCommit(i) \/ TickFails(i)
         \/ \E s \in tick[i].todo : TickSchedule(i, s) \/ TickAborts(i, s)
         \/ Stop(i) \/ Start(i) \/ ConnectionLost(i)
  PROVE  SchedulerTypes'
<1> USE SchedulerAssumption
<1>0. /\ row \in [Schedules -> Rows] /\ fired \in [Schedules -> Seq(Firing)]
      /\ up \subseteq Instances /\ have \subseteq up /\ lock \in up \cup {Nobody}
      /\ faults \in 0..MaxFaults /\ faults \in Nat
  BY DEF SchedulerTypes
<1>1. CASE TickBegin(i)
  <2>1. PICK due \in SUBSET Schedules :
          tick' = [tick EXCEPT ![i] = [at |-> "firing", t |-> now, todo |-> due, done |-> {},
                                       read |-> [s \in due |-> row[s]]]]
    BY <1>1 DEF TickBegin, Live
  <2>2. i \in up /\ lock' \in up \cup {Nobody} /\ have' \subseteq up
    BY <1>0, <1>1 DEF TickBegin, MayTick
  <2> QED
    BY <1>1, <2>1, <2>2, BegunIsTyped, OneTickChanges, OthersKeepTheirTypes
       DEF TickBegin, SchedulerTypes
<1>2. CASE TickCommit(i)
  <2>1. TickIsTyped(tick[i])
    BY TicksAreTyped
  <2>2. tick' = [tick EXCEPT ![i] = Asleep]
    BY <1>2 DEF TickCommit
  <2>3. ASSUME NEW s \in Schedules PROVE row'[s] \in Rows
    <3>1. CASE s \in tick[i].done \cap Reached(tick[i])
      <4>1. tick[i].read[s] \in Rows /\ tick[i].read[s].cron # Invalid /\ tick[i].t \in Nat
        BY <2>1, <3>1, ReadType DEF TickIsTyped, TickRecord
      <4>2. row'[s] = Written(row[s], tick[i].read[s], tick[i].t)
        BY <1>2, <3>1 DEF TickCommit
      <4> QED
        BY <1>0, <4>1, <4>2, WrittenIsRow
    <3>2. CASE s \notin tick[i].done \cap Reached(tick[i])
      BY <1>0, <1>2, <3>2 DEF TickCommit
    <3> QED
      BY <3>1, <3>2
  <2>4. row' \in [Schedules -> Rows]
    BY <1>2, <2>3 DEF TickCommit
  <2> QED
    BY <1>2, <2>2, <2>4, AsleepIsTyped, OneTickChanges, OthersKeepTheirTypes
       DEF TickCommit, SchedulerTypes
<1>3. CASE TickFails(i)
  <2>1. up' \subseteq Instances /\ have' \subseteq up' /\ lock' \in up' \cup {Nobody}
    BY <1>0, <1>3 DEF TickFails, Release
  <2>2. tick' = [tick EXCEPT ![i] = Asleep] /\ faults' \in 0..MaxFaults
    BY <1>0, <1>3 DEF TickFails
  <2> QED
    BY <1>3, <2>1, <2>2, AsleepIsTyped, OneTickChanges, OthersKeepTheirTypes
       DEF TickFails, SchedulerTypes
<1>4. ASSUME NEW s \in tick[i].todo, TickSchedule(i, s) PROVE SchedulerTypes'
  BY <1>4, ScheduledTick, FiringType, OneTickChanges, OthersKeepTheirTypes
     DEF TickSchedule, SchedulerTypes
<1>5. ASSUME NEW s \in tick[i].todo, TickAborts(i, s) PROVE SchedulerTypes'
  BY <1>5, AbortedTick, OneTickChanges, OthersKeepTheirTypes DEF TickAborts, SchedulerTypes
<1>6. CASE Stop(i)
  <2>1. up' \subseteq Instances /\ have' \subseteq up' /\ lock' \in up' \cup {Nobody}
    BY <1>0, <1>6 DEF Stop, Release
  <2>2. faults' \in 0..MaxFaults
    BY <1>0, <1>6 DEF Stop
  <2> QED
    BY <1>6, <2>1, <2>2, OthersKeepTheirTypes DEF Stop, SchedulerTypes
<1>7. CASE Start(i)
  <2>1. up' \subseteq Instances /\ have \subseteq up' /\ lock \in up' \cup {Nobody}
    BY <1>0, <1>7 DEF Start
  <2> QED
    BY <1>7, <2>1, OthersKeepTheirTypes DEF Start, SchedulerTypes
<1>8. CASE ConnectionLost(i)
  <2>1. faults' \in 0..MaxFaults
    BY <1>0, <1>8 DEF ConnectionLost
  <2> QED
    BY <1>8, <2>1, OthersKeepTheirTypes DEF ConnectionLost, SchedulerTypes
<1> QED
  BY <1>1, <1>2, <1>3, <1>4, <1>5, <1>6, <1>7, <1>8

\* What a web request commits: next_run_at is kept or set to NULL.
LEMMA RequestCommits ==
  ASSUME SchedulerTypes, WebCommit
  PROVE  /\ row' \in [Schedules -> Rows]
         /\ \A s \in Schedules : row'[s].next \in {row[s].next, Null}
<1>0. row \in [Schedules -> Rows] /\ RequestIsTyped /\ web # NoRequest
  BY DEF SchedulerTypes, WebCommit
<1>1. web.s \in Schedules /\ web.old \in Rows /\ web.op \in {"update", "skip", "delete"}
  BY <1>0 DEF RequestIsTyped
<1>2. CASE web.s \notin Live
  BY <1>0, <1>2 DEF WebCommit
<1>3. ASSUME NEW x \in Rows, x.next \in {row[web.s].next, Null}, row' = [row EXCEPT ![web.s] = x]
      PROVE  /\ row' \in [Schedules -> Rows]
             /\ \A s \in Schedules : row'[s].next \in {row[s].next, Null}
  BY <1>0, <1>1, <1>3
<1>4. CASE web.s \in Live /\ web.op = "update"
  <2>1. row' = [row EXCEPT ![web.s] = Updated(row[web.s])]
    BY <1>4 DEF WebCommit
  <2> QED
    BY <1>0, <1>1, <1>3, <1>4, <2>1, UpdatedIsRow
<1>5. CASE web.s \in Live /\ web.op = "skip"
  <2>1. row' = [row EXCEPT ![web.s] = [row[web.s] EXCEPT !.skip = ~web.old.skip]]
    BY <1>5 DEF WebCommit
  <2>2. [row[web.s] EXCEPT !.skip = ~web.old.skip] \in Rows
    BY <1>0, <1>1 DEF Rows
  <2>3. [row[web.s] EXCEPT !.skip = ~web.old.skip].next = row[web.s].next
    BY <1>0, <1>1 DEF Rows
  <2> QED
    BY <1>3, <2>1, <2>2, <2>3
<1>6. CASE web.s \in Live /\ web.op = "delete"
  <2>1. row' = [row EXCEPT ![web.s] = [row[web.s] EXCEPT !.is = "deleted"]]
    BY <1>6 DEF WebCommit
  <2>2. /\ [row[web.s] EXCEPT !.is = "deleted"] \in Rows
        /\ [row[web.s] EXCEPT !.is = "deleted"].next = row[web.s].next
    BY <1>0, <1>1 DEF Rows
  <2> QED
    BY <1>3, <2>1, <2>2
<1> QED
  BY <1>1, <1>2, <1>4, <1>5, <1>6

LEMMA WebKeepsTypes ==
  ASSUME SchedulerTypes,
         \/ \E s \in Schedules : WebRead(s) \/ JobDeleted(s)
         \/ WebCommit
  PROVE  SchedulerTypes'
<1> USE SchedulerAssumption
<1>1. ASSUME NEW s \in Schedules, WebRead(s) PROVE SchedulerTypes'
  <2>1. row[s] \in Rows /\ edits' \in 0..MaxEdits
    BY <1>1 DEF WebRead, SchedulerTypes
  <2>2. RequestIsTyped'
    <3>1. CASE \E cron \in Crons, enabled \in BOOLEAN :
                 web' = [op |-> "update", s |-> s, cron |-> cron, enabled |-> enabled,
                         old |-> row[s]]
      <4>1. PICK cron \in Crons, enabled \in BOOLEAN :
              web' = [op |-> "update", s |-> s, cron |-> cron, enabled |-> enabled,
                      old |-> row[s]]
        BY <3>1
      <4>2. /\ web'.s = s /\ web'.old = row[s] /\ web'.op = "update"
            /\ web'.cron = cron /\ web'.enabled = enabled
        BY <4>1
      <4> QED
        BY <2>1, <4>2 DEF RequestIsTyped
    <3>2. CASE \E op \in WebOps \ {"update"} : web' = [op |-> op, s |-> s, old |-> row[s]]
      <4>1. PICK op \in WebOps \ {"update"} : web' = [op |-> op, s |-> s, old |-> row[s]]
        BY <3>2
      <4>2. op \in {"skip", "delete"}
        OBVIOUS
      <4>3. web'.s = s /\ web'.old = row[s] /\ web'.op = op
        BY <4>1
      <4> QED
        BY <2>1, <4>2, <4>3 DEF RequestIsTyped
    <3> QED
      BY <1>1, <3>1, <3>2 DEF WebRead
  <2> QED
    BY <1>1, <2>1, <2>2, OthersKeepTheirTypes DEF WebRead, SchedulerTypes
<1>2. ASSUME NEW s \in Schedules, JobDeleted(s) PROVE SchedulerTypes'
  <2>1. row[s] \in Rows /\ [row[s] EXCEPT !.job = FALSE] \in Rows
    BY DEF SchedulerTypes, Rows
  <2>2. row' = [row EXCEPT ![s] = [row[s] EXCEPT !.job = FALSE]] /\ edits' = edits + 1
    BY <1>2 DEF JobDeleted
  <2>3. row' \in [Schedules -> Rows] /\ edits' \in 0..MaxEdits
    BY <1>2, <2>1, <2>2 DEF JobDeleted, SchedulerTypes
  <2> QED
    BY <1>2, <2>3, OthersKeepTheirTypes DEF JobDeleted, SchedulerTypes
<1>3. CASE WebCommit
  <2>1. web' = NoRequest
    BY <1>3 DEF WebCommit
  <2>2. RequestIsTyped'
    BY <2>1 DEF RequestIsTyped
  <2> QED
    BY <1>3, <2>2, RequestCommits, OthersKeepTheirTypes DEF WebCommit, SchedulerTypes
<1> QED
  BY <1>1, <1>2, <1>3

LEMMA StepSchedulerTypes == SchedulerTypes /\ [Next]_vars => SchedulerTypes'
<1> SUFFICES ASSUME SchedulerTypes, [Next]_vars PROVE SchedulerTypes'
  OBVIOUS
<1>1. CASE Clock
  <2>1. now' \in 0..Horizon
    BY <1>1, SchedulerAssumption DEF Clock, SchedulerTypes
  <2> QED
    BY <1>1, <2>1, OthersKeepTheirTypes DEF Clock, SchedulerTypes
<1>2. CASE UNCHANGED vars
  BY <1>2, OthersKeepTheirTypes DEF vars, SchedulerTypes
<1> QED
  BY <1>1, <1>2, InstanceKeepsTypes, WebKeepsTypes DEF Next

-----------------------------------------------------------------------------
(* Leadership.                                                             *)

LEMMA StepTicksAreOfLeaders ==
  SchedulerInv /\ [Next]_vars => TicksAreOfLeaders'
<1> SUFFICES ASSUME SchedulerInv, [Next]_vars PROVE TicksAreOfLeaders'
  OBVIOUS
<1>0. /\ SchedulerTypes /\ TicksAreOfLeaders /\ now \in Nat
      /\ \A i \in Instances : tick[i].t \in Nat
  BY SchedulerAssumption DEF SchedulerInv, SchedulerTypes, TickRecord
<1>1. ASSUME tick' = tick, have' = have, now' = now PROVE TicksAreOfLeaders'
  BY <1>0, <1>1 DEF TicksAreOfLeaders
<1>2. CASE Clock
  BY <1>0, <1>2 DEF Clock, TicksAreOfLeaders
<1>3. ASSUME NEW i \in Instances, TickBegin(i) PROVE TicksAreOfLeaders'
  <2>1. /\ have' = have \cup {i} /\ now' = now
        /\ tick'[i].t = now /\ \A j \in Instances : j # i => tick'[j] = tick[j]
    BY <1>0, <1>3 DEF TickBegin, SchedulerTypes
  <2> QED
    BY <1>0, <2>1 DEF TicksAreOfLeaders
<1>4. ASSUME NEW i \in Instances, TickCommit(i) \/ TickFails(i) PROVE TicksAreOfLeaders'
  <2>1. /\ have \ {i} \subseteq have' /\ now' = now
        /\ tick'[i].at = "asleep" /\ \A j \in Instances : j # i => tick'[j] = tick[j]
    BY <1>0, <1>4 DEF TickCommit, TickFails, SchedulerTypes, Asleep
  <2> QED
    BY <1>0, <2>1 DEF TicksAreOfLeaders
<1>5. ASSUME NEW i \in Instances, NEW s \in tick[i].todo, TickSchedule(i, s) \/ TickAborts(i, s)
      PROVE  TicksAreOfLeaders'
  <2>1. tick[i].at = "firing" /\ have' = have /\ now' = now
    BY <1>5 DEF TickSchedule, TickAborts
  <2>2. tick'[i].t = tick[i].t /\ \A j \in Instances : j # i => tick'[j] = tick[j]
    BY <1>0, <1>5, ScheduledTick, AbortedTick, OneTickChanges
  <2> QED
    BY <1>0, <2>1, <2>2 DEF TicksAreOfLeaders
<1>6. ASSUME NEW i \in Instances, Stop(i) PROVE TicksAreOfLeaders'
  BY <1>0, <1>6 DEF Stop, TicksAreOfLeaders
<1>7. ASSUME NEW i \in Instances, Start(i) \/ ConnectionLost(i) PROVE TicksAreOfLeaders'
  BY <1>1, <1>7 DEF Start, ConnectionLost
<1>8. CASE (\E s \in Schedules : WebRead(s) \/ JobDeleted(s)) \/ WebCommit
  BY <1>1, <1>8 DEF WebRead, JobDeleted, WebCommit
<1>9. CASE UNCHANGED vars
  BY <1>1, <1>9 DEF vars
<1> QED
  BY <1>2, <1>3, <1>4, <1>5, <1>6, <1>7, <1>8, <1>9 DEF Next

\* At most one instance is in a tick.
LEMMA SoleTick ==
  ASSUME SchedulerInv, ~broken, NEW i \in Instances, NEW j \in Instances,
         tick[i].at = "firing", tick[j].at = "firing"
  PROVE  i = j
BY DEF SchedulerInv, Unbroken, TicksAreOfLeaders, OneLeader

\* Who begins a tick finds no other in progress.
LEMMA BeginsAlone ==
  ASSUME SchedulerInv, ~broken, NEW i \in Instances, TickBegin(i)
  PROVE  (\A j \in Instances : tick[j].at # "firing") /\ OneLeader'
<1>1. /\ TicksAreOfLeaders /\ OneLeader /\ have \subseteq Instances /\ Nobody \notin Instances
  BY SchedulerAssumption DEF SchedulerInv, SchedulerTypes, Unbroken
<1>2. \A j \in have : j = i
  BY <1>1 DEF TickBegin, MayTick, OneLeader
<1> QED
  BY <1>1, <1>2 DEF TickBegin, TicksAreOfLeaders, OneLeader

\* Firings, ticks and clock are as they were and no stored slot moved back.
LEMMA UnbrokenKept ==
  ASSUME SchedulerInv, ~broken, UNCHANGED <<now, tick, fired>>, OneLeader',
         \A s \in Schedules : row'[s].next \in {row[s].next, Null}
  PROVE  Unbroken'
<1>1. Unbroken
  BY DEF SchedulerInv
<1>2. FiringsArePast' /\ TodoIsUnfired' /\ FiringsAdvance'
  BY <1>1 DEF Unbroken, FiringsArePast, TodoIsUnfired, AllBefore, FiringsAdvance
<1>3. StoredIsUnfired'
  BY <1>1 DEF Unbroken, StoredIsUnfired, AllBefore, Reached
<1> QED
  BY <1>2, <1>3 DEF Unbroken

\* A tick is replaced by one that has no more to fire and waits to commit at
\* least what it did, and nothing is fired.
LEMMA UnbrokenInTick ==
  ASSUME SchedulerInv, ~broken, NEW i \in Instances, tick[i].at = "firing",
         UNCHANGED <<now, row, have, lock, fired>>,
         \A j \in Instances : j # i => tick'[j] = tick[j],
         tick'[i].at = "firing", tick'[i].t = tick[i].t, tick'[i].read = tick[i].read,
         tick'[i].todo \subseteq tick[i].todo, tick[i].done \subseteq tick'[i].done
  PROVE  Unbroken'
<1>1. Unbroken
  BY DEF SchedulerInv
<1>2. OneLeader' /\ FiringsAdvance'
  BY <1>1 DEF Unbroken, OneLeader, FiringsAdvance
<1>3. FiringsArePast'
  BY <1>1 DEF Unbroken, FiringsArePast
<1>4. TodoIsUnfired'
  BY <1>1 DEF Unbroken, TodoIsUnfired, AllBefore
<1>5. StoredIsUnfired'
  BY <1>1 DEF Unbroken, StoredIsUnfired, AllBefore, Reached
<1> QED
  BY <1>2, <1>3, <1>4, <1>5 DEF Unbroken

\* One schedule fires.
LEMMA UnbrokenFiring ==
  ASSUME SchedulerInv, ~broken, NEW i \in Instances, NEW s \in tick[i].todo, TickSchedule(i, s),
         tick[i].read[s].next \in 1..tick[i].t,
         fired' = [fired EXCEPT ![s] = Append(@, [slot |-> tick[i].read[s].next, at |-> tick[i].t])]
  PROVE  Unbroken'
<1> DEFINE new == [slot |-> tick[i].read[s].next, at |-> tick[i].t]
           n   == Len(fired[s])
<1>0. /\ SchedulerTypes /\ Unbroken /\ TicksAreOfLeaders
  BY DEF SchedulerInv
<1>1. /\ tick[i].at = "firing" /\ UNCHANGED <<now, row, have, lock>>
      /\ s \in Schedules /\ tick[i].t \in Nat /\ now \in Nat
      /\ tick[i].t <= now /\ tick[i].read[s].next \in Nat /\ tick[i].read[s].next # Null
  <2>1. tick[i].at = "firing" /\ UNCHANGED <<now, row, have, lock>>
    BY DEF TickSchedule
  <2>2. tick[i] \in TickRecord /\ now \in 0..Horizon /\ Horizon \in Nat
    BY <1>0, SchedulerAssumption DEF SchedulerTypes
  <2>3. s \in Schedules /\ tick[i].t \in Nat /\ now \in Nat
    BY <2>2 DEF TickRecord
  <2>4. tick[i].t <= now
    BY <1>0, <2>1 DEF TicksAreOfLeaders
  <2>5. tick[i].read[s].next \in Nat /\ tick[i].read[s].next # Null
    BY <2>3 DEF Null
  <2> QED
    BY <2>1, <2>3, <2>4, <2>5
<1>2. /\ \A j \in Instances : j # i => tick'[j] = tick[j]
      /\ tick'[i].at = "firing" /\ tick'[i].t = tick[i].t /\ tick'[i].read = tick[i].read
      /\ tick'[i].todo = tick[i].todo \ {s} /\ tick'[i].done = tick[i].done \cup {s}
  BY <1>0, ScheduledTick, OneTickChanges
<1>3. \A j \in Instances : tick[j].at = "firing" => j = i
  BY <1>1, SoleTick
<1>4. fired \in [Schedules -> Seq(Firing)] /\ n \in Nat
  BY <1>0, <1>1 DEF SchedulerTypes
<1>5. /\ \A q \in Schedules : q # s => fired'[q] = fired[q]
      /\ fired'[s] = Append(fired[s], new)
  BY <1>1, <1>4
<1>6. /\ Len(fired'[s]) = n + 1 /\ fired'[s][n + 1] = new
      /\ \A k \in 1..n : fired'[s][k] = fired[s][k]
  BY <1>1, <1>4, <1>5
<1>7. \A k \in 1..n : fired[s][k].at < tick[i].read[s].next
  BY <1>0, <1>1 DEF Unbroken, TodoIsUnfired, AllBefore
<1>8. OneLeader'
  BY <1>0, <1>1 DEF Unbroken, OneLeader
<1>9. FiringsArePast'
  <2>1. ASSUME NEW q \in Schedules, NEW k \in 1..Len(fired'[q])
        PROVE  fired'[q][k].at <= now /\ fired'[q][k].at <= tick[i].t
    <3>1. CASE q = s /\ k = n + 1
      BY <1>1, <1>6, <3>1
    <3>2. CASE q = s /\ k # n + 1
      <4>1. k \in 1..n
        BY <1>4, <1>6, <3>2
      <4> QED
        BY <1>0, <1>1, <1>6, <3>2, <4>1 DEF Unbroken, FiringsArePast
    <3>3. CASE q # s
      BY <1>0, <1>1, <1>5, <3>3 DEF Unbroken, FiringsArePast
    <3> QED
      BY <3>1, <3>2, <3>3
  <2> QED
    BY <1>1, <1>2, <1>3, <2>1 DEF FiringsArePast
<1>10. TodoIsUnfired'
  <2>1. tick[i].todo \subseteq Schedules
    BY <1>0 DEF SchedulerTypes, TickRecord
  <2>2. ASSUME NEW q \in tick[i].todo \ {s}
        PROVE  /\ AllBefore(q, tick[i].read[q].next)
               /\ fired'[q] = fired[q]
    BY <1>0, <1>1, <1>5, <2>1 DEF Unbroken, TodoIsUnfired
  <2>3. ASSUME NEW j \in Instances, tick'[j].at = "firing" PROVE j = i
    BY <1>2, <1>3, <2>3
  <2> QED
    BY <1>2, <2>2, <2>3 DEF TodoIsUnfired, AllBefore
<1>11. StoredIsUnfired'
  <2>1. s \in Reached(tick[i])' /\ s \in tick'[i].done
    <3>1. s \in DOMAIN tick[i].read
      BY <1>0 DEF SchedulerTypes
    <3> QED
      BY <1>1, <1>2, <3>1 DEF Reached
  <2>2. ASSUME NEW q \in Schedules, q # s
        PROVE  \/ \E j \in Instances : tick'[j].at = "firing" /\ q \in tick'[j].done \cap Reached(tick'[j])
               \/ AllBefore(q, row[q].next)'
    BY <1>0, <1>1, <1>2, <1>5, <2>2 DEF Unbroken, StoredIsUnfired, AllBefore, Reached
  <2> QED
    BY <1>2, <2>1, <2>2 DEF StoredIsUnfired
<1>12. FiringsAdvance'
  <2>1. ASSUME NEW q \in Schedules, NEW k \in 1..(Len(fired'[q]) - 1)
        PROVE  fired'[q][k].at < fired'[q][k + 1].slot
    <3>1. CASE q # s
      BY <1>0, <1>5, <3>1 DEF Unbroken, FiringsAdvance
    <3>2. CASE q = s /\ k = n
      BY <1>4, <1>6, <1>7, <3>2
    <3>3. CASE q = s /\ k # n
      <4>1. k \in 1..(n - 1) /\ k + 1 \in 1..n /\ k \in 1..n
        BY <1>4, <1>6, <3>3
      <4> QED
        BY <1>0, <1>1, <1>6, <3>3, <4>1 DEF Unbroken, FiringsAdvance
    <3> QED
      BY <3>1, <3>2, <3>3
  <2> QED
    BY <2>1 DEF FiringsAdvance
<1> QED
  BY <1>8, <1>9, <1>10, <1>11, <1>12 DEF Unbroken

\* The tick ends, and what it did is stored.
LEMMA UnbrokenCommit ==
  ASSUME SchedulerInv, ~broken, NEW i \in Instances, TickCommit(i)
  PROVE  Unbroken'
<1>0. SchedulerTypes /\ Unbroken
  BY DEF SchedulerInv
<1>1. /\ tick[i].at = "firing" /\ UNCHANGED <<now, lock, have, fired>>
      /\ tick'[i].at = "asleep" /\ \A j \in Instances : j # i => tick'[j] = tick[j]
  BY <1>0 DEF TickCommit, SchedulerTypes, Asleep
<1>2. \A j \in Instances : tick'[j].at # "firing"
  BY <1>1, SoleTick
<1>3. OneLeader' /\ FiringsArePast' /\ TodoIsUnfired' /\ FiringsAdvance'
  BY <1>0, <1>1, <1>2
     DEF Unbroken, OneLeader, FiringsArePast, TodoIsUnfired, FiringsAdvance
<1>4. ASSUME NEW s \in Schedules PROVE AllBefore(s, row[s].next)'
  <2>1. CASE s \in tick[i].done \cap Reached(tick[i])
    <3>1. /\ tick[i].read[s] \in Rows /\ tick[i].read[s].cron # Invalid
          /\ tick[i].t \in Nat /\ row[s] \in Rows
      BY <1>0, <2>1, TicksAreTyped, ReadType, SchedulerAssumption
         DEF TickIsTyped, TickRecord, SchedulerTypes
    <3>2. row'[s] = Written(row[s], tick[i].read[s], tick[i].t)
      BY <2>1 DEF TickCommit
    <3>3. row'[s].next \in Nat /\ row'[s].next > tick[i].t
      <4>1. tick[i].read[s].cron \in Nat
        BY <3>1, SchedulerAssumption DEF Rows
      <4>2. row'[s].next = NextFire(tick[i].read[s].cron, tick[i].t)
        BY <3>1, <3>2, WrittenIsRow
      <4>3. PICK c \in Nat : c = tick[i].read[s].cron
        BY <4>1
      <4>4. NextFire(c, tick[i].t) \in Nat /\ NextFire(c, tick[i].t) > tick[i].t
        BY <3>1, <4>3, NextFireIsLater
      <4> QED
        BY <4>2, <4>3, <4>4
    <3>4. \A k \in 1..Len(fired[s]) : fired[s][k].at <= tick[i].t /\ fired[s][k].at \in Nat
      <4>1. \A k \in 1..Len(fired[s]) : fired[s][k] \in Firing
        BY <1>0 DEF SchedulerTypes
      <4> QED
        BY <1>0, <1>1, <4>1 DEF Unbroken, FiringsArePast, Firing
    <3> QED
      BY <1>1, <3>1, <3>3, <3>4 DEF AllBefore
  <2>2. CASE s \notin tick[i].done \cap Reached(tick[i])
    <3>1. row'[s] = row[s]
      BY <2>2 DEF TickCommit
    <3>2. AllBefore(s, row[s].next)
      BY <1>0, <1>1, <2>2, SoleTick DEF Unbroken, StoredIsUnfired
    <3> QED
      BY <1>1, <3>1, <3>2 DEF AllBefore
  <2> QED
    BY <2>1, <2>2
<1>5. StoredIsUnfired'
  BY <1>4 DEF StoredIsUnfired
<1> QED
  BY <1>3, <1>5 DEF Unbroken

\* A tick begins with the slots that are stored.
LEMMA UnbrokenBegin ==
  ASSUME SchedulerInv, ~broken, NEW i \in Instances, TickBegin(i)
  PROVE  Unbroken'
<1> DEFINE due == {s \in Live : row[s].enabled}
<1>0. SchedulerTypes /\ Unbroken /\ (\A j \in Instances : tick[j].at # "firing") /\ OneLeader'
  BY BeginsAlone DEF SchedulerInv
<1>1. /\ UNCHANGED <<now, row, fired>> /\ now \in Nat
      /\ tick'[i].t = now /\ \A j \in Instances : j # i => tick'[j] = tick[j]
      /\ tick'[i].todo = due /\ \A s \in due : tick'[i].read[s] = row[s]
  BY <1>0, SchedulerAssumption DEF TickBegin, SchedulerTypes
<1>2. \A j \in Instances : tick'[j].at = "firing" => j = i
  BY <1>0, <1>1
<1>3. \A s \in Schedules : AllBefore(s, row[s].next)
  BY <1>0 DEF Unbroken, StoredIsUnfired
<1>4. FiringsArePast' /\ FiringsAdvance'
  BY <1>0, <1>1, <1>2 DEF Unbroken, FiringsArePast, FiringsAdvance
<1>5. TodoIsUnfired'
  BY <1>1, <1>2, <1>3 DEF TodoIsUnfired, AllBefore, Live
<1>6. StoredIsUnfired'
  BY <1>1, <1>3 DEF StoredIsUnfired, AllBefore
<1> QED
  BY <1>0, <1>4, <1>5, <1>6 DEF Unbroken

LEMMA StepUnbroken == SchedulerInv /\ [Next]_vars => (~broken' => Unbroken')
<1> SUFFICES ASSUME SchedulerInv, [Next]_vars, ~broken' PROVE Unbroken'
  OBVIOUS
<1>0. /\ SchedulerTypes /\ broken \in BOOLEAN
  BY DEF SchedulerInv, SchedulerTypes
<1>b. ~broken
  BY <1>0 DEF Next, vars, Clock, TickBegin, TickCommit, TickFails, TickSchedule, TickAborts,
          Stop, Start, ConnectionLost, WebRead, JobDeleted, WebCommit
<1>u. Unbroken
  BY <1>b DEF SchedulerInv
<1>k. ASSUME UNCHANGED <<now, tick, fired, have, lock>>,
             \A s \in Schedules : row'[s].next \in {row[s].next, Null}
      PROVE  Unbroken'
  <2>1. OneLeader'
    BY <1>k, <1>u DEF Unbroken, OneLeader
  <2> QED
    BY <1>b, <1>k, <2>1, UnbrokenKept
<1>1. CASE Clock
  <2>1. /\ UNCHANGED <<row, lock, have, tick, fired>> /\ now' = now + 1 /\ now \in Nat
    BY <1>0, <1>1, SchedulerAssumption DEF Clock, SchedulerTypes
  <2>2. \A s \in Schedules : \A k \in 1..Len(fired[s]) : fired[s][k].at \in Nat
    <3>1. \A s \in Schedules : \A k \in 1..Len(fired[s]) : fired[s][k] \in Firing
      BY <1>0 DEF SchedulerTypes
    <3> QED
      BY <3>1 DEF Firing
  <2>3. FiringsArePast'
    BY <1>u, <2>1, <2>2 DEF Unbroken, FiringsArePast
  <2>4. OneLeader' /\ TodoIsUnfired' /\ StoredIsUnfired' /\ FiringsAdvance'
    BY <1>u, <2>1
       DEF Unbroken, OneLeader, TodoIsUnfired, StoredIsUnfired, FiringsAdvance, AllBefore, Reached
  <2> QED
    BY <2>3, <2>4 DEF Unbroken
<1>2. ASSUME NEW i \in Instances, TickBegin(i) PROVE Unbroken'
  BY <1>b, <1>2, UnbrokenBegin
<1>3. ASSUME NEW i \in Instances, TickCommit(i) PROVE Unbroken'
  BY <1>b, <1>3, UnbrokenCommit
<1>4. ASSUME NEW i \in Instances, NEW s \in tick[i].todo, TickSchedule(i, s) PROVE Unbroken'
  <2>1. CASE fired' = fired
    <3>1. /\ tick[i].at = "firing" /\ UNCHANGED <<now, row, have, lock>>
      BY <1>4 DEF TickSchedule
    <3>2. /\ \A j \in Instances : j # i => tick'[j] = tick[j]
          /\ tick'[i].at = "firing" /\ tick'[i].t = tick[i].t /\ tick'[i].read = tick[i].read
          /\ tick'[i].todo = tick[i].todo \ {s} /\ tick'[i].done = tick[i].done \cup {s}
      BY <1>0, <1>4, ScheduledTick, OneTickChanges
    <3> QED
      BY <1>b, <2>1, <3>1, <3>2, UnbrokenInTick
  <2>2. CASE fired' # fired
    BY <1>0, <1>b, <1>4, <2>2, FiringType, UnbrokenFiring
  <2> QED
    BY <2>1, <2>2
<1>5. ASSUME NEW i \in Instances, NEW s \in tick[i].todo, TickAborts(i, s) PROVE Unbroken'
  <2>1. /\ tick[i].at = "firing" /\ UNCHANGED <<now, row, have, lock, fired>>
    BY <1>5 DEF TickAborts
  <2>2. /\ \A j \in Instances : j # i => tick'[j] = tick[j]
        /\ tick'[i].at = "firing" /\ tick'[i].t = tick[i].t /\ tick'[i].read = tick[i].read
        /\ tick'[i].todo = {} /\ tick'[i].done = tick[i].done
    BY <1>0, <1>5, AbortedTick, OneTickChanges
  <2> QED
    BY <1>b, <2>1, <2>2, UnbrokenInTick
<1>6. ASSUME NEW i \in Instances, TickFails(i) \/ ConnectionLost(i) PROVE FALSE
  BY <1>6 DEF TickFails, ConnectionLost
<1>7. ASSUME NEW i \in Instances, Stop(i) \/ Start(i) PROVE Unbroken'
  <2>1. UNCHANGED <<now, tick, fired, row>>
    BY <1>7 DEF Stop, Start
  <2>2. OneLeader'
    BY <1>7, <1>u DEF Stop, Start, Release, Unbroken, OneLeader
  <2> QED
    BY <1>b, <2>1, <2>2, UnbrokenKept
<1>8. ASSUME NEW s \in Schedules, WebRead(s) PROVE Unbroken'
  BY <1>8, <1>k DEF WebRead
<1>9. ASSUME NEW s \in Schedules, JobDeleted(s) PROVE Unbroken'
  <2>1. row \in [Schedules -> Rows]
    BY <1>0 DEF SchedulerTypes
  <2>2. row' = [row EXCEPT ![s] = [row[s] EXCEPT !.job = FALSE]]
    BY <1>9 DEF JobDeleted
  <2>3. row[s] \in Rows /\ [row[s] EXCEPT !.job = FALSE].next = row[s].next
    BY <2>1 DEF Rows
  <2>4. \A q \in Schedules : row'[q].next = row[q].next
    BY <2>1, <2>2, <2>3
  <2> QED
    BY <1>9, <1>k, <2>4 DEF JobDeleted
<1>10. CASE WebCommit
  BY <1>0, <1>10, <1>k, RequestCommits DEF WebCommit
<1>11. CASE UNCHANGED vars
  BY <1>11, <1>k DEF vars
<1> QED
  BY <1>1, <1>2, <1>3, <1>4, <1>5, <1>6, <1>7, <1>8, <1>9, <1>10, <1>11 DEF Next

LEMMA StepSchedulerInv == SchedulerInv /\ [Next]_vars => SchedulerInv'
BY StepSchedulerTypes, StepTicksAreOfLeaders, StepUnbroken DEF SchedulerInv

-----------------------------------------------------------------------------
(* Every variable has its type, and a dead instance holds no lock.         *)
THEOREM SchedulerTypeCorrectness == Spec => []TypeOK
<1>1. SchedulerInv => TypeOK
  BY TypesImplyTypeOK DEF SchedulerInv
<1> QED
  BY <1>1, InitSchedulerInv, StepSchedulerInv, PTL DEF Spec

(* No slot is fired twice and a backlog fires once, whichever instances    *)
(* stop, restart and take over and whoever edits the rows between a tick's *)
(* read and its commit, as long as no connection is lost and no tick fails *)
(* after it fired.                                                         *)
THEOREM TheLockFiresOnce == Spec => []LeaderFiresOnce
<1>1. SchedulerInv => LeaderFiresOnce
  BY DEF SchedulerInv, Unbroken, LeaderFiresOnce
<1> QED
  BY <1>1, InitSchedulerInv, StepSchedulerInv, PTL DEF Spec
=============================================================================
