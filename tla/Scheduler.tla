------------------------------ MODULE Scheduler ------------------------------
(***************************************************************************)
(* The scheduler: instances that elect a leader by a Postgres advisory     *)
(* lock and, tick by tick, fire the schedules that are due, while web      *)
(* processes edit the same rows.                                           *)
(*                                                                         *)
(* A tick reads the enabled rows, fires job after job (publishing as it    *)
(* goes: what is published stays published) and writes the changed columns *)
(* back in one commit.  The lock belongs to a database connection; the     *)
(* instance only remembers having got it (have_lock) and never asks again. *)
(* Time is a bounded clock; a cron is reduced to its period (its slots   *)
(* are the multiples of a number), 0 standing for an expression croniter   *)
(* rejects; the web form accepts any text.                                 *)
(***************************************************************************)
EXTENDS Integers, Sequences, FiniteSets

CONSTANTS
  Instances,    \* scheduler processes
  Nobody,       \* the lock is free
  Schedules,    \* schedules rows
  Crons,        \* the periods a schedule may be given
  WebOps,       \* what administrators do: "update", "skip", "delete"
  Faults,       \* what may break: "connection", "tick"
  Horizon,      \* bound: when the clock stops
  MaxFaults,    \* bound: deaths, lost connections and failed ticks
  MaxEdits      \* bound: web requests

ASSUME SchedulerAssumption ==
  /\ Nobody \notin Instances
  /\ Crons \subseteq Nat
  /\ WebOps \subseteq {"update", "skip", "delete"}
  /\ Faults \subseteq {"connection", "tick"}
  /\ Horizon \in Nat /\ MaxFaults \in Nat /\ MaxEdits \in Nat

VARIABLES
  now,     \* the time
  row,     \* each schedules row as committed
  lock,    \* the instance whose connection holds the advisory lock
  up,      \* the instances that are running
  have,    \* those whose have_lock is true
  tick,    \* the tick in progress in each instance
  fired,   \* history: the firings of each schedule, in order
  web,     \* the web request in progress (bound: one at a time)
  edits,   \* how much of MaxEdits has been used
  faults,  \* how much of MaxFaults has been used
  broken   \* history: a connection was lost or a tick failed

vars == <<now, row, lock, up, have, tick, fired, web, edits, faults, broken>>

Null    == 0   \* next_run_at is NULL
Invalid == 0   \* a cron expression that croniter rejects

\* A mutant of NextFire: a slot that is now counts as the next one.
NextFireInclusive(c, t) == IF t % c = 0 /\ t > 0 THEN t ELSE (t \div c + 1) * c

\* _next_fire: the first slot strictly after t.
NextFire(c, t) == (t \div c + 1) * c

Rows == [is : {"live", "deleted"}, cron : Crons, enabled : BOOLEAN,
         job : BOOLEAN, skip : BOOLEAN, next : Nat]

\* t is the tick's "now", read the rows it found enabled, todo those it has
\* not looked at, done those it has.
Asleep == [at |-> "asleep", t |-> 0, read |-> <<>>, todo |-> {}, done |-> {}]

NoRequest == [op |-> "none"]

\* create_schedule leaves next_run_at NULL.
Init ==
  /\ now = 0
  /\ row \in [Schedules -> [is : {"live"}, cron : Crons \ {Invalid}, enabled : {TRUE},
                         job : {TRUE}, skip : {FALSE}, next : {Null}]]
  /\ lock = Nobody
  /\ up = Instances
  /\ have = {}
  /\ tick = [i \in Instances |-> Asleep]
  /\ fired = [s \in Schedules |-> <<>>]
  /\ web = NoRequest
  /\ edits = 0 /\ faults = 0 /\ broken = FALSE

-----------------------------------------------------------------------------
(* The instances.                                                          *)

Clock ==
  /\ now < Horizon
  /\ now' = now + 1
  /\ UNCHANGED <<row, lock, up, have, tick, fired, web, edits, faults, broken>>

Live == {s \in Schedules : row[s].is = "live"}

\* A mutant of MayTick: the answer of pg_try_advisory_lock is ignored.
MayTickUnlocked(i) == i \in up

\* have_lock, or pg_try_advisory_lock grants it now.
MayTick(i) == i \in up /\ (i \in have \/ lock \in {Nobody, i})

TickBegin(i) ==
  LET due == {s \in Live : row[s].enabled} IN
  /\ MayTick(i)
  /\ tick[i].at = "asleep"
  /\ lock' = IF i \in have THEN lock ELSE i
  /\ have' = have \cup {i}
  /\ tick' = [tick EXCEPT ![i] = [at |-> "firing", t |-> now, todo |-> due, done |-> {},
                                  read |-> [s \in due |-> row[s]]]]
  /\ UNCHANGED <<now, row, up, fired, web, edits, faults, broken>>

\* The schedules of a tick that must move to a new slot, NULL included.
Reached(k) == {s \in DOMAIN k.read : k.read[s].next <= k.t}

\* A schedule whose cron is valid: it is left alone, initialised, skipped,
\* found without a job, or fired; fire_job may raise, which is caught.
TickSchedule(i, s) ==
  LET x == tick[i].read[s] IN
  /\ tick[i].at = "firing"
  /\ s \in tick[i].todo
  /\ s \in Reached(tick[i]) => x.cron # Invalid
  /\ tick' = [tick EXCEPT ![i].todo = @ \ {s}, ![i].done = @ \cup {s}]
  /\ \/ fired' = fired
     \/ /\ x.next \in 1..tick[i].t
        /\ ~x.skip /\ x.job
        /\ fired' = [fired EXCEPT ![s] = Append(@, [slot |-> x.next, at |-> tick[i].t])]
  /\ UNCHANGED <<now, row, lock, up, have, web, edits, faults, broken>>

\* _next_fire raises: the rest of the tick is given up, what is done stands.
TickAborts(i, s) ==
  /\ tick[i].at = "firing"
  /\ s \in tick[i].todo \cap Reached(tick[i])
  /\ tick[i].read[s].cron = Invalid
  /\ tick' = [tick EXCEPT ![i].todo = {}]
  /\ UNCHANGED <<now, row, lock, up, have, fired, web, edits, faults, broken>>

\* The columns a tick changes, written over a row that may have changed
\* since it was read: next_run_at, and skip_next_run if it read it as set.
Written(x, old, t) ==
  [x EXCEPT !.next = NextFire(old.cron, t),
            !.skip = IF old.skip /\ old.next # Null THEN FALSE ELSE @]

TickCommit(i) ==
  LET k     == tick[i]
      wrote == k.done \cap Reached(k)
  IN
  /\ k.at = "firing"
  /\ k.todo = {}
  /\ wrote \subseteq Live
  /\ row' = [s \in Schedules |-> IF s \in wrote THEN Written(row[s], k.read[s], k.t)
                                 ELSE row[s]]
  /\ tick' = [tick EXCEPT ![i] = Asleep]
  /\ UNCHANGED <<now, lock, up, have, fired, web, edits, faults, broken>>

\* A mutant of Release: the lock outlives the connection of a dead process.
ReleaseNothing(i) == lock

\* Postgres frees the advisory lock of a connection that is closed.
Release(i) == IF lock = i THEN Nobody ELSE lock

\* The commit raises, which ends the process: a row it writes was deleted
\* since, or the database fails.  Its rows are rolled back.
TickFails(i) ==
  /\ tick[i].at = "firing"
  /\ \/ tick[i].todo = {} /\ ~(tick[i].done \cap Reached(tick[i]) \subseteq Live)
        /\ faults' = faults
     \/ "tick" \in Faults /\ faults < MaxFaults /\ faults' = faults + 1
  /\ up' = up \ {i} /\ have' = have \ {i} /\ lock' = Release(i)
  /\ tick' = [tick EXCEPT ![i] = Asleep]
  /\ broken' = TRUE
  /\ UNCHANGED <<now, row, fired, web, edits>>

\* An instance is stopped, or dies, between two ticks.
Stop(i) ==
  /\ faults < MaxFaults
  /\ i \in up /\ tick[i].at = "asleep"
  /\ up' = up \ {i} /\ have' = have \ {i} /\ lock' = Release(i)
  /\ faults' = faults + 1
  /\ UNCHANGED <<now, row, tick, fired, web, edits, broken>>

Start(i) ==
  /\ i \notin up
  /\ up' = up \cup {i}
  /\ UNCHANGED <<now, row, lock, have, tick, fired, web, edits, faults, broken>>

\* The connection is lost between two ticks: the pool opens another one
\* (pool_pre_ping) and have_lock stays true.
ConnectionLost(i) ==
  /\ "connection" \in Faults /\ faults < MaxFaults
  /\ lock = i /\ tick[i].at = "asleep"
  /\ lock' = Nobody
  /\ faults' = faults + 1
  /\ broken' = TRUE
  /\ UNCHANGED <<now, row, up, have, tick, fired, web, edits>>

-----------------------------------------------------------------------------
(* The web handlers: each reads the row and commits what it changed.       *)

WebRead(s) ==
  /\ web = NoRequest /\ edits < MaxEdits
  /\ s \in Live
  /\ \/ \E cron \in Crons, enabled \in BOOLEAN :
          /\ "update" \in WebOps
          /\ web' = [op |-> "update", s |-> s, cron |-> cron, enabled |-> enabled,
                     old |-> row[s]]
     \/ \E op \in WebOps \ {"update"} : web' = [op |-> op, s |-> s, old |-> row[s]]
  /\ edits' = edits + 1
  /\ UNCHANGED <<now, row, lock, up, have, tick, fired, faults, broken>>

\* update_schedule: a new cron resets next_run_at.  A column set to the value
\* read is not written.
Updated(x) ==
  [x EXCEPT !.cron = IF web.cron # web.old.cron THEN web.cron ELSE @,
            !.enabled = IF web.enabled # web.old.enabled THEN web.enabled ELSE @,
            !.next = IF web.cron # web.old.cron /\ web.old.next # Null THEN Null ELSE @]

\* A request for a row that is gone changes nothing.
WebCommit ==
  /\ web # NoRequest
  /\ row' = IF web.s \notin Live THEN row
            ELSE [row EXCEPT ![web.s] =
                    CASE web.op = "update" -> Updated(@)
                      [] web.op = "skip"   -> [@ EXCEPT !.skip = ~web.old.skip]
                      [] web.op = "delete" -> [@ EXCEPT !.is = "deleted"]]
  /\ web' = NoRequest
  /\ UNCHANGED <<now, lock, up, have, tick, fired, edits, faults, broken>>

\* delete_job: the foreign key sets job_id of the schedule to NULL.
JobDeleted(s) ==
  /\ s \in Live /\ row[s].job
  /\ edits < MaxEdits
  /\ edits' = edits + 1
  /\ row' = [row EXCEPT ![s].job = FALSE]
  /\ UNCHANGED <<now, lock, up, have, tick, fired, web, faults, broken>>

-----------------------------------------------------------------------------
Next ==
  \/ Clock
  \/ \E i \in Instances :
       \/ TickBegin(i) \/ TickCommit(i) \/ TickFails(i)
       \/ \E s \in tick[i].todo : TickSchedule(i, s) \/ TickAborts(i, s)
       \/ Stop(i) \/ Start(i) \/ ConnectionLost(i)
  \/ \E s \in Schedules : WebRead(s) \/ JobDeleted(s)
  \/ WebCommit

Spec == Init /\ [][Next]_vars

\* A dead instance is restarted, a running one takes its turn when it may,
\* and a tick begun is carried through or fails.
Fairness ==
  \A i \in Instances :
    /\ WF_vars(Start(i))
    /\ WF_vars(TickBegin(i))
    /\ WF_vars(\E s \in tick[i].todo : TickSchedule(i, s) \/ TickAborts(i, s))
    /\ WF_vars(TickCommit(i))
    /\ WF_vars(TickFails(i))

FairSpec == Spec /\ Fairness /\ WF_vars(Clock)

-----------------------------------------------------------------------------
(* Properties.                                                             *)

\* Every variable has its type, and a dead instance holds no lock.
TypeOK ==
  /\ now \in 0..Horizon
  /\ row \in [Schedules -> Rows]
  /\ lock \in up \cup {Nobody}
  /\ up \subseteq Instances /\ have \subseteq up
  /\ \A i \in Instances :
       /\ tick[i].at \in {"asleep", "firing"} /\ tick[i].t \in 0..Horizon
       /\ tick[i].todo \cup tick[i].done \subseteq DOMAIN tick[i].read
       /\ \A s \in DOMAIN tick[i].read : tick[i].read[s] \in Rows
  /\ \A s \in Schedules : fired[s] \in Seq([slot : 1..Horizon, at : 1..Horizon])
  /\ edits \in 0..MaxEdits /\ faults \in 0..MaxFaults /\ broken \in BOOLEAN

\* Each firing of a schedule is for a slot later than the time of the one
\* before: no slot is fired twice and a backlog of slots fires once.
FiringsAdvance ==
  \A s \in Schedules : \A k \in 1..(Len(fired[s]) - 1) :
    fired[s][k].at < fired[s][k + 1].slot

\* "The advisory lock keeps two scheduler instances from double-firing": so
\* it does, whoever stops, restarts or edits, as long as the lock's connection
\* is not lost and no tick fails after it fired.
LeaderFiresOnce == ~broken => FiringsAdvance

Due(s) == s \in Live /\ row[s].enabled /\ row[s].next <= now

Valid(s) == row[s].cron # Invalid

\* A schedule that is due, or has no next run, is dealt with, whatever stops,
\* fails or is edited, as long as every cron is one croniter accepts.
DueIsHandled ==
  LET AllValid == \A x \in Live : row[x].enabled => Valid(x) IN
  \A s \in Schedules : Due(s) ~> ~Due(s) \/ ~AllValid

\* "A failing schedule does not block subsequent ones": one that is due and
\* valid would be dealt with whatever the others' crons are.
ValidDueIsHandled == \A s \in Schedules : Due(s) /\ Valid(s) ~> ~Due(s) \/ ~Valid(s)
=============================================================================
