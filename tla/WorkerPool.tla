----------------------------- MODULE WorkerPool -----------------------------
(***************************************************************************)
(* One worker: run_worker's loop, the subprocesses it hands jobs to, and   *)
(* the device session each of them holds (worker/scrapli_runner.py).       *)
(*                                                                         *)
(* The loop takes at most as many jobs as it has idle subprocesses.  A     *)
(* subprocess opens a session, sends the commands one by one (or one RPC), *)
(* closes it, parses, publishes a result and acknowledges the job.  A      *)
(* device is whatever it answers: every call may raise, and a response may *)
(* be flagged as failed.  scrapli bounds every call by connect_timeout or  *)
(* command_timeout, so every call returns or raises: that is the fairness. *)
(*                                                                         *)
(* The pool itself is Python's and external.  Its subprocesses are forked  *)
(* after run_worker has installed its signal handler.  When one of them is *)
(* lost the executor is broken: it fails every future and sends SIGTERM to *)
(* the others, which only sets their copy of _stop.  They finish what they *)
(* have, take what is left in the call queue, publish and acknowledge, and *)
(* then wait for more.                                                     *)
(***************************************************************************)
EXTENDS Integers, FiniteSets

CONSTANTS
  Jobs,
  Concurrency,   \* worker_concurrency
  Queues,        \* what may be in the stream: a spec for each job
  MaxFaults      \* bound: read errors, publish errors and subprocess deaths

ASSUME WorkerPoolAssumption ==
  /\ IsFiniteSet(Jobs)
  /\ Concurrency \in Nat \ {0}
  /\ \A q \in Queues, j \in Jobs : /\ q[j].driver \in {"cli", "netconf"}
                                /\ q[j].commands \in Nat

VARIABLES
  spec,      \* the spec of each job, fixed
  loop,      \* where run_worker is: "top", "full", "reading", "joining", "down"
  pending,   \* its futures
  stop,      \* _stop: a signal has been caught
  procs,     \* subprocesses of the pool that live, from the first submit
  step,      \* how far each job has got
  session,   \* its connection is open
  temp,      \* its temporary platform definition is on disk
  sent,      \* commands (or the RPC) the device has answered
  flagged,   \* a response said failed
  error,     \* an exception: "caught" by the driver run, or "escaped" from it
  out,       \* the published JobResult
  faults

poolVars == <<loop, pending, stop, procs>>
jobVars  == <<step, session, temp, sent, flagged, error, out>>
vars     == <<spec, poolVars, jobVars, faults>>

NoResult == [success |-> FALSE, chunks |-> 0, parsed |-> "no", entries |-> "none"]

\* "submitted" is a future not started; "built" has a driver object, "over"
\* is done with the device; "raised" is a future that ended in an exception
\* without a result, "unacked" one that did after it was published.
Steps == {"stream", "submitted", "built", "open", "over", "finished",
          "published", "acked", "unacked", "raised"}
Ended     == {"acked", "unacked", "raised"}
DoneJobs  == {j \in Jobs : step[j] \in Ended}
InPool    == {j \in Jobs : step[j] \notin Ended \cup {"stream"}}
Queued    == {j \in Jobs : step[j] = "submitted"}
InHand    == InPool \ Queued
Broken    == procs < Concurrency
Idle      == Cardinality(InHand) < procs
Fault     == faults < MaxFaults /\ faults' = faults + 1

Init ==
  /\ spec \in Queues
  /\ loop = "top" /\ pending = {} /\ stop = FALSE /\ procs = Concurrency
  /\ step = [j \in Jobs |-> "stream"]
  /\ session = [j \in Jobs |-> FALSE]
  /\ temp = [j \in Jobs |-> FALSE]
  /\ sent = [j \in Jobs |-> 0]
  /\ flagged = [j \in Jobs |-> FALSE]
  /\ error = [j \in Jobs |-> "none"]
  /\ out = [j \in Jobs |-> NoResult]
  /\ faults = 0

-----------------------------------------------------------------------------
(* run_worker                                                              *)

Signal ==
  /\ ~stop
  /\ stop' = TRUE
  /\ UNCHANGED <<spec, loop, pending, procs, jobVars, faults>>

\* A mutant of Slots: finished futures only, so a busy pool is overfilled.
SlotsOfEnded == Concurrency - Cardinality(pending \cap DoneJobs)

Slots == Concurrency - Cardinality(pending)

\* The futures that have ended: all of them once the pool is broken.
FuturesDone == IF Broken THEN pending ELSE pending \cap DoneJobs

\* The top of the loop: reap, then read or wait; or leave it.
LoopTop ==
  /\ loop = "top"
  /\ IF stop THEN loop' = "joining" /\ pending' = pending
     ELSE /\ pending' = pending \ FuturesDone
          /\ loop' = IF Cardinality(pending') >= Concurrency THEN "full" ELSE "reading"
  /\ UNCHANGED <<spec, stop, procs, jobVars, faults>>

\* futures_wait returns when a future ends, or after a second.
WaitFull ==
  /\ loop = "full"
  /\ loop' = "top"
  /\ pending' = pending \ FuturesDone
  /\ UNCHANGED <<spec, stop, procs, jobVars, faults>>

\* A mutant of Futures: only the last future is remembered.
FuturesLast(S) == S

\* The futures of run_worker once S has been submitted.
Futures(S) == pending \cup S

\* XREADGROUP of at most Slots jobs, which may be none, each submitted; the
\* stop flag is not looked at in between.
ReadJobs ==
  /\ loop = "reading"
  /\ ~Broken
  /\ \E S \in SUBSET {j \in Jobs : step[j] = "stream"} :
       /\ Cardinality(S) =< Slots
       /\ step' = [j \in Jobs |-> IF j \in S THEN "submitted" ELSE step[j]]
       /\ pending' = Futures(S)
  /\ loop' = "top"
  /\ UNCHANGED <<spec, stop, procs, session, temp, sent, flagged, error, out, faults>>

\* submit raises BrokenProcessPool out of the loop and into the exit of the
\* pool; the jobs just taken are nobody's.
ReadBroken ==
  /\ loop = "reading"
  /\ Broken
  /\ \E S \in (SUBSET {j \in Jobs : step[j] = "stream"}) \ {{}} :
       /\ Cardinality(S) =< Slots
       /\ step' = [j \in Jobs |-> IF j \in S THEN "raised" ELSE step[j]]
  /\ loop' = "joining"
  /\ UNCHANGED <<spec, pending, stop, procs, session, temp, sent, flagged, error, out, faults>>

\* An entry of the answer that does not decode is skipped, and an answer that
\* is lost on its way makes read_jobs raise: what was delivered is nobody's.
ReadDrops(j) ==
  /\ loop = "reading"
  /\ step[j] = "stream"
  /\ step' = [step EXCEPT ![j] = "raised"]
  /\ UNCHANGED <<spec, poolVars, session, temp, sent, flagged, error, out, faults>>

\* read_jobs raises, or finds nothing it can decode.
ReadNothing ==
  /\ loop = "reading"
  /\ loop' = "top"
  /\ UNCHANGED <<spec, pending, stop, procs, jobVars, faults>>

\* A mutant of Joined: the pool is not waited for.
JoinedAtOnce == loop = "joining"

\* Leaving "with ProcessPoolExecutor" waits for every future, and for every
\* subprocess of a broken pool.
Joined == loop = "joining" /\ IF Broken THEN procs = 0 ELSE pending \subseteq DoneJobs

Join ==
  /\ Joined
  /\ loop' = "down"
  /\ UNCHANGED <<spec, pending, stop, procs, jobVars, faults>>

\* Python 3.11 tells the subprocesses of a broken pool to end once they are
\* idle; 3.12 does not, and leaving the pool hangs.
JoinBroken ==
  /\ loop = "joining" /\ Broken
  /\ InPool = {}
  /\ loop' = "down"
  /\ UNCHANGED <<spec, pending, stop, procs, jobVars, faults>>

\* A subprocess is killed (OOM, a native crash), with the job it has or idle.
\* Calls on their way to a subprocess may be lost with it, and are when it was
\* the last one.
SubprocessDies ==
  /\ procs > 0 /\ loop # "down"
  /\ \E j \in Jobs : step[j] # "stream"
  /\ Fault
  /\ procs' = procs - 1
  /\ \E victim \in SUBSET InHand, lost \in SUBSET Queued :
       /\ Cardinality(victim) =< 1
       /\ victim = {} => Idle
       /\ procs = 1 => lost = Queued
       /\ step' = [j \in Jobs |-> IF j \in victim /\ step[j] = "published" THEN "unacked"
                                  ELSE IF j \in victim \cup lost THEN "raised" ELSE step[j]]
       /\ session' = [j \in Jobs |-> session[j] /\ j \notin victim]
  /\ UNCHANGED <<spec, loop, pending, stop, temp, sent, flagged, error, out>>

-----------------------------------------------------------------------------
(* _handle and execute, in a subprocess.                                   *)

To(j, s) == step' = [step EXCEPT ![j] = s]

\* A mutant of Raise: the session that raised is closed, which blocks.
RaiseBlocks(j) == error' = [error EXCEPT ![j] = "caught"] /\ To(j, "blocked")

\* The except of _run_cli, _run_netconf and _run_cve_scan: close is skipped.
Raise(j) == error' = [error EXCEPT ![j] = "caught"] /\ To(j, "over")

\* _handle answers by itself: no material, or execute raised.
Failed(j) == error' = [error EXCEPT ![j] = "escaped"] /\ To(j, "finished")

\* No credential material: a failed result without touching the device.
Refuse(j) ==
  /\ step[j] = "submitted" /\ Idle
  /\ ~spec[j].material
  /\ Failed(j)
  /\ UNCHANGED <<spec, poolVars, session, temp, sent, flagged, out, faults>>

\* _build_cli_driver, or the Netconf constructor.  The first is outside the
\* try of _run_cli: _handle answers for what it raises, and a definition
\* already written stays on disk.  The second is inside that of _run_netconf.
Build(j) ==
  /\ step[j] = "submitted" /\ Idle
  /\ spec[j].material
  /\ temp' = [temp EXCEPT ![j] = spec[j].driver = "cli" /\ spec[j].platform = "custom"]
  /\ \/ /\ spec[j].driver = "netconf" \/ spec[j].platform # "none"
        /\ To(j, "built") /\ error' = error
     \/ spec[j].driver = "netconf" /\ Raise(j)
     \/ spec[j].driver = "cli" /\ Failed(j)
  /\ UNCHANGED <<spec, poolVars, session, sent, flagged, out, faults>>

\* A mutant of Unlinked: only a session that opened removes the file.
UnlinkedOnOpen(j) == temp' = [temp EXCEPT ![j] = @ /\ step'[j] # "open"]

\* The definition is removed once the session is open, or in the finally.
Unlinked(j) == temp' = [temp EXCEPT ![j] = FALSE]

Open(j) ==
  /\ step[j] = "built"
  /\ \/ To(j, "open") /\ session' = [session EXCEPT ![j] = TRUE] /\ error' = error
     \/ Raise(j) /\ session' = session
  /\ Unlinked(j)
  /\ UNCHANGED <<spec, poolVars, sent, flagged, out, faults>>

\* What is to be sent; a netconf job without an RPC raises instead.
Total(j) == IF spec[j].driver = "cli" THEN spec[j].commands ELSE 1

Send(j) ==
  /\ step[j] = "open"
  /\ sent[j] < Total(j)
  /\ \/ /\ spec[j].driver = "cli" \/ spec[j].commands > 0
        /\ sent' = [sent EXCEPT ![j] = @ + 1]
        /\ \E bad \in BOOLEAN : flagged' = [flagged EXCEPT ![j] = @ \/ bad]
        /\ UNCHANGED <<step, error>>
     \/ Raise(j) /\ UNCHANGED <<sent, flagged>>
  /\ UNCHANGED <<spec, poolVars, session, temp, out, faults>>

\* close is inside the try, and skipped when something raised before it.
Close(j) ==
  /\ step[j] = "open"
  /\ sent[j] = Total(j)
  /\ \/ To(j, "over") /\ session' = [session EXCEPT ![j] = FALSE] /\ error' = error
     \/ Raise(j) /\ session' = session
  /\ UNCHANGED <<spec, poolVars, temp, sent, flagged, out, faults>>

\* A mutant of Success: a failed response is overlooked.
SuccessIfNoError(j) == error[j] = "none"

\* A NETCONF reply is not looked at: an rpc-error is a success.
Success(j) == error[j] = "none" /\ (spec[j].driver = "cli" => ~flagged[j])

\* What parse may do with what the device has answered, be it all of it or
\* not; without a parser, or without output, it is not called.
Parses(j) == IF spec[j].parser /\ sent[j] > 0
                /\ (spec[j].kind # "backup" \/ spec[j].driver = "netconf")
             THEN {"rows", "nothing", "raised"} ELSE {"no"}

\* The vulnerability entries of a cve_scan: a query that fails is logged and
\* adds nothing.
Entries(j, parsed) ==
  IF spec[j].kind = "cve_scan" /\ spec[j].driver = "cli" /\ error[j] = "none" /\ parsed = "rows"
  THEN {"found", "query_failed"} ELSE {"none"}

\* The JobResult; a backup carries its chunks even when it failed.
Finish(j) ==
  /\ step[j] = "over"
  /\ \E parsed \in Parses(j) : \E entries \in Entries(j, parsed) :
       out' = [out EXCEPT ![j] =
         [success |-> Success(j), parsed |-> parsed, entries |-> entries,
          chunks |-> IF spec[j].kind = "backup" THEN sent[j] ELSE 0]]
  /\ To(j, "finished")
  /\ UNCHANGED <<spec, poolVars, session, temp, sent, flagged, error, faults>>

Publish(j) ==
  /\ step[j] = "finished"
  /\ To(j, "published")
  /\ UNCHANGED <<spec, poolVars, session, temp, sent, flagged, error, out, faults>>

\* publish_result raises: the future ends, nobody answers for the job.
PublishFails(j) ==
  /\ step[j] = "finished"
  /\ Fault
  /\ To(j, "raised")
  /\ UNCHANGED <<spec, poolVars, session, temp, sent, flagged, error, out>>

Ack(j) ==
  /\ step[j] = "published"
  /\ To(j, "acked")
  /\ UNCHANGED <<spec, poolVars, session, temp, sent, flagged, error, out, faults>>

Handle(j) == \/ Refuse(j) \/ Build(j) \/ Open(j) \/ Send(j) \/ Close(j)
             \/ Finish(j) \/ Publish(j) \/ PublishFails(j) \/ Ack(j)
Loop == LoopTop \/ WaitFull \/ ReadJobs \/ ReadBroken \/ ReadNothing \/ Join

Next == Signal \/ Loop \/ JoinBroken \/ SubprocessDies
        \/ \E j \in Jobs : Handle(j) \/ ReadDrops(j)

\* The loop's waits are bounded, and so is every call to a device.  Nothing
\* is assumed of the end of a broken pool: it depends on the Python.
Fairness == WF_vars(Loop) /\ \A j \in Jobs : WF_vars(Handle(j))

Spec == Init /\ [][Next]_vars /\ Fairness

-----------------------------------------------------------------------------
TypeOK ==
  /\ spec \in Queues
  /\ loop \in {"top", "full", "reading", "joining", "down"}
  /\ pending \subseteq Jobs
  /\ step \in [Jobs -> Steps]
  /\ sent \in [Jobs -> Nat] /\ \A j \in Jobs : sent[j] =< Total(j)
  /\ error \in [Jobs -> {"none", "caught", "escaped"}]
  /\ procs \in 0..Concurrency
  /\ ~Broken => InPool \subseteq pending

\* A result that claims success speaks for a whole session: every command
\* was answered and none flagged, the session was closed, and a backup has
\* a chunk for each command.  (A NETCONF reply may be flagged.)
SuccessMeansTheWholeSession ==
  \A j \in Jobs : out[j].success =>
    /\ sent[j] = Total(j) /\ ~session[j]
    /\ spec[j].driver = "cli" => ~flagged[j]
    /\ spec[j].kind = "backup" => out[j].chunks = Total(j)

\* Past the opening of its session no job leaves a platform definition on
\* disk, however the session goes on (scrapli_runner.py:89-92, 158-205): the
\* only ones left are of drivers whose constructor raised and of processes
\* that were killed before.
DefinitionsAreRemoved ==
  \A j \in Jobs : temp[j] => \/ step[j] = "built"
                             \/ error[j] = "escaped"
                             \/ step[j] = "raised" /\ Broken

\* A worker that has ended, on a signal or by the exception of a broken pool,
\* has answered or given up by an exception everything it took, also what the
\* siblings of a lost subprocess had; the rest is still in the stream for
\* another worker (runner.py:113-143).
GracefulStopLeavesNothing ==
  loop = "down" => \A j \in Jobs : step[j] \in Ended \cup {"stream"}

\* Where a job stands for JobHandling.
Handled(j) ==
  IF step[j] = "stream" THEN "waiting"
  ELSE IF step[j] \in {"published", "acked", "unacked"} THEN "answered"
  ELSE IF step[j] = "raised" THEN "lost" ELSE "held"

\* The abstract account of a job: taken once, answered at most once, never
\* more of them held than there are subprocesses.
Handling == INSTANCE JobHandling WITH
  Capacity <- Concurrency, state <- [j \in Jobs |-> Handled(j)]
ImplementsHandling == Handling!Spec

\* A signal ends the worker, whatever its jobs are doing: close is never
\* called on a session that raised, because it would block.  The exception is
\* a pool that has lost some of its subprocesses and not all: the others wait
\* for calls that nobody sends and may keep the worker from ending.
StopEnds == stop ~> loop = "down" \/ (Broken /\ procs > 0)

\* A job that is submitted ends: answered, or lost with its process, also when
\* the pool breaks and its future has failed long before.
TakenEnds == \A j \in Jobs : step[j] = "submitted" ~> step[j] \in Ended
=============================================================================
