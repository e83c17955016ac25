----------------------------- MODULE Compliance -----------------------------
(***************************************************************************)
(* A compliance policy, the administrators who edit, run and delete it,    *)
(* and the recorder that runs it when a backup batch closes.               *)
(*                                                                         *)
(* Every request and the recorder's _persist is a READ COMMITTED           *)
(* transaction that reads in several queries and writes when it commits.   *)
(* An evaluation is three steps: read the policy row, its scope and the    *)
(* stored configurations; read the checks (loaded lazily by the first      *)
(* evaluate_policy); write the verdicts and commit.  An edit is two: read  *)
(* what is stored, write the difference.  Upserts of one row wait for each *)
(* other, so the transaction that commits last leaves its verdict.         *)
(*                                                                         *)
(* One policy is modelled.  How a batch gets to its last result is in      *)
(* Pipeline; here a device of the batch either stores a configuration or   *)
(* fails.                                                                  *)
(***************************************************************************)
EXTENDS ComplianceEngine, FiniteSets, Functions

CONSTANTS
  Devices, Groups,
  Members,      \* the devices of each group
  Batched,      \* the devices of every backup batch
  Definitions,  \* what a check can be: field, operator, expected, mode, severity
  Edited,       \* the definitions a form gives to stored checks
  Drafts,       \* on, parser, targets and added checks a form can carry
  WebWorkers,
  Recorder,
  NoContent,    \* no row in device_configs
  NoVerdict,    \* no row in compliance_results
  NoDevice,
  MaxId,        \* bound: check ids ever allocated
  MaxRequests,  \* bound: edits, runs and deletions begun
  MaxBatches    \* bound: backup batches

Targets == Groups \cup Devices

\* compliance_results: the verdict on a device and what it was reached with.
Verdicts == [status  : {"pass", "fail", "error", "skip"},
             parser  : Parsers, checks : SUBSET Definitions,
             content : Contents \cup {NoContent}]

\* The selects of the form offer three modes and four severities, and a form
\* has finitely many rows.
ASSUME ComplianceAssumption ==
  /\ Members \in [Groups -> SUBSET Devices]
  /\ Batched \subseteq Devices /\ NoDevice \notin Devices
  /\ Recorder \notin WebWorkers
  /\ NoContent \notin Contents /\ NoVerdict \notin Verdicts
  /\ Edited \subseteq Definitions
  /\ \A check \in Definitions : /\ check.mode \in {"any", "all", "none"}
                                /\ check.severity \in {"critical", "major", "minor", "info"}
  /\ Drafts \subseteq [on : BOOLEAN, parser : Parsers, targets : SUBSET Targets,
                      added : SUBSET Definitions]
  /\ \A draft \in Drafts : IsFiniteSet(draft.added)
  /\ MaxId \in Nat /\ MaxRequests \in Nat /\ MaxBatches \in Nat

VARIABLES
  policy,    \* the compliance_policies row; "on" is enabled and auto_evaluate
  scope,     \* its groups and devices
  checks,    \* compliance_checks: id -> definition
  content,   \* device_configs: device -> content
  results,   \* compliance_results: device -> verdict
  eval,      \* the evaluation in progress of each web process and of the recorder
  edit,      \* the update_policy request in progress of each web process
  batch,     \* the backup batch
  last,      \* the recorder's last result of the batch, while it is persisted
  nextId,    \* the next compliance_checks id
  requests   \* how much of MaxRequests has been used

policyVars == <<policy, scope, checks, nextId>>
storedVars == <<content, results>>
batchVars  == <<batch, last>>
vars == <<policyVars, storedVars, batchVars, eval, edit, requests>>

Evaluators == WebWorkers \cup {Recorder}

\* scoped_device_ids: a disabled device counts like any other.
DevicesOf(S) == (UNION {Members[g] : g \in S \cap Groups}) \cup (S \cap Devices)
Scoped       == DevicesOf(scope)

NoFun    == [x \in {} |-> {}]
Live     == policy.state = "live"
NoEval   == [at |-> "idle", parser |-> NoContent, pairs |-> NoFun,
             checks |-> {}, quiet |-> TRUE]
NoEdit   == [at |-> "idle", form |-> NoFun, read |-> NoFun, quiet |-> TRUE]
\* A web process serves one request at a time.
Accepts(w) == /\ eval[w].at = "idle" /\ edit[w].at = "idle"
              /\ requests < MaxRequests
              /\ requests' = requests + 1

Fresh(w) == [eval[w] EXCEPT !.quiet = FALSE]

\* The transactions other than a's that are in progress when a commits.
DisturbAll(a)   == [w \in Evaluators |-> IF w = a THEN NoEval ELSE Fresh(w)]
DisturbEdits(w) == [v \in WebWorkers |->
                      IF v = w THEN NoEdit ELSE [edit[v] EXCEPT !.quiet = FALSE]]

Init ==
  /\ policy = [state |-> "none", on |-> FALSE, parser |-> NoContent]
  /\ scope = {}
  /\ checks = NoFun
  /\ content = [d \in Devices |-> NoContent]
  /\ results = [d \in Devices |-> NoVerdict]
  /\ eval = [w \in Evaluators |-> NoEval]
  /\ edit = [w \in WebWorkers |-> NoEdit]
  /\ batch = [n |-> 0, open |-> FALSE, reported |-> {}, closed |-> "none"]
  /\ last = [device |-> NoDevice, stored |-> NoContent]
  /\ nextId = 1
  /\ requests = 0

-----------------------------------------------------------------------------
(* The policy forms: create_policy, update_policy, delete_policy.          *)

\* A mutant of Applied: stored checks the form does not list stay.
AppliedKeepsAll(form, stored) ==
  LET kept  == DOMAIN form.rows \cap DOMAIN stored
      fresh == form.added \cup {form.rows[i] : i \in DOMAIN form.rows \ kept}
  IN [kept |-> Restrict(form.rows, kept), gone |-> {}, fresh |-> fresh]

\* _apply_policy_data: a row of the form whose id is a stored check keeps
\* its id, any other becomes a new check, and stored checks the form does
\* not list go.
Applied(form, stored) ==
  LET kept  == DOMAIN form.rows \cap DOMAIN stored
      fresh == form.added \cup {form.rows[i] : i \in DOMAIN form.rows \ kept}
  IN [kept |-> Restrict(form.rows, kept),
      gone |-> DOMAIN stored \ kept,
      fresh |-> fresh]

\* A mutant of Numbered: an id of the sequence is skipped.
NumberedLate(defs) ==
  {f \in [nextId + 1 .. (nextId + Cardinality(defs)) -> defs] : Range(f) = defs}

\* New checks take the next ids, in any order.
Numbered(defs) ==
  {f \in [nextId .. (nextId + Cardinality(defs) - 1) -> defs] : Range(f) = defs}

CreatePolicy(w, draft) ==
  /\ policy.state = "none"
  /\ Accepts(w)
  /\ nextId + Cardinality(draft.added) - 1 =< MaxId
  /\ \E new \in Numbered(draft.added) :
       /\ policy' = [state |-> "live", on |-> draft.on, parser |-> draft.parser]
       /\ scope' = draft.targets
       /\ checks' = new
       /\ nextId' = nextId + Cardinality(draft.added)
  /\ eval' = DisturbAll(w)
  /\ UNCHANGED <<storedVars, edit, batchVars>>

\* The form may have been opened before other edits: its ids may be gone.
EditBegin(w, draft, rows) ==
  /\ Live
  /\ Accepts(w)
  /\ edit' = [edit EXCEPT ![w] =
       [at |-> "read", quiet |-> TRUE,
        form |-> [on |-> draft.on, parser |-> draft.parser,
                  targets |-> draft.targets, added |-> draft.added, rows |-> rows],
        read |-> [on |-> policy.on, parser |-> policy.parser,
                  targets |-> scope, checks |-> checks]]]
  /\ UNCHANGED <<policyVars, storedVars, eval, batchVars>>

\* Only what differs from what was read is written: a column, an
\* association row, a check.  A row that went in the meantime (UPDATE of a
\* check, DELETE of an association), or one that is already there (INSERT
\* of an association), fails the whole transaction.
EditConflicts(e, a) ==
  LET changed == {i \in DOMAIN a.kept : a.kept[i] # e.read.checks[i]} IN
  \/ ~Live
  \/ ~changed \subseteq DOMAIN checks
  \/ ~(e.read.targets \ e.form.targets) \subseteq scope
  \/ (e.form.targets \ e.read.targets) \cap scope # {}

EditCommit(w) ==
  LET e == edit[w]
      a == Applied(e.form, e.read.checks)
      changed == {i \in DOMAIN a.kept : a.kept[i] # e.read.checks[i]}
      Column(new, read, now) == IF new = read THEN now ELSE new
  IN
  /\ e.at = "read"
  /\ ~EditConflicts(e, a)
  /\ nextId + Cardinality(a.fresh) - 1 =< MaxId
  /\ policy' = [policy EXCEPT !.on = Column(e.form.on, e.read.on, @),
                              !.parser = Column(e.form.parser, e.read.parser, @)]
  /\ scope' = (scope \ (e.read.targets \ e.form.targets))
                \cup (e.form.targets \ e.read.targets)
  /\ \E new \in Numbered(a.fresh) :
       checks' = [i \in (DOMAIN checks \ a.gone) \cup DOMAIN new |->
                    IF i \in DOMAIN new THEN new[i]
                    ELSE IF i \in changed THEN a.kept[i] ELSE checks[i]]
  /\ nextId' = nextId + Cardinality(a.fresh)
  /\ edit' = DisturbEdits(w)
  /\ eval' = DisturbAll(w)
  /\ UNCHANGED <<storedVars, batchVars, requests>>

EditFails(w) ==
  /\ edit[w].at = "read"
  /\ EditConflicts(edit[w], Applied(edit[w].form, edit[w].read.checks))
  /\ edit' = [edit EXCEPT ![w] = NoEdit]
  /\ UNCHANGED <<policyVars, storedVars, eval, batchVars, requests>>

\* Checks, results and scope go with the policy.
DeletePolicy(w) ==
  /\ Live
  /\ Accepts(w)
  /\ policy' = [policy EXCEPT !.state = "deleted"]
  /\ scope' = {}
  /\ checks' = NoFun
  /\ results' = [d \in Devices |-> NoVerdict]
  /\ eval' = DisturbAll(w)
  /\ edit' = DisturbEdits(w)
  /\ UNCHANGED <<content, batchVars, nextId>>

-----------------------------------------------------------------------------
(* Evaluation: run_policy, and _auto_evaluate_compliance in the recorder.  *)

Stored == IF last.stored = NoContent THEN content
          ELSE [content EXCEPT ![last.device] = last.stored]

\* A mutant of Seen: the recorder evaluates before it stores.
SeenBefore(a) == content

\* What the evaluator sees of device_configs: the recorder sees the
\* configuration its own transaction has just stored.
Seen(a) == IF a = Recorder THEN Stored ELSE content

Reading(a, ds) ==
  [at |-> "read", parser |-> policy.parser, checks |-> {}, quiet |-> TRUE,
   pairs |-> [d \in ds |-> Seen(a)[d]]]

RunBegin(w) ==
  /\ Live
  /\ Accepts(w)
  /\ eval' = [eval EXCEPT ![w] = Reading(w, Scoped)]
  /\ UNCHANGED <<policyVars, storedVars, edit, batchVars>>

\* The devices of the batch a policy that is on covers; none otherwise.
Affected == IF Live /\ policy.on THEN Scoped \cap Batched ELSE {}

AutoBegin ==
  /\ last.device # NoDevice
  /\ eval[Recorder].at = "idle"
  /\ eval' = [eval EXCEPT ![Recorder] = Reading(Recorder, Affected)]
  /\ UNCHANGED <<policyVars, storedVars, edit, batchVars, requests>>

\* The checks of a policy deleted since are no rows at all.
EvalChecks(a) ==
  /\ eval[a].at = "read"
  /\ eval' = [eval EXCEPT ![a].at = "ready", ![a].checks = Range(checks)]
  /\ UNCHANGED <<policyVars, storedVars, edit, batchVars, requests>>

Raises(a) == \E d \in DOMAIN eval[a].pairs :
               /\ eval[a].pairs[d] # NoContent
               /\ EvaluationRaises(eval[a].parser, eval[a].checks, eval[a].pairs[d])

\* run_policy_for_devices: a device without a stored configuration is skipped.
VerdictOf(e, d) ==
  [status  |-> IF e.pairs[d] = NoContent THEN "skip"
               ELSE EvaluatePolicy(e.parser, e.checks, e.pairs[d]),
   parser  |-> e.parser, checks |-> e.checks, content |-> e.pairs[d]]

\* A mutant of Upserted: a device without a configuration is left out.
UpsertedStored(e) ==
  [d \in Devices |-> IF d \in DOMAIN e.pairs /\ e.pairs[d] # NoContent
                     THEN VerdictOf(e, d) ELSE results[d]]

\* upsert_compliance_results
Upserted(e) == [d \in Devices |-> IF d \in DOMAIN e.pairs THEN VerdictOf(e, d)
                                  ELSE results[d]]

\* A mutant of CanCommit: compliance_results.policy_id is no foreign key.
CanCommitAnyway(a) == ~Raises(a)

\* The foreign key to the policy refuses a verdict on a deleted one.
CanCommit(a) == ~Raises(a) /\ (DOMAIN eval[a].pairs = {} \/ Live)

RunCommit(w) ==
  /\ w # Recorder
  /\ eval[w].at = "ready"
  /\ CanCommit(w)
  /\ results' = Upserted(eval[w])
  /\ eval' = [eval EXCEPT ![w] = NoEval]
  /\ UNCHANGED <<policyVars, content, edit, batchVars, requests>>

\* The batch closes in the transaction that evaluated it.
AutoCommit ==
  /\ eval[Recorder].at = "ready"
  /\ CanCommit(Recorder)
  /\ results' = Upserted(eval[Recorder])
  /\ content' = Stored
  /\ batch' = [batch EXCEPT !.open = FALSE, !.closed = "results",
                            !.reported = @ \cup {last.device}]
  /\ last' = [device |-> NoDevice, stored |-> NoContent]
  /\ eval' = DisturbAll(Recorder)
  /\ UNCHANGED <<policyVars, edit, requests>>

\* The request answers 500; the recorder drops the result it was persisting
\* and the batch stays open.
EvalRollback(a) ==
  /\ eval[a].at = "ready"
  /\ ~CanCommit(a)
  /\ eval' = [eval EXCEPT ![a] = NoEval]
  /\ last' = IF a = Recorder THEN [device |-> NoDevice, stored |-> NoContent] ELSE last
  /\ batch' = IF a = Recorder THEN [batch EXCEPT !.reported = @ \cup {last.device}] ELSE batch
  /\ UNCHANGED <<policyVars, storedVars, edit, requests>>

-----------------------------------------------------------------------------
(* Backup batches, as the recorder persists them.                          *)

BatchOpens ==
  /\ ~batch.open
  /\ batch.n < MaxBatches
  /\ batch' = [n |-> batch.n + 1, open |-> TRUE, reported |-> {}, closed |-> "none"]
  /\ UNCHANGED <<policyVars, storedVars, eval, edit, last, requests>>

\* A result that is not the last one; NoContent stands for a failed run.
ResultStored(d, c) ==
  /\ batch.open
  /\ last.device = NoDevice
  /\ d \in Batched \ batch.reported
  /\ Batched \ batch.reported # {d}
  /\ batch' = [batch EXCEPT !.reported = @ \cup {d}]
  /\ content' = IF c = NoContent THEN content ELSE [content EXCEPT ![d] = c]
  /\ eval' = [w \in Evaluators |-> Fresh(w)]
  /\ UNCHANGED <<policyVars, results, edit, last, requests>>

LastResult(d, c) ==
  /\ batch.open
  /\ last.device = NoDevice
  /\ Batched \ batch.reported = {d}
  /\ last' = [device |-> d, stored |-> c]
  /\ UNCHANGED <<policyVars, storedVars, eval, edit, batch, requests>>

\* The reaper or an administrator closes the batch; nothing is evaluated.
ClosedByForce ==
  /\ batch.open
  /\ last.device = NoDevice
  /\ batch' = [batch EXCEPT !.open = FALSE, !.closed = "force"]
  /\ UNCHANGED <<policyVars, storedVars, eval, edit, last, requests>>

-----------------------------------------------------------------------------
FormRows == UNION {[S -> Edited] : S \in SUBSET (1 .. nextId - 1)}

Next ==
  \/ \E w \in WebWorkers :
       \/ \E draft \in Drafts : CreatePolicy(w, draft)
       \/ \E draft \in Drafts, rows \in FormRows : EditBegin(w, draft, rows)
       \/ EditCommit(w) \/ EditFails(w)
       \/ DeletePolicy(w)
       \/ RunBegin(w) \/ RunCommit(w)
  \/ AutoBegin \/ AutoCommit
  \/ \E a \in Evaluators : EvalChecks(a) \/ EvalRollback(a)
  \/ BatchOpens \/ ClosedByForce
  \/ \E d \in Batched, c \in Contents \cup {NoContent} : ResultStored(d, c) \/ LastResult(d, c)

Spec == Init /\ [][Next]_vars
-----------------------------------------------------------------------------
TypeOK ==
  /\ policy \in [state : {"none", "live", "deleted"}, on : BOOLEAN,
                 parser : Parsers \cup {NoContent}]
  /\ scope \subseteq Targets
  /\ nextId \in 1 .. MaxId + 1 /\ requests \in 0 .. MaxRequests
  /\ DOMAIN checks \subseteq 1 .. nextId - 1 /\ Range(checks) \subseteq Definitions
  /\ content \in [Devices -> Contents \cup {NoContent}]
  /\ \A d \in Devices : results[d] = NoVerdict \/ results[d] \in Verdicts
  /\ \A a \in Evaluators : /\ eval[a].at \in {"idle", "read", "ready"}
                           /\ DOMAIN eval[a].pairs \subseteq Devices
  /\ last.device \in Batched \cup {NoDevice}

\* What an administrator can be shown against a check: that nothing was
\* parsed, a row that breaks "all" or "none", or that no row meets "any".
Broken(check, rows) ==
  \/ check.mode = "any"  /\ \A r \in rows : ~Satisfies(r, check)
  \/ check.mode = "all"  /\ (rows = {} \/ \E r \in rows : ~Satisfies(r, check))
  \/ check.mode = "none" /\ \E r \in rows : Satisfies(r, check)

\* A stored fail can be shown to have a cause among the critical, major and
\* minor checks it was reached with, a stored pass to have none; an info
\* check excuses nothing and fails nothing (compliance.py:73-140).
VerdictsAreJustified ==
  \A d \in Devices : results[d] # NoVerdict /\ results[d].status \in {"pass", "fail"} =>
    LET v == results[d]
        binding == {c \in v.checks : c.severity \in {"critical", "major", "minor"}}
    IN (v.status = "fail") =
         (\E c \in binding : Broken(c, Parsed[<<v.parser, v.content>>]))

\* Nothing is left of a deleted policy, even when an evaluation that read
\* it before is still to write: routes/compliance.py:235-242 against the
\* upserts of the web processes and of the recorder.
DeletedPolicyLeavesNothing ==
  ~Live => /\ \A d \in Devices : results[d] = NoVerdict
           /\ checks = NoFun /\ scope = {}

\* An evaluation during which nothing else committed leaves, on every
\* device it is for, a verdict reached with the parser, the checks and the
\* configuration that are stored - unless a pattern does not compile.
QuietRunIsCurrent ==
  [][\A a \in Evaluators :
       eval[a].at = "ready" /\ eval'[a].at = "idle" /\ eval[a].quiet =>
         \/ \E c \in Range(checks) : c.operator = "regex" /\ c.expected \notin Patterns
         \/ \A d \in (IF a = Recorder THEN Affected ELSE Scoped) :
              /\ results'[d] # NoVerdict
              /\ results'[d].parser = policy'.parser
              /\ results'[d].checks = Range(checks')
              /\ results'[d].content = content'[d]]_vars

\* A batch that closes through its last result leaves a verdict on the
\* configuration then stored for every device the policy covered when the
\* recorder looked, the last one's included, whatever edits and manual runs
\* were in progress (recorder/runner.py:236-270).
ClosingEvaluatesWhatIsStored ==
  [][batch.open /\ batch'.closed = "results" =>
       \A d \in DOMAIN eval[Recorder].pairs : results'[d].content = content'[d]]_vars

\* A form saved while no other edit was in progress is the policy: its
\* checks, no more and no less, its scope and its parser, even if the form
\* was opened before earlier edits (routes/compliance.py:43-104).
SavedFormIsThePolicy ==
  [][\A w \in WebWorkers :
       LET form == edit[w].form IN
       (/\ edit[w].at = "read" /\ edit[w].quiet /\ edit'[w].at = "idle"
        /\ ~EditConflicts(edit[w], Applied(form, edit[w].read.checks))) =>
         /\ Range(checks') = Range(form.rows) \cup form.added
         /\ scope' = form.targets
         /\ policy'.parser = form.parser]_vars

\* Adding checks to a policy never turns a device's fail into a pass: from
\* one verdict to the next on the same configuration and parser, a fail is
\* excused only if a check went.
AddingChecksNeverExcuses ==
  [][\A d \in Devices :
       LET v == results[d] u == results'[d] IN
       /\ v # NoVerdict /\ u # NoVerdict
       /\ v.parser = u.parser /\ v.content = u.content
       /\ v.status = "fail" /\ u.status = "pass"
       => ~v.checks \subseteq u.checks]_vars
=============================================================================
