-------------------------- MODULE ComplianceProofs --------------------------
(***************************************************************************)
(* Proofs about Compliance, for any policies, checks, devices and web      *)
(* processes: that verdicts are the checks', what an evaluation speaks of  *)
(* when others commit meanwhile, that a form is saved as it is, and that   *)
(* nothing survives the policy.                                            *)
(***************************************************************************)
EXTENDS Compliance, FiniteSetTheorems, TLAPS

-----------------------------------------------------------------------------
(* Types, in the shape that a step needs to preserve them.                 *)

CheckMaps  == UNION {[S -> Definitions] : S \in SUBSET Nat}
Pairs      == UNION {[S -> Contents \cup {NoContent}] : S \in SUBSET Devices}
Form       == [on : BOOLEAN, parser : Parsers, targets : SUBSET Targets,
               added : {A \in SUBSET Definitions : IsFiniteSet(A)},
               rows : {f \in CheckMaps : IsFiniteSet(DOMAIN f)}]
PolicyRead == [on : BOOLEAN, parser : Parsers \cup {NoContent},
               targets : SUBSET Targets, checks : CheckMaps]
Edit       == [at : {"idle", "read"}, form : Form \cup {NoFun},
               read : PolicyRead \cup {NoFun}, quiet : BOOLEAN]
Eval       == [at : {"idle", "read", "ready"}, parser : Parsers \cup {NoContent},
               pairs : Pairs, checks : SUBSET Definitions, quiet : BOOLEAN]
Last       == [device : Batched \cup {NoDevice}, stored : Contents \cup {NoContent}]
Batch      == [n : Nat, open : BOOLEAN, reported : SUBSET (Batched \cup {NoDevice}),
               closed : {"none", "results", "force"}]

PolicyTypes ==
  /\ policy \in [state : {"none", "live", "deleted"}, on : BOOLEAN,
                 parser : Parsers \cup {NoContent}]
  /\ Live => policy.parser \in Parsers
  /\ scope \subseteq Targets
  /\ nextId \in 1 .. MaxId + 1
  /\ checks \in CheckMaps /\ DOMAIN checks \subseteq 1 .. nextId - 1

StoredTypes ==
  /\ content \in [Devices -> Contents \cup {NoContent}]
  /\ results \in [Devices -> Verdicts \cup {NoVerdict}]

EvalTypes ==
  /\ eval \in [Evaluators -> Eval]
  /\ \A a \in Evaluators : DOMAIN eval[a].pairs # {} => eval[a].parser \in Parsers

EditTypes ==
  /\ edit \in [WebWorkers -> Edit]
  /\ \A w \in WebWorkers :
       edit[w].at = "read" => edit[w].form \in Form /\ edit[w].read \in PolicyRead

ComplianceTypes ==
  /\ PolicyTypes /\ StoredTypes /\ EvalTypes /\ EditTypes
  /\ last \in Last /\ batch \in Batch /\ requests \in 0 .. MaxRequests

-----------------------------------------------------------------------------
(* The inductive invariant.                                                *)

\* A web process serves one request at a time, and edits a policy that was
\* there when it began.
OneRequest ==
  \A w \in WebWorkers :
    edit[w].at = "read" => eval[w].at = "idle" /\ policy.state # "none"

\* The recorder evaluates while it persists the last result of a batch, and
\* what it read is what its transaction will leave stored.
RecorderReadsWhatItStores ==
  eval[Recorder].at # "idle" =>
    /\ last.device # NoDevice
    /\ \A d \in DOMAIN eval[Recorder].pairs : eval[Recorder].pairs[d] = Stored[d]

OpenHasNoOutcome == batch.open => batch.closed = "none"

\* The devices that an evaluation is for.
Covered(a) == IF a = Recorder THEN Affected ELSE Scoped

\* What was read by an evaluation that nobody has disturbed is current.
EvalIsCurrent(a) ==
  eval[a].at # "idle" /\ eval[a].quiet =>
    /\ eval[a].parser = policy.parser
    /\ DOMAIN eval[a].pairs = Covered(a)
    /\ \A d \in DOMAIN eval[a].pairs : eval[a].pairs[d] = Seen(a)[d]
    /\ eval[a].at = "ready" => eval[a].checks = Range(checks)
QuietEvalIsCurrent == \A a \in Evaluators : EvalIsCurrent(a)

\* So is what was read by such an edit.
EditIsCurrent(w) ==
  edit[w].at = "read" /\ edit[w].quiet =>
    edit[w].read = [on |-> policy.on, parser |-> policy.parser,
                    targets |-> scope, checks |-> checks]
QuietEditIsCurrent == \A w \in WebWorkers : EditIsCurrent(w)

ComplianceInv ==
  /\ ComplianceTypes /\ OneRequest /\ RecorderReadsWhatItStores /\ OpenHasNoOutcome
  /\ QuietEvalIsCurrent /\ QuietEditIsCurrent
  /\ VerdictsAreJustified /\ DeletedPolicyLeavesNothing

-----------------------------------------------------------------------------
(* Lemmas about maps and forms.                                            *)

LEMMA EmptyMaps == NoFun \in CheckMaps /\ NoFun \in Pairs /\ DOMAIN NoFun = {}
<1>1. NoFun \in [{} -> Definitions] /\ NoFun \in [{} -> Contents \cup {NoContent}]
  BY DEF NoFun
<1> QED
  BY <1>1 DEF CheckMaps, Pairs, NoFun

LEMMA CheckMapType ==
  ASSUME NEW f \in CheckMaps
  PROVE  /\ DOMAIN f \subseteq Nat /\ f \in [DOMAIN f -> Definitions]
         /\ Range(f) \subseteq Definitions
         /\ \A i \in DOMAIN f : f[i] \in Definitions
<1>1. PICK S \in SUBSET Nat : f \in [S -> Definitions]
  BY DEF CheckMaps
<1> QED
  BY <1>1 DEF Range

LEMMA PairsType ==
  ASSUME NEW f \in Pairs
  PROVE  DOMAIN f \subseteq Devices /\ \A d \in DOMAIN f : f[d] \in Contents \cup {NoContent}
BY DEF Pairs

LEMMA ScopedAreDevices == DevicesOf(scope) \subseteq Devices
<1>1. \A g \in Groups : Members[g] \subseteq Devices
  BY ComplianceAssumption
<1>2. ASSUME NEW d \in DevicesOf(scope), d \notin Devices PROVE FALSE
  <2>1. d \in UNION {Members[g] : g \in scope \cap Groups}
    BY <1>2 DEF DevicesOf
  <2>2. PICK g \in scope \cap Groups : d \in Members[g]
    BY <2>1
  <2> QED
    BY <1>1, <1>2, <2>2
<1> QED
  BY <1>2

\* Ids of new checks follow nextId and are as many as there are checks.
LEMMA NumberedChecks ==
  ASSUME NEW defs \in SUBSET Definitions, IsFiniteSet(defs), nextId \in Nat,
         NEW new \in Numbered(defs)
  PROVE  /\ Cardinality(defs) \in Nat /\ Range(new) = defs
         /\ DOMAIN new = nextId .. nextId + Cardinality(defs) - 1
         /\ new \in [DOMAIN new -> Definitions]
<1>1. Cardinality(defs) \in Nat
  BY FS_CardinalityType
<1>2. new \in [nextId .. (nextId + Cardinality(defs) - 1) -> defs] /\ Range(new) = defs
  BY DEF Numbered
<1> QED
  BY <1>1, <1>2

\* What _apply_policy_data makes of a form and the stored checks.
LEMMA AppliedForm ==
  ASSUME NEW form \in Form, NEW stored \in CheckMaps
  PROVE  /\ DOMAIN Applied(form, stored).kept = DOMAIN form.rows \cap DOMAIN stored
         /\ \A i \in DOMAIN form.rows \cap DOMAIN stored :
              Applied(form, stored).kept[i] = form.rows[i] /\ form.rows[i] \in Definitions
         /\ Applied(form, stored).gone = DOMAIN stored \ DOMAIN form.rows
         /\ Applied(form, stored).fresh =
              form.added \cup {form.rows[i] : i \in DOMAIN form.rows \ DOMAIN stored}
         /\ Applied(form, stored).fresh \subseteq Definitions
         /\ IsFiniteSet(Applied(form, stored).fresh)
<1> DEFINE kept  == DOMAIN form.rows \cap DOMAIN stored
           newly == DOMAIN form.rows \ DOMAIN stored
           fresh == form.added \cup {form.rows[i] : i \in DOMAIN form.rows \ kept}
<1>1. /\ form.rows \in CheckMaps /\ IsFiniteSet(DOMAIN form.rows)
      /\ form.added \subseteq Definitions /\ IsFiniteSet(form.added)
  BY DEF Form
<1>2. DOMAIN form.rows \ kept = newly /\ DOMAIN stored \ kept = DOMAIN stored \ DOMAIN form.rows
  OBVIOUS
<1>3. \A i \in DOMAIN form.rows : form.rows[i] \in Definitions
  BY <1>1, CheckMapType
<1>4. IsFiniteSet(newly)
  BY <1>1, FS_Subset
<1>5. IsFiniteSet({form.rows[i] : i \in newly})
  <2>1. [i \in newly |-> form.rows[i]] \in Surjection(newly, {form.rows[i] : i \in newly})
    BY DEF Surjection
  <2> QED
    BY <1>4, <2>1, FS_Surjection
<1>6. IsFiniteSet(form.added \cup {form.rows[i] : i \in newly})
  BY <1>1, <1>5, FS_Union
<1>7. fresh = form.added \cup {form.rows[i] : i \in newly}
  BY <1>2
<1>8. /\ Applied(form, stored).kept = [i \in kept |-> form.rows[i]]
      /\ Applied(form, stored).gone = DOMAIN stored \ kept
      /\ Applied(form, stored).fresh = fresh
  BY DEF Applied, Restrict
<1>9. /\ DOMAIN Applied(form, stored).kept = DOMAIN form.rows \cap DOMAIN stored
      /\ \A i \in DOMAIN form.rows \cap DOMAIN stored :
           Applied(form, stored).kept[i] = form.rows[i]
  BY <1>8
<1>10. Applied(form, stored).gone = DOMAIN stored \ DOMAIN form.rows
  BY <1>2, <1>8
<1>11. Applied(form, stored).fresh =
         form.added \cup {form.rows[i] : i \in DOMAIN form.rows \ DOMAIN stored}
  BY <1>7, <1>8
<1>12. form.added \cup {form.rows[i] : i \in newly} \subseteq Definitions
  BY <1>1, <1>3
<1> QED
  BY <1>3, <1>6, <1>9, <1>10, <1>11, <1>12

-----------------------------------------------------------------------------
(* Lemmas about evaluations and verdicts.                                  *)

LEMMA IdleTypes == NoEval \in Eval /\ NoEdit \in Edit /\ DOMAIN NoEval.pairs = {}
<1>1. /\ NoEval.at = "idle" /\ NoEval.parser = NoContent /\ NoEval.pairs = NoFun
      /\ NoEval.checks = {} /\ NoEval.quiet = TRUE
  BY DEF NoEval
<1>2. NoEval \in Eval
  BY EmptyMaps DEF NoEval, Eval
<1>3. NoEdit \in Edit
  BY DEF NoEdit, Edit
<1> QED
  BY <1>1, <1>2, <1>3, EmptyMaps

\* The devices an evaluation is for.
LEMMA CoveredAreDevices ==
  ASSUME NEW a \in Evaluators
  PROVE  Covered(a) \subseteq Devices /\ (~Live /\ scope = {} => Covered(a) = {})
<1>1. scope = {} => Scoped = {}
  BY DEF Scoped, DevicesOf
<1> QED
  BY <1>1, ScopedAreDevices DEF Covered, Affected, Scoped

\* What a commit of another transaction does to an evaluation.
LEMMA FreshEval ==
  ASSUME EvalTypes, NEW a \in Evaluators
  PROVE  /\ Fresh(a) \in Eval
         /\ ~Fresh(a).quiet
         /\ Fresh(a).at = eval[a].at /\ Fresh(a).parser = eval[a].parser
         /\ Fresh(a).pairs = eval[a].pairs /\ Fresh(a).checks = eval[a].checks
BY DEF EvalTypes, Fresh, Eval

LEMMA DisturbedEvals ==
  ASSUME EvalTypes, NEW a, eval' = DisturbAll(a)
  PROVE  /\ EvalTypes'
         /\ a \in Evaluators => eval'[a] = NoEval
         /\ \A b \in Evaluators : b # a =>
              /\ ~eval'[b].quiet /\ eval'[b].at = eval[b].at
              /\ eval'[b].parser = eval[b].parser
              /\ eval'[b].pairs = eval[b].pairs /\ eval'[b].checks = eval[b].checks
<1>1. \A b \in Evaluators : eval'[b] = IF b = a THEN NoEval ELSE Fresh(b)
  BY DEF DisturbAll
<1>2. eval' \in [Evaluators -> Eval]
  BY <1>1, FreshEval, IdleTypes DEF DisturbAll
<1>3. \A b \in Evaluators : DOMAIN eval'[b].pairs # {} => eval'[b].parser \in Parsers
  BY <1>1, FreshEval, IdleTypes DEF EvalTypes
<1> QED
  BY <1>1, <1>2, <1>3, FreshEval DEF EvalTypes

LEMMA DisturbedEditions ==
  ASSUME EditTypes, NEW w \in WebWorkers, edit' = DisturbEdits(w)
  PROVE  /\ EditTypes'
         /\ edit'[w] = NoEdit
         /\ \A v \in WebWorkers : v # w =>
              /\ ~edit'[v].quiet /\ edit'[v].at = edit[v].at
              /\ edit'[v].form = edit[v].form /\ edit'[v].read = edit[v].read
<1>1. \A v \in WebWorkers : edit'[v] = IF v = w THEN NoEdit ELSE [edit[v] EXCEPT !.quiet = FALSE]
  BY DEF DisturbEdits
<1>2. ASSUME NEW v \in WebWorkers, v # w
      PROVE  /\ edit'[v] \in Edit
             /\ ~edit'[v].quiet /\ edit'[v].at = edit[v].at
             /\ edit'[v].form = edit[v].form /\ edit'[v].read = edit[v].read
  <2>1. edit[v] \in Edit /\ edit'[v] = [edit[v] EXCEPT !.quiet = FALSE]
    BY <1>1, <1>2 DEF EditTypes
  <2> QED
    BY <2>1 DEF Edit
<1>3. edit' \in [WebWorkers -> Edit]
  BY <1>1, <1>2, IdleTypes DEF DisturbEdits
<1>4. NoEdit.at = "idle"
  BY DEF NoEdit
<1> QED
  BY <1>1, <1>2, <1>3, <1>4 DEF EditTypes

\* What an evaluation reads.
LEMMA ReadingType ==
  ASSUME ComplianceTypes, NEW a \in Evaluators, NEW ds \in SUBSET Devices
  PROVE  /\ Reading(a, ds) \in Eval
         /\ Reading(a, ds).at = "read" /\ Reading(a, ds).parser = policy.parser
         /\ DOMAIN Reading(a, ds).pairs = ds
         /\ \A d \in ds : Reading(a, ds).pairs[d] = Seen(a)[d]
<1>1. content \in [Devices -> Contents \cup {NoContent}] /\ last.stored \in Contents \cup {NoContent}
  BY DEF ComplianceTypes, StoredTypes, Last
<1>2. Stored \in [Devices -> Contents \cup {NoContent}]
  BY <1>1 DEF Stored
<1>3. Seen(a) \in [Devices -> Contents \cup {NoContent}]
  BY <1>1, <1>2 DEF Seen
<1>4. [d \in ds |-> Seen(a)[d]] \in [ds -> Contents \cup {NoContent}]
  BY <1>3
<1>5. [d \in ds |-> Seen(a)[d]] \in Pairs
  BY <1>4 DEF Pairs
<1> QED
  BY <1>5 DEF Reading, Eval, ComplianceTypes, PolicyTypes

LEMMA VerdictType ==
  ASSUME EvalTypes, NEW a \in Evaluators, NEW d \in DOMAIN eval[a].pairs
  PROVE  /\ VerdictOf(eval[a], d) \in Verdicts
         /\ VerdictOf(eval[a], d) # NoVerdict
<1>1. eval[a] \in Eval /\ eval[a].parser \in Parsers
  BY DEF EvalTypes
<1>2. eval[a].pairs[d] \in Contents \cup {NoContent} /\ eval[a].checks \subseteq Definitions
  BY <1>1, PairsType DEF Eval
<1>3. VerdictOf(eval[a], d).status \in {"pass", "fail", "error", "skip"}
  BY DEF VerdictOf, EvaluatePolicy
<1>4. VerdictOf(eval[a], d) \in Verdicts
  BY <1>1, <1>2, <1>3 DEF VerdictOf, Verdicts
<1> QED
  BY <1>4, ComplianceAssumption

\* What an evaluation stores.
LEMMA UpsertType ==
  ASSUME EvalTypes, StoredTypes, NEW a \in Evaluators
  PROVE  Upserted(eval[a]) \in [Devices -> Verdicts \cup {NoVerdict}]
BY VerdictType DEF StoredTypes, Upserted

\* A check passes exactly when nothing can be shown against it.
LEMMA PassesIsUnbroken ==
  ASSUME NEW check, check.mode \in {"any", "all", "none"}, NEW rows
  PROVE  Passes(check, rows) <=> ~Broken(check, rows)
<1>1. CASE rows = {}
  BY <1>1 DEF Passes, Broken
<1>2. CASE rows # {}
  BY <1>2 DEF Passes, Broken
<1> QED
  BY <1>1, <1>2

Binding(v) == {c \in v.checks : c.severity \in {"critical", "major", "minor"}}

\* A verdict says what its checks say.
Justified(v) ==
  v.status \in {"pass", "fail"} =>
    ((v.status = "fail") =
       (\E c \in Binding(v) : Broken(c, Parsed[<<v.parser, v.content>>])))

LEMMA VerdictIsJustified ==
  ASSUME EvalTypes, NEW a \in Evaluators, NEW d \in DOMAIN eval[a].pairs
  PROVE  Justified(VerdictOf(eval[a], d))
<1> DEFINE v == VerdictOf(eval[a], d)
<1>1. /\ v.parser = eval[a].parser /\ v.checks = eval[a].checks /\ v.content = eval[a].pairs[d]
      /\ v.status = IF eval[a].pairs[d] = NoContent THEN "skip"
                    ELSE EvaluatePolicy(eval[a].parser, eval[a].checks, eval[a].pairs[d])
  BY DEF VerdictOf
<1>2. \A c \in v.checks : /\ c.mode \in {"any", "all", "none"}
                         /\ c.severity \in {"critical", "major", "minor", "info"}
  BY <1>1, ComplianceAssumption DEF EvalTypes, Eval
<1> HIDE DEF v
<1>3. SUFFICES ASSUME v.status \in {"pass", "fail"}
               PROVE  (v.status = "fail") =
                        (\E c \in Binding(v) : Broken(c, Parsed[<<v.parser, v.content>>]))
  BY DEF v, Justified
<1>4. v.status = EvaluatePolicy(v.parser, v.checks, v.content)
  BY <1>1, <1>3
<1>5. (v.status = "fail") =
        \E c \in v.checks : c.severity # "info" /\ ~Passes(c, Parsed[<<v.parser, v.content>>])
  BY <1>3, <1>4 DEF EvaluatePolicy
<1>6. \A c \in v.checks :
        Passes(c, Parsed[<<v.parser, v.content>>]) <=> ~Broken(c, Parsed[<<v.parser, v.content>>])
  BY <1>2, PassesIsUnbroken
<1>7. \A c \in v.checks : c.severity # "info" <=> c \in Binding(v)
  BY <1>2 DEF Binding
<1>8. Binding(v) \subseteq v.checks
  BY DEF Binding
<1> QED
  BY <1>5, <1>6, <1>7, <1>8

LEMMA JustifiedVerdicts ==
  VerdictsAreJustified <=> \A d \in Devices : results[d] # NoVerdict => Justified(results[d])
BY DEF VerdictsAreJustified, Justified, Binding

-----------------------------------------------------------------------------
(* Types.                                                                  *)

LEMMA InitComplianceTypes == Init => ComplianceTypes
<1> SUFFICES ASSUME Init PROVE ComplianceTypes
  OBVIOUS
<1> USE ComplianceAssumption, EmptyMaps, IdleTypes
<1>1. PolicyTypes
  BY DEF Init, PolicyTypes, Live
<1>2. StoredTypes
  BY DEF Init, StoredTypes
<1>3. EvalTypes
  BY DEF Init, EvalTypes
<1>4. EditTypes
  BY DEF Init, EditTypes, NoEdit
<1>5. last \in Last /\ batch \in Batch /\ requests \in 0 .. MaxRequests
  BY DEF Init, Last, Batch
<1> QED
  BY <1>1, <1>2, <1>3, <1>4, <1>5 DEF ComplianceTypes

\* Whoever leaves variables alone keeps their types.
LEMMA UntouchedTypes ==
  ASSUME ComplianceTypes
  PROVE  /\ UNCHANGED policyVars => PolicyTypes'
         /\ UNCHANGED storedVars => StoredTypes'
         /\ UNCHANGED eval => EvalTypes'
         /\ UNCHANGED edit => EditTypes'
         /\ UNCHANGED last => (last \in Last)'
         /\ UNCHANGED batch => (batch \in Batch)'
         /\ UNCHANGED requests => (requests \in 0 .. MaxRequests)'
BY DEF ComplianceTypes, PolicyTypes, StoredTypes, EvalTypes, EditTypes, policyVars, storedVars, Live

LEMMA AcceptedTypes ==
  ASSUME ComplianceTypes, NEW w \in WebWorkers, Accepts(w)
  PROVE  (requests \in 0 .. MaxRequests)'
BY ComplianceAssumption DEF ComplianceTypes, Accepts

\* An evaluation is replaced.
LEMMA OneEvalChanges ==
  ASSUME EvalTypes, NEW a \in Evaluators, NEW e \in Eval, eval' = [eval EXCEPT ![a] = e],
         DOMAIN e.pairs # {} => e.parser \in Parsers
  PROVE  EvalTypes' /\ eval'[a] = e /\ \A b \in Evaluators : b # a => eval'[b] = eval[b]
BY DEF EvalTypes

LEMMA OneEditChanges ==
  ASSUME EditTypes, NEW w \in WebWorkers, NEW e \in Edit, edit' = [edit EXCEPT ![w] = e],
         e.at = "read" => e.form \in Form /\ e.read \in PolicyRead
  PROVE  EditTypes' /\ edit'[w] = e /\ \A v \in WebWorkers : v # w => edit'[v] = edit[v]
BY DEF EditTypes

LEMMA WorkersEvaluate == WebWorkers \subseteq Evaluators /\ Recorder \in Evaluators
BY DEF Evaluators

LEMMA CreateTypes ==
  ASSUME ComplianceTypes, NEW w \in WebWorkers, NEW draft \in Drafts, CreatePolicy(w, draft)
  PROVE  ComplianceTypes'
<1>1. /\ draft.on \in BOOLEAN /\ draft.parser \in Parsers /\ draft.targets \subseteq Targets
      /\ draft.added \in SUBSET Definitions /\ IsFiniteSet(draft.added)
  BY ComplianceAssumption
<1>2. nextId \in Nat /\ nextId > 0 /\ MaxId \in Nat
  BY ComplianceAssumption DEF ComplianceTypes, PolicyTypes
<1>3. PICK new \in Numbered(draft.added) :
        /\ policy' = [state |-> "live", on |-> draft.on, parser |-> draft.parser]
        /\ scope' = draft.targets
        /\ checks' = new
        /\ nextId' = nextId + Cardinality(draft.added)
  BY DEF CreatePolicy
<1>4. /\ Cardinality(draft.added) \in Nat
      /\ DOMAIN new = nextId .. nextId + Cardinality(draft.added) - 1
      /\ new \in [DOMAIN new -> Definitions]
  BY <1>1, <1>2, NumberedChecks
<1>5. new \in CheckMaps
  <2>1. DOMAIN new \in SUBSET Nat
    BY <1>2, <1>4
  <2> QED
    BY <1>4, <2>1 DEF CheckMaps
<1>6. nextId' \in 1 .. MaxId + 1 /\ DOMAIN new \subseteq 1 .. nextId' - 1
  BY <1>2, <1>3, <1>4 DEF CreatePolicy
<1>7. PolicyTypes'
  BY <1>1, <1>3, <1>5, <1>6 DEF PolicyTypes, Live
<1> QED
  BY <1>7, UntouchedTypes, AcceptedTypes, DisturbedEvals
     DEF CreatePolicy, ComplianceTypes, batchVars

LEMMA EditBeginTypes ==
  ASSUME ComplianceTypes, NEW w \in WebWorkers, NEW draft \in Drafts, NEW rows \in FormRows,
         EditBegin(w, draft, rows)
  PROVE  ComplianceTypes'
<1>1. /\ draft.on \in BOOLEAN /\ draft.parser \in Parsers /\ draft.targets \subseteq Targets
      /\ draft.added \in SUBSET Definitions /\ IsFiniteSet(draft.added)
  BY ComplianceAssumption
<1>2. rows \in CheckMaps /\ IsFiniteSet(DOMAIN rows)
  <2>1. PICK S \in SUBSET (1 .. nextId - 1) : rows \in [S -> Edited]
    BY DEF FormRows
  <2>2. nextId - 1 \in Int /\ 1 \in Int
    BY DEF ComplianceTypes, PolicyTypes
  <2>3. IsFiniteSet(1 .. nextId - 1)
    BY <2>2, FS_Interval
  <2>4. IsFiniteSet(S)
    BY <2>3, FS_Subset
  <2>5. S \in SUBSET Nat /\ rows \in [S -> Definitions]
    BY <2>1, <2>2, ComplianceAssumption
  <2> QED
    BY <2>4, <2>5 DEF CheckMaps
<1> DEFINE form == [on |-> draft.on, parser |-> draft.parser, targets |-> draft.targets,
                    added |-> draft.added, rows |-> rows]
           read == [on |-> policy.on, parser |-> policy.parser, targets |-> scope,
                    checks |-> checks]
           e    == [at |-> "read", quiet |-> TRUE, form |-> form, read |-> read]
<1>3. form \in Form
  BY <1>1, <1>2 DEF Form
<1>4. read \in PolicyRead
  BY DEF PolicyRead, ComplianceTypes, PolicyTypes
<1>5. e \in Edit /\ e.at = "read" /\ e.form = form /\ e.read = read
  BY <1>3, <1>4 DEF Edit
<1>6. edit' = [edit EXCEPT ![w] = e]
  BY DEF EditBegin
<1> HIDE DEF e, form, read
<1>7. EditTypes'
  BY <1>3, <1>4, <1>5, <1>6, OneEditChanges DEF ComplianceTypes
<1> QED
  BY <1>7, UntouchedTypes, AcceptedTypes DEF EditBegin, ComplianceTypes, batchVars

LEMMA EditCommitTypes ==
  ASSUME ComplianceTypes, NEW w \in WebWorkers, EditCommit(w)
  PROVE  ComplianceTypes'
<1> DEFINE e == edit[w]
           a == Applied(e.form, e.read.checks)
           changed == {i \in DOMAIN a.kept : a.kept[i] # e.read.checks[i]}
<1>1. e.form \in Form /\ e.read \in PolicyRead /\ e.read.checks \in CheckMaps
  BY DEF EditCommit, ComplianceTypes, EditTypes, PolicyRead
<1>2. /\ \A i \in changed : a.kept[i] \in Definitions
      /\ a.fresh \in SUBSET Definitions /\ IsFiniteSet(a.fresh)
  BY <1>1, AppliedForm
<1>3. nextId \in Nat /\ nextId > 0 /\ MaxId \in Nat
  BY ComplianceAssumption DEF ComplianceTypes, PolicyTypes
<1>4. PICK new \in Numbered(a.fresh) :
        checks' = [i \in (DOMAIN checks \ a.gone) \cup DOMAIN new |->
                     IF i \in DOMAIN new THEN new[i]
                     ELSE IF i \in changed THEN a.kept[i] ELSE checks[i]]
  BY DEF EditCommit
<1>5. /\ Cardinality(a.fresh) \in Nat
      /\ DOMAIN new = nextId .. nextId + Cardinality(a.fresh) - 1
      /\ new \in [DOMAIN new -> Definitions]
  BY <1>2, <1>3, NumberedChecks
<1>6. /\ nextId' = nextId + Cardinality(a.fresh)
      /\ nextId + Cardinality(a.fresh) - 1 =< MaxId
  BY DEF EditCommit
<1>7. nextId' \in 1 .. MaxId + 1 /\ nextId' >= nextId
  BY <1>3, <1>5, <1>6
<1>8. checks \in [DOMAIN checks -> Definitions] /\ DOMAIN checks \subseteq 1 .. nextId - 1
  BY CheckMapType DEF ComplianceTypes, PolicyTypes
<1>p. Live /\ policy.parser \in Parsers
  BY DEF EditCommit, EditConflicts, ComplianceTypes, PolicyTypes
<1>9. policy' \in [state : {"none", "live", "deleted"}, on : BOOLEAN,
                   parser : Parsers \cup {NoContent}]
      /\ policy'.parser \in Parsers
  <2>1. policy' = [policy EXCEPT !.on = IF e.form.on = e.read.on THEN @ ELSE e.form.on,
                                 !.parser = IF e.form.parser = e.read.parser THEN @
                                            ELSE e.form.parser]
    BY DEF EditCommit
  <2>2. e.form.on \in BOOLEAN /\ e.form.parser \in Parsers
    BY <1>1 DEF Form
  <2>3. policy \in [state : {"none", "live", "deleted"}, on : BOOLEAN,
                    parser : Parsers \cup {NoContent}]
    BY DEF ComplianceTypes, PolicyTypes
  <2> QED
    BY <1>p, <2>1, <2>2, <2>3
<1>10. scope' \subseteq Targets
  BY <1>1 DEF EditCommit, Form, ComplianceTypes, PolicyTypes
<1> HIDE DEF e, a, changed
<1>11. checks' \in CheckMaps /\ DOMAIN checks' \subseteq 1 .. nextId' - 1
  <2>1. DOMAIN checks' = (DOMAIN checks \ a.gone) \cup DOMAIN new
    BY <1>4
  <2>2. DOMAIN checks' \subseteq 1 .. nextId' - 1
    BY <1>3, <1>5, <1>6, <1>8, <2>1
  <2>3. \A i \in DOMAIN checks' : checks'[i] \in Definitions
    BY <1>2, <1>4, <1>5, <1>8
  <2>4. DOMAIN checks' \in SUBSET Nat
    BY <1>7, <2>2
  <2>5. checks' \in [DOMAIN checks' -> Definitions]
    BY <1>4, <2>3
  <2> QED
    BY <2>2, <2>4, <2>5 DEF CheckMaps
<1>12. PolicyTypes'
  BY <1>7, <1>9, <1>10, <1>11 DEF PolicyTypes
<1> QED
  BY <1>12, UntouchedTypes, DisturbedEvals, DisturbedEditions
     DEF EditCommit, ComplianceTypes, batchVars

LEMMA EditFailsTypes ==
  ASSUME ComplianceTypes, NEW w \in WebWorkers, EditFails(w)
  PROVE  ComplianceTypes'
<1>1. edit' = [edit EXCEPT ![w] = NoEdit] /\ NoEdit.at = "idle"
  BY DEF EditFails, NoEdit
<1>2. EditTypes'
  BY <1>1, IdleTypes, OneEditChanges DEF ComplianceTypes
<1> QED
  BY <1>2, UntouchedTypes DEF EditFails, ComplianceTypes, batchVars

LEMMA DeleteTypes ==
  ASSUME ComplianceTypes, NEW w \in WebWorkers, DeletePolicy(w)
  PROVE  ComplianceTypes'
<1>1. PolicyTypes'
  BY EmptyMaps DEF DeletePolicy, ComplianceTypes, PolicyTypes, Live
<1>2. StoredTypes'
  BY DEF DeletePolicy, ComplianceTypes, StoredTypes
<1> QED
  BY <1>1, <1>2, UntouchedTypes, AcceptedTypes, DisturbedEvals, DisturbedEditions
     DEF DeletePolicy, ComplianceTypes, batchVars

\* The steps of an evaluation.
LEMMA BeginTypes ==
  ASSUME ComplianceTypes, NEW a \in Evaluators,
         \/ a \in WebWorkers /\ RunBegin(a)
         \/ a = Recorder /\ AutoBegin
  PROVE  /\ ComplianceTypes'
         /\ eval'[a] = Reading(a, Covered(a))
         /\ \A b \in Evaluators : b # a => eval'[b] = eval[b]
<1>1. eval' = [eval EXCEPT ![a] = Reading(a, Covered(a))]
  BY ComplianceAssumption DEF RunBegin, AutoBegin, Covered
<1>2. Reading(a, Covered(a)) \in Eval
  BY CoveredAreDevices, ReadingType
<1>3. DOMAIN Reading(a, Covered(a)).pairs # {} => Reading(a, Covered(a)).parser \in Parsers
  <2>1. Covered(a) # {} => Live
    <3>1. a # Recorder => Live
      BY DEF RunBegin
    <3> QED
      BY <3>1 DEF Covered, Affected
  <2> QED
    BY <2>1, CoveredAreDevices, ReadingType DEF ComplianceTypes, PolicyTypes
<1>4. /\ EvalTypes' /\ eval'[a] = Reading(a, Covered(a))
      /\ \A b \in Evaluators : b # a => eval'[b] = eval[b]
  BY <1>1, <1>2, <1>3, OneEvalChanges DEF ComplianceTypes
<1> QED
  BY <1>4, UntouchedTypes, AcceptedTypes, WorkersEvaluate
     DEF RunBegin, AutoBegin, ComplianceTypes, batchVars

LEMMA ChecksTypes ==
  ASSUME ComplianceTypes, NEW a \in Evaluators, EvalChecks(a)
  PROVE  /\ ComplianceTypes'
         /\ eval'[a].at = "ready" /\ eval'[a].checks = Range(checks)
         /\ eval'[a].parser = eval[a].parser /\ eval'[a].pairs = eval[a].pairs
         /\ eval'[a].quiet = eval[a].quiet
         /\ \A b \in Evaluators : b # a => eval'[b] = eval[b]
<1> DEFINE e == [eval[a] EXCEPT !.at = "ready", !.checks = Range(checks)]
<1>1. eval[a] \in Eval /\ eval \in [Evaluators -> Eval] /\ Range(checks) \subseteq Definitions
  BY CheckMapType DEF ComplianceTypes, PolicyTypes, EvalTypes
<1>2. /\ e \in Eval
      /\ e.at = "ready" /\ e.checks = Range(checks)
      /\ e.parser = eval[a].parser /\ e.pairs = eval[a].pairs /\ e.quiet = eval[a].quiet
  BY <1>1 DEF Eval
<1>3. eval' = [eval EXCEPT ![a] = e]
  BY <1>1 DEF EvalChecks
<1>4. DOMAIN e.pairs # {} => e.parser \in Parsers
  BY <1>2 DEF ComplianceTypes, EvalTypes
<1> HIDE DEF e
<1>5. EvalTypes' /\ eval'[a] = e /\ \A b \in Evaluators : b # a => eval'[b] = eval[b]
  BY <1>2, <1>3, <1>4, OneEvalChanges DEF ComplianceTypes
<1> QED
  BY <1>2, <1>5, UntouchedTypes DEF EvalChecks, ComplianceTypes, batchVars

LEMMA EndTypes ==
  ASSUME ComplianceTypes, NEW a \in Evaluators,
         \/ a \in WebWorkers /\ RunCommit(a)
         \/ EvalRollback(a)
  PROVE  /\ ComplianceTypes'
         /\ eval'[a] = NoEval /\ \A b \in Evaluators : b # a => eval'[b] = eval[b]
<1>1. eval' = [eval EXCEPT ![a] = NoEval]
  BY DEF RunCommit, EvalRollback
<1>2. EvalTypes' /\ eval'[a] = NoEval /\ \A b \in Evaluators : b # a => eval'[b] = eval[b]
  BY <1>1, IdleTypes, OneEvalChanges DEF ComplianceTypes
<1>3. CASE a \in WebWorkers /\ RunCommit(a)
  <2>1. StoredTypes'
    BY <1>3, UpsertType DEF RunCommit, ComplianceTypes, StoredTypes
  <2> QED
    BY <1>2, <1>3, <2>1, UntouchedTypes DEF RunCommit, ComplianceTypes, batchVars
<1>4. CASE EvalRollback(a)
  <2>1. last' \in Last
    BY <1>4 DEF EvalRollback, ComplianceTypes, Last
  <2>2. batch' \in Batch
    BY <1>4 DEF EvalRollback, ComplianceTypes, Last, Batch
  <2> QED
    BY <1>2, <1>4, <2>1, <2>2, UntouchedTypes DEF EvalRollback, ComplianceTypes
<1> QED
  BY <1>3, <1>4

LEMMA AutoCommitTypes ==
  ASSUME ComplianceTypes, AutoCommit
  PROVE  ComplianceTypes'
<1>1. last \in Last /\ batch \in Batch /\ content \in [Devices -> Contents \cup {NoContent}]
  BY DEF ComplianceTypes, StoredTypes
<1>2. content' \in [Devices -> Contents \cup {NoContent}]
  BY <1>1 DEF AutoCommit, Stored, Last
<1>3. StoredTypes'
  BY <1>2, UpsertType, WorkersEvaluate DEF AutoCommit, ComplianceTypes, StoredTypes
<1>4. last' \in Last
  BY DEF AutoCommit, Last
<1>5. batch' \in Batch
  BY <1>1 DEF AutoCommit, Batch, Last
<1> QED
  BY <1>3, <1>4, <1>5, UntouchedTypes, DisturbedEvals DEF AutoCommit, ComplianceTypes

\* The steps of the recorder's batch.
LEMMA BatchTypes ==
  ASSUME ComplianceTypes,
         \/ BatchOpens \/ ClosedByForce
         \/ \E d \in Batched, c \in Contents \cup {NoContent} : LastResult(d, c)
  PROVE  ComplianceTypes' /\ UNCHANGED <<policyVars, storedVars, eval, edit, requests>>
<1>1. UNCHANGED <<policyVars, storedVars, eval, edit, requests>>
  BY DEF BatchOpens, ClosedByForce, LastResult
<1>2. CASE BatchOpens
  <2>1. batch' \in Batch
    BY <1>2 DEF BatchOpens, ComplianceTypes, Batch
  <2> QED
    BY <1>1, <1>2, <2>1, UntouchedTypes DEF BatchOpens, ComplianceTypes
<1>3. CASE ClosedByForce
  <2>1. batch' \in Batch
    BY <1>3 DEF ClosedByForce, ComplianceTypes, Batch
  <2> QED
    BY <1>1, <1>3, <2>1, UntouchedTypes DEF ClosedByForce, ComplianceTypes
<1>4. ASSUME NEW d \in Batched, NEW c \in Contents \cup {NoContent}, LastResult(d, c)
      PROVE  ComplianceTypes'
  <2>1. last' \in Last
    BY <1>4 DEF LastResult, Last
  <2> QED
    BY <1>1, <1>4, <2>1, UntouchedTypes DEF LastResult, ComplianceTypes
<1> QED
  BY <1>1, <1>2, <1>3, <1>4

LEMMA ResultTypes ==
  ASSUME ComplianceTypes, NEW d \in Batched, NEW c \in Contents \cup {NoContent},
         ResultStored(d, c)
  PROVE  /\ ComplianceTypes'
         /\ \A a \in Evaluators : /\ ~eval'[a].quiet /\ eval'[a].at = eval[a].at
<1>1. eval' = [a \in Evaluators |-> Fresh(a)]
  BY DEF ResultStored
<1>2. EvalTypes' /\ \A a \in Evaluators : /\ ~eval'[a].quiet /\ eval'[a].at = eval[a].at
  BY <1>1, FreshEval DEF ComplianceTypes, EvalTypes
<1>3. StoredTypes'
  BY DEF ResultStored, ComplianceTypes, StoredTypes
<1>4. batch' \in Batch
  BY DEF ResultStored, ComplianceTypes, Batch
<1> QED
  BY <1>2, <1>3, <1>4, UntouchedTypes DEF ResultStored, ComplianceTypes

LEMMA StepComplianceTypes == ComplianceTypes /\ [Next]_vars => ComplianceTypes'
<1> SUFFICES ASSUME ComplianceTypes, [Next]_vars PROVE ComplianceTypes'
  OBVIOUS
<1>1. CASE UNCHANGED vars
  BY <1>1, UntouchedTypes DEF vars, ComplianceTypes, batchVars
<1>2. ASSUME NEW w \in WebWorkers, RunBegin(w) \/ RunCommit(w) PROVE ComplianceTypes'
  BY <1>2, WorkersEvaluate, BeginTypes, EndTypes
<1>3. CASE AutoBegin
  BY <1>3, WorkersEvaluate, BeginTypes
<1>4. ASSUME NEW d \in Batched, NEW c \in Contents \cup {NoContent},
             ResultStored(d, c) \/ LastResult(d, c)
      PROVE  ComplianceTypes'
  BY <1>4, BatchTypes, ResultTypes
<1>5. ASSUME NEW w \in WebWorkers,
             \/ \E draft \in Drafts : CreatePolicy(w, draft)
             \/ \E draft \in Drafts, rows \in FormRows : EditBegin(w, draft, rows)
             \/ EditCommit(w) \/ EditFails(w) \/ DeletePolicy(w)
      PROVE  ComplianceTypes'
  BY <1>5, CreateTypes, EditBeginTypes, EditCommitTypes, EditFailsTypes, DeleteTypes
<1>6. ASSUME NEW a \in Evaluators, EvalChecks(a) \/ EvalRollback(a) PROVE ComplianceTypes'
  BY <1>6, ChecksTypes, EndTypes
<1>7. CASE BatchOpens \/ ClosedByForce
  BY <1>7, BatchTypes
<1> QED
  BY <1>1, <1>2, <1>3, <1>4, <1>5, <1>6, <1>7, AutoCommitTypes DEF Next

LEMMA ComplianceTypesImplyTypeOK == ComplianceTypes => TypeOK
<1> SUFFICES ASSUME ComplianceTypes PROVE TypeOK
  OBVIOUS
<1>1. Range(checks) \subseteq Definitions
  BY CheckMapType DEF ComplianceTypes, PolicyTypes
<1>2. \A a \in Evaluators : /\ eval[a].at \in {"idle", "read", "ready"}
                            /\ DOMAIN eval[a].pairs \subseteq Devices
  BY PairsType DEF ComplianceTypes, EvalTypes, Eval
<1>3. \A d \in Devices : results[d] = NoVerdict \/ results[d] \in Verdicts
  BY DEF ComplianceTypes, StoredTypes
<1>4. last.device \in Batched \cup {NoDevice}
  BY DEF ComplianceTypes, Last
<1> QED
  BY <1>1, <1>2, <1>3, <1>4 DEF ComplianceTypes, PolicyTypes, StoredTypes, TypeOK

-----------------------------------------------------------------------------
(* The invariant, conjunct by conjunct.                                    *)

LEMMA InitComplianceInv == Init => ComplianceInv
<1> SUFFICES ASSUME Init PROVE ComplianceInv
  OBVIOUS
<1>1. /\ \A a \in Evaluators : eval[a].at = "idle"
      /\ \A w \in WebWorkers : edit[w].at = "idle"
      /\ \A d \in Devices : results[d] = NoVerdict
      /\ ~batch.open /\ checks = NoFun /\ scope = {}
  BY DEF Init, NoEval, NoEdit
<1>2. OneRequest /\ RecorderReadsWhatItStores /\ OpenHasNoOutcome
  BY <1>1, WorkersEvaluate DEF OneRequest, RecorderReadsWhatItStores, OpenHasNoOutcome
<1>3. QuietEvalIsCurrent /\ QuietEditIsCurrent
  BY <1>1 DEF QuietEvalIsCurrent, QuietEditIsCurrent, EvalIsCurrent, EditIsCurrent
<1>4. VerdictsAreJustified /\ DeletedPolicyLeavesNothing
  BY <1>1 DEF VerdictsAreJustified, DeletedPolicyLeavesNothing
<1> QED
  BY <1>2, <1>3, <1>4, InitComplianceTypes DEF ComplianceInv

\* A saved edit leaves the state of the policy.
LEMMA SavedStateIsLive ==
  ASSUME ComplianceTypes, NEW w \in WebWorkers, EditCommit(w)
  PROVE  Live /\ policy'.state = "live"
<1>1. Live
  BY DEF EditCommit, EditConflicts
<1>2. \E on, parser : policy' = [policy EXCEPT !.on = on, !.parser = parser]
  BY DEF EditCommit
<1> QED
  BY <1>1, <1>2 DEF ComplianceTypes, PolicyTypes, Live

LEMMA StepOneRequest == ComplianceInv /\ [Next]_vars => OneRequest'
<1> SUFFICES ASSUME ComplianceInv, [Next]_vars PROVE OneRequest'
  OBVIOUS
<1>t. ComplianceTypes /\ OneRequest /\ EvalTypes /\ EditTypes
  BY DEF ComplianceInv, ComplianceTypes
<1> USE WorkersEvaluate
<1>n. NoEval.at = "idle" /\ NoEdit.at = "idle"
  BY DEF NoEval, NoEdit
<1>1. ASSUME NEW w \in WebWorkers, NEW draft \in Drafts, CreatePolicy(w, draft) PROVE OneRequest'
  <2>1. eval' = DisturbAll(w) /\ edit' = edit /\ policy'.state = "live"
    BY <1>1 DEF CreatePolicy
  <2> QED
    BY <1>t, <1>n, <2>1, DisturbedEvals DEF OneRequest
<1>2. ASSUME NEW w \in WebWorkers, NEW draft \in Drafts, NEW rows \in FormRows,
             EditBegin(w, draft, rows)
      PROVE  OneRequest'
  <2>1. /\ eval[w].at = "idle" /\ policy.state = "live" /\ UNCHANGED <<eval, policy>>
        /\ \A v \in WebWorkers : v # w => edit'[v] = edit[v]
    BY <1>2, <1>t DEF EditBegin, Accepts, Live, policyVars, EditTypes
  <2> QED
    BY <1>t, <2>1 DEF OneRequest
<1>3. ASSUME NEW w \in WebWorkers, EditCommit(w) PROVE OneRequest'
  <2>1. eval' = DisturbAll(w) /\ edit' = DisturbEdits(w) /\ policy'.state = "live"
    BY <1>3, <1>t, SavedStateIsLive DEF EditCommit
  <2> QED
    BY <1>t, <1>n, <2>1, DisturbedEvals, DisturbedEditions DEF OneRequest
<1>4. ASSUME NEW w \in WebWorkers, EditFails(w) PROVE OneRequest'
  <2>1. UNCHANGED <<eval, policy>> /\ edit' = [edit EXCEPT ![w] = NoEdit]
    BY <1>4 DEF EditFails, policyVars
  <2> QED
    BY <1>t, <1>n, <2>1 DEF OneRequest, EditTypes
<1>5. ASSUME NEW w \in WebWorkers, DeletePolicy(w) PROVE OneRequest'
  <2>1. eval' = DisturbAll(w) /\ edit' = DisturbEdits(w) /\ policy'.state = "deleted"
    BY <1>5, <1>t DEF DeletePolicy, ComplianceTypes, PolicyTypes
  <2> QED
    BY <1>t, <1>n, <2>1, DisturbedEvals, DisturbedEditions DEF OneRequest
<1>6. ASSUME NEW w \in WebWorkers, RunBegin(w) PROVE OneRequest'
  <2>1. edit[w].at = "idle" /\ UNCHANGED <<edit, policy>>
    BY <1>6 DEF RunBegin, Accepts, policyVars
  <2>2. \A b \in Evaluators : b # w => eval'[b] = eval[b]
    BY <1>6, <1>t, BeginTypes
  <2> QED
    BY <1>t, <2>1, <2>2 DEF OneRequest
<1>7. CASE AutoBegin
  <2>1. UNCHANGED <<edit, policy>> /\ \A b \in Evaluators : b # Recorder => eval'[b] = eval[b]
    BY <1>7, <1>t, BeginTypes DEF AutoBegin, policyVars
  <2> QED
    BY <1>t, <2>1, ComplianceAssumption DEF OneRequest
<1>8. ASSUME NEW a \in Evaluators, EvalChecks(a) PROVE OneRequest'
  <2>1. /\ UNCHANGED <<edit, policy>> /\ eval[a].at = "read"
        /\ \A b \in Evaluators : b # a => eval'[b] = eval[b]
    BY <1>8, <1>t, ChecksTypes DEF EvalChecks, policyVars
  <2> QED
    BY <1>t, <2>1 DEF OneRequest
<1>9. ASSUME NEW a \in Evaluators, (a \in WebWorkers /\ RunCommit(a)) \/ EvalRollback(a)
      PROVE  OneRequest'
  <2>1. UNCHANGED <<edit, policy>>
    BY <1>9 DEF RunCommit, EvalRollback, policyVars
  <2>2. eval'[a] = NoEval /\ \A b \in Evaluators : b # a => eval'[b] = eval[b]
    BY <1>9, <1>t, EndTypes
  <2> QED
    BY <1>t, <1>n, <2>1, <2>2 DEF OneRequest
<1>10. CASE AutoCommit
  <2>1. UNCHANGED <<edit, policy>> /\ eval' = DisturbAll(Recorder)
    BY <1>10 DEF AutoCommit, policyVars
  <2> QED
    BY <1>t, <1>n, <2>1, DisturbedEvals DEF OneRequest
<1>11. ASSUME NEW d \in Batched, NEW c \in Contents \cup {NoContent}, ResultStored(d, c)
       PROVE  OneRequest'
  <2>1. UNCHANGED <<edit, policy>>
    BY <1>11 DEF ResultStored, policyVars
  <2> QED
    BY <1>11, <1>t, <2>1, ResultTypes DEF OneRequest
<1>12. CASE \/ BatchOpens \/ ClosedByForce \/ UNCHANGED vars
            \/ \E d \in Batched, c \in Contents \cup {NoContent} : LastResult(d, c)
  <2>1. UNCHANGED <<edit, eval, policy>>
    BY <1>12 DEF BatchOpens, ClosedByForce, LastResult, vars, policyVars
  <2> QED
    BY <1>t, <2>1 DEF OneRequest
<1> QED
  BY <1>1, <1>2, <1>3, <1>4, <1>5, <1>6, <1>7, <1>8, <1>9, <1>10, <1>11, <1>12 DEF Next

LEMMA StepRecorderReads == ComplianceInv /\ [Next]_vars => RecorderReadsWhatItStores'
<1> SUFFICES ASSUME ComplianceInv, [Next]_vars PROVE RecorderReadsWhatItStores'
  OBVIOUS
<1>t. ComplianceTypes /\ RecorderReadsWhatItStores /\ EvalTypes /\ Recorder \notin WebWorkers
  BY ComplianceAssumption DEF ComplianceInv, ComplianceTypes
<1> USE WorkersEvaluate
<1>n. NoEval.at = "idle"
  BY DEF NoEval
\* Nothing changes in what the recorder read and will store.
<1>1. ASSUME UNCHANGED <<content, last>>, eval'[Recorder].at = eval[Recorder].at,
             eval'[Recorder].pairs = eval[Recorder].pairs
      PROVE  RecorderReadsWhatItStores'
  BY <1>t, <1>1 DEF RecorderReadsWhatItStores, Stored
<1>2. ASSUME eval'[Recorder].at = "idle" PROVE RecorderReadsWhatItStores'
  BY <1>2 DEF RecorderReadsWhatItStores
<1>3. ASSUME NEW w \in WebWorkers,
             \/ \E draft \in Drafts : CreatePolicy(w, draft)
             \/ EditCommit(w) \/ DeletePolicy(w)
      PROVE  RecorderReadsWhatItStores'
  <2>1. eval' = DisturbAll(w) /\ UNCHANGED <<content, last>>
    BY <1>3 DEF CreatePolicy, EditCommit, DeletePolicy, storedVars, batchVars
  <2> QED
    BY <1>t, <1>1, <2>1, DisturbedEvals
<1>4. ASSUME NEW w \in WebWorkers,
             \/ \E draft \in Drafts, rows \in FormRows : EditBegin(w, draft, rows)
             \/ EditFails(w)
      PROVE  RecorderReadsWhatItStores'
  BY <1>1, <1>4 DEF EditBegin, EditFails, storedVars, batchVars
<1>5. ASSUME NEW w \in WebWorkers, RunBegin(w) \/ RunCommit(w) PROVE RecorderReadsWhatItStores'
  <2>1. eval'[Recorder] = eval[Recorder]
    BY <1>t, <1>5, BeginTypes, EndTypes
  <2>2. UNCHANGED <<content, last>>
    BY <1>5 DEF RunBegin, RunCommit, storedVars, batchVars
  <2> QED
    BY <1>1, <2>1, <2>2
<1>6. CASE AutoBegin
  <2>1. last.device # NoDevice /\ UNCHANGED <<content, last>>
    BY <1>6 DEF AutoBegin, storedVars, batchVars
  <2>2. eval'[Recorder] = Reading(Recorder, Covered(Recorder))
    BY <1>t, <1>6, BeginTypes
  <2>3. \A d \in DOMAIN eval'[Recorder].pairs : eval'[Recorder].pairs[d] = Stored[d]
    BY <1>t, <2>2, CoveredAreDevices, ReadingType DEF Seen
  <2> QED
    BY <2>1, <2>3 DEF RecorderReadsWhatItStores, Stored
<1>7. ASSUME NEW a \in Evaluators, EvalChecks(a) PROVE RecorderReadsWhatItStores'
  <2>1. UNCHANGED <<content, last>>
    BY <1>7 DEF EvalChecks, storedVars, batchVars
  <2>2. CASE a # Recorder
    BY <1>t, <1>1, <1>7, <2>1, <2>2, ChecksTypes
  <2>3. CASE a = Recorder
    <3>1. eval'[Recorder].pairs = eval[Recorder].pairs /\ eval[Recorder].at = "read"
      BY <1>t, <1>7, <2>3, ChecksTypes DEF EvalChecks
    <3> QED
      BY <1>t, <2>1, <3>1 DEF RecorderReadsWhatItStores, Stored
  <2> QED
    BY <2>2, <2>3
<1>8. ASSUME NEW a \in Evaluators, EvalRollback(a) PROVE RecorderReadsWhatItStores'
  <2>1. CASE a # Recorder
    <3>1. UNCHANGED <<content, last>>
      BY <1>8, <2>1 DEF EvalRollback, storedVars
    <3> QED
      BY <1>t, <1>1, <1>8, <2>1, <3>1, EndTypes
  <2>2. CASE a = Recorder
    BY <1>t, <1>n, <1>2, <1>8, <2>2, EndTypes
  <2> QED
    BY <2>1, <2>2
<1>9. CASE AutoCommit
  BY <1>t, <1>n, <1>2, <1>9, DisturbedEvals DEF AutoCommit
<1>10. ASSUME NEW d \in Batched, NEW c \in Contents \cup {NoContent},
              ResultStored(d, c) \/ LastResult(d, c)
       PROVE  RecorderReadsWhatItStores'
  <2>1. eval[Recorder].at = "idle"
    BY <1>t, <1>10 DEF ResultStored, LastResult, RecorderReadsWhatItStores
  <2>2. eval'[Recorder].at = "idle"
    BY <1>t, <1>10, <2>1, ResultTypes DEF LastResult
  <2> QED
    BY <1>2, <2>2
<1>11. CASE BatchOpens \/ ClosedByForce \/ UNCHANGED vars
  BY <1>1, <1>11 DEF BatchOpens, ClosedByForce, vars, storedVars, batchVars
<1> QED
  BY <1>3, <1>4, <1>5, <1>6, <1>7, <1>8, <1>9, <1>10, <1>11 DEF Next

LEMMA StepQuietEval == ComplianceInv /\ [Next]_vars => QuietEvalIsCurrent'
<1> SUFFICES ASSUME ComplianceInv, [Next]_vars PROVE QuietEvalIsCurrent'
  OBVIOUS
<1>t. /\ ComplianceTypes /\ QuietEvalIsCurrent /\ RecorderReadsWhatItStores
      /\ EvalTypes /\ Recorder \notin WebWorkers
  BY ComplianceAssumption DEF ComplianceInv, ComplianceTypes
<1> USE WorkersEvaluate
<1>n. NoEval.at = "idle"
  BY DEF NoEval
<1>0. ASSUME NEW b \in Evaluators, eval'[b].at = "idle" \/ ~eval'[b].quiet
      PROVE  EvalIsCurrent(b)'
  BY <1>0 DEF EvalIsCurrent
\* The evaluation of b and all it read stay as they are.
<1>k. ASSUME NEW b \in Evaluators, eval'[b] = eval[b], UNCHANGED <<policyVars, content>>,
             b = Recorder => last' = last
      PROVE  EvalIsCurrent(b)'
  <2>1. EvalIsCurrent(b)
    BY <1>t DEF QuietEvalIsCurrent
  <2>2. Covered(b)' = Covered(b)
    BY <1>k DEF Covered, Affected, Scoped, DevicesOf, Live, policyVars
  <2>3. Seen(b)' = Seen(b)
    BY <1>k DEF Seen, Stored
  <2> QED
    BY <1>k, <2>1, <2>2, <2>3 DEF EvalIsCurrent, policyVars
<1>1. ASSUME NEW a \in Evaluators, eval' = DisturbAll(a) PROVE QuietEvalIsCurrent'
  BY <1>t, <1>n, <1>0, <1>1, DisturbedEvals DEF QuietEvalIsCurrent
<1>2. ASSUME UNCHANGED <<eval, policyVars, content, last>> PROVE QuietEvalIsCurrent'
  BY <1>k, <1>2 DEF QuietEvalIsCurrent
<1>3. ASSUME NEW a \in Evaluators,
             (a \in WebWorkers /\ RunBegin(a)) \/ (a = Recorder /\ AutoBegin)
      PROVE  QuietEvalIsCurrent'
  <2>1. /\ eval'[a] = Reading(a, Covered(a))
        /\ \A b \in Evaluators : b # a => eval'[b] = eval[b]
    BY <1>t, <1>3, BeginTypes
  <2>2. UNCHANGED <<policyVars, content, last>>
    BY <1>3 DEF RunBegin, AutoBegin, storedVars, batchVars
  <2>3. EvalIsCurrent(a)'
    <3>1. /\ eval'[a].at = "read" /\ eval'[a].parser = policy.parser
          /\ DOMAIN eval'[a].pairs = Covered(a)
          /\ \A d \in Covered(a) : eval'[a].pairs[d] = Seen(a)[d]
      BY <1>t, <2>1, CoveredAreDevices, ReadingType
    <3>2. Covered(a)' = Covered(a) /\ Seen(a)' = Seen(a)
      BY <2>2 DEF Covered, Affected, Scoped, DevicesOf, Live, Seen, Stored, policyVars
    <3> QED
      BY <2>2, <3>1, <3>2 DEF EvalIsCurrent, policyVars
  <2> QED
    BY <1>k, <2>1, <2>2, <2>3 DEF QuietEvalIsCurrent
<1>4. ASSUME NEW a \in Evaluators, EvalChecks(a) PROVE QuietEvalIsCurrent'
  <2>1. /\ eval'[a].at = "ready" /\ eval'[a].checks = Range(checks)
        /\ eval'[a].parser = eval[a].parser /\ eval'[a].pairs = eval[a].pairs
        /\ eval'[a].quiet = eval[a].quiet /\ eval[a].at = "read"
        /\ \A b \in Evaluators : b # a => eval'[b] = eval[b]
    BY <1>t, <1>4, ChecksTypes DEF EvalChecks
  <2>2. UNCHANGED <<policyVars, content, last>>
    BY <1>4 DEF EvalChecks, storedVars, batchVars
  <2>3. Covered(a)' = Covered(a) /\ Seen(a)' = Seen(a)
    BY <2>2 DEF Covered, Affected, Scoped, DevicesOf, Live, Seen, Stored, policyVars
  <2>4. EvalIsCurrent(a)'
    BY <1>t, <2>1, <2>2, <2>3 DEF QuietEvalIsCurrent, EvalIsCurrent, policyVars
  <2> QED
    BY <1>k, <2>1, <2>2, <2>4 DEF QuietEvalIsCurrent
<1>5. ASSUME NEW a \in Evaluators, (a \in WebWorkers /\ RunCommit(a)) \/ EvalRollback(a)
      PROVE  QuietEvalIsCurrent'
  <2>1. /\ eval'[a] = NoEval /\ \A b \in Evaluators : b # a => eval'[b] = eval[b]
    BY <1>t, <1>5, EndTypes
  <2>2. UNCHANGED <<policyVars, content>> /\ (a # Recorder => last' = last)
    BY <1>5 DEF RunCommit, EvalRollback, storedVars, batchVars
  <2> QED
    BY <1>n, <1>0, <1>k, <2>1, <2>2 DEF QuietEvalIsCurrent
<1>6. ASSUME NEW d \in Batched, NEW c \in Contents \cup {NoContent}, LastResult(d, c)
      PROVE  QuietEvalIsCurrent'
  <2>1. eval' = eval /\ UNCHANGED <<policyVars, content>>
    BY <1>6 DEF LastResult, storedVars
  <2>2. eval[Recorder].at = "idle"
    BY <1>t, <1>6 DEF LastResult, RecorderReadsWhatItStores
  <2> QED
    BY <1>0, <1>k, <2>1, <2>2 DEF QuietEvalIsCurrent
<1>7. ASSUME NEW d \in Batched, NEW c \in Contents \cup {NoContent}, ResultStored(d, c)
      PROVE  QuietEvalIsCurrent'
  BY <1>t, <1>0, <1>7, ResultTypes DEF QuietEvalIsCurrent
<1>8. ASSUME NEW w \in WebWorkers,
             \/ \E draft \in Drafts : CreatePolicy(w, draft)
             \/ EditCommit(w) \/ DeletePolicy(w)
      PROVE  QuietEvalIsCurrent'
  <2>1. eval' = DisturbAll(w)
    BY <1>8 DEF CreatePolicy, EditCommit, DeletePolicy
  <2> QED
    BY <1>1, <2>1
<1>9. ASSUME NEW w \in WebWorkers,
             \/ \E draft \in Drafts, rows \in FormRows : EditBegin(w, draft, rows)
             \/ EditFails(w)
      PROVE  QuietEvalIsCurrent'
  <2>1. UNCHANGED <<eval, policyVars, content, last>>
    BY <1>9 DEF EditBegin, EditFails, storedVars, batchVars
  <2> QED
    BY <1>2, <2>1
<1>10. CASE AutoCommit
  BY <1>1, <1>10 DEF AutoCommit
<1>11. CASE BatchOpens \/ ClosedByForce \/ UNCHANGED vars
  <2>1. UNCHANGED <<eval, policyVars, content, last>>
    BY <1>11 DEF BatchOpens, ClosedByForce, vars, storedVars, batchVars
  <2> QED
    BY <1>2, <2>1
<1> QED
  BY <1>3, <1>4, <1>5, <1>6, <1>7, <1>8, <1>9, <1>10, <1>11 DEF Next

LEMMA StepQuietEdit == ComplianceInv /\ [Next]_vars => QuietEditIsCurrent'
<1> SUFFICES ASSUME ComplianceInv, [Next]_vars PROVE QuietEditIsCurrent'
  OBVIOUS
<1>t. /\ ComplianceTypes /\ OneRequest /\ QuietEditIsCurrent /\ EditTypes
  BY DEF ComplianceInv, ComplianceTypes
<1>n. NoEdit.at = "idle"
  BY DEF NoEdit
<1>0. ASSUME NEW v \in WebWorkers, edit'[v].at = "idle" \/ ~edit'[v].quiet
      PROVE  EditIsCurrent(v)'
  BY <1>0 DEF EditIsCurrent
<1>k. ASSUME NEW v \in WebWorkers, edit'[v] = edit[v], UNCHANGED policyVars
      PROVE  EditIsCurrent(v)'
  BY <1>t, <1>k DEF QuietEditIsCurrent, EditIsCurrent, policyVars
<1>1. ASSUME NEW w \in WebWorkers, NEW draft \in Drafts, CreatePolicy(w, draft)
      PROVE  QuietEditIsCurrent'
  <2>1. edit' = edit /\ policy.state = "none"
    BY <1>1 DEF CreatePolicy
  <2>2. \A v \in WebWorkers : edit'[v].at = "idle"
    BY <1>t, <2>1 DEF OneRequest, EditTypes, Edit
  <2> QED
    BY <1>0, <2>2 DEF QuietEditIsCurrent
<1>2. ASSUME NEW w \in WebWorkers, NEW draft \in Drafts, NEW rows \in FormRows,
             EditBegin(w, draft, rows)
      PROVE  QuietEditIsCurrent'
  <2>1. /\ UNCHANGED policyVars
        /\ edit'[w].read = [on |-> policy.on, parser |-> policy.parser,
                            targets |-> scope, checks |-> checks]
        /\ \A v \in WebWorkers : v # w => edit'[v] = edit[v]
    BY <1>t, <1>2 DEF EditBegin, EditTypes
  <2>2. EditIsCurrent(w)'
    BY <2>1 DEF EditIsCurrent, policyVars
  <2> QED
    BY <1>k, <2>1, <2>2 DEF QuietEditIsCurrent
<1>3. ASSUME NEW w \in WebWorkers, EditCommit(w) \/ DeletePolicy(w) PROVE QuietEditIsCurrent'
  <2>1. edit' = DisturbEdits(w)
    BY <1>3 DEF EditCommit, DeletePolicy
  <2> QED
    BY <1>t, <1>n, <1>0, <2>1, DisturbedEditions DEF QuietEditIsCurrent
<1>4. ASSUME NEW w \in WebWorkers, EditFails(w) PROVE QuietEditIsCurrent'
  <2>1. /\ UNCHANGED policyVars /\ edit'[w] = NoEdit
        /\ \A v \in WebWorkers : v # w => edit'[v] = edit[v]
    BY <1>t, <1>4 DEF EditFails, EditTypes
  <2> QED
    BY <1>n, <1>0, <1>k, <2>1 DEF QuietEditIsCurrent
<1>5. ASSUME UNCHANGED <<edit, policyVars>> PROVE QuietEditIsCurrent'
  BY <1>k, <1>5 DEF QuietEditIsCurrent
<1>6. ASSUME NEW w \in WebWorkers, RunBegin(w) \/ RunCommit(w) PROVE QuietEditIsCurrent'
  BY <1>5, <1>6 DEF RunBegin, RunCommit
<1>7. CASE AutoBegin \/ AutoCommit \/ BatchOpens \/ ClosedByForce
  BY <1>5, <1>7 DEF AutoBegin, AutoCommit, BatchOpens, ClosedByForce
<1>8. ASSUME NEW a \in Evaluators, EvalChecks(a) \/ EvalRollback(a) PROVE QuietEditIsCurrent'
  BY <1>5, <1>8 DEF EvalChecks, EvalRollback
<1>9. ASSUME NEW d \in Batched, NEW c \in Contents \cup {NoContent},
             ResultStored(d, c) \/ LastResult(d, c)
      PROVE  QuietEditIsCurrent'
  BY <1>5, <1>9 DEF ResultStored, LastResult
<1>10. CASE UNCHANGED vars
  BY <1>5, <1>10 DEF vars
<1> QED
  BY <1>1, <1>2, <1>3, <1>4, <1>6, <1>7, <1>8, <1>9, <1>10 DEF Next

LEMMA StepOpenHasNoOutcome == ComplianceInv /\ [Next]_vars => OpenHasNoOutcome'
<1> SUFFICES ASSUME ComplianceInv, [Next]_vars PROVE OpenHasNoOutcome'
  OBVIOUS
<1>t. OpenHasNoOutcome /\ batch \in Batch
  BY DEF ComplianceInv, ComplianceTypes
<1>0. ASSUME UNCHANGED batch PROVE OpenHasNoOutcome'
  BY <1>t, <1>0 DEF OpenHasNoOutcome
<1>1. ASSUME NEW w \in WebWorkers,
             \/ \E draft \in Drafts : CreatePolicy(w, draft)
             \/ \E draft \in Drafts, rows \in FormRows : EditBegin(w, draft, rows)
             \/ EditCommit(w) \/ EditFails(w) \/ DeletePolicy(w)
             \/ RunBegin(w) \/ RunCommit(w)
      PROVE  OpenHasNoOutcome'
  BY <1>0, <1>1
     DEF CreatePolicy, EditBegin, EditCommit, EditFails, DeletePolicy, RunBegin, RunCommit, batchVars
<1>2. ASSUME NEW a \in Evaluators, EvalChecks(a) PROVE OpenHasNoOutcome'
  BY <1>0, <1>2 DEF EvalChecks, batchVars
<1>3. ASSUME NEW a \in Evaluators, EvalRollback(a) PROVE OpenHasNoOutcome'
  BY <1>t, <1>3 DEF EvalRollback, OpenHasNoOutcome, Batch
<1>4. CASE BatchOpens
  BY <1>4 DEF BatchOpens, OpenHasNoOutcome
<1>8. CASE AutoCommit \/ ClosedByForce
  <2>1. ~batch'.open
    <3>1. CASE AutoCommit
      BY <1>t, <3>1 DEF AutoCommit, Batch
    <3>2. CASE ClosedByForce
      BY <1>t, <3>2 DEF ClosedByForce, Batch
    <3> QED
      BY <1>8, <3>1, <3>2
  <2> QED
    BY <2>1 DEF OpenHasNoOutcome
<1>5. ASSUME NEW d \in Batched, NEW c \in Contents \cup {NoContent}, ResultStored(d, c)
      PROVE  OpenHasNoOutcome'
  BY <1>t, <1>5 DEF ResultStored, OpenHasNoOutcome, Batch
<1>6. ASSUME NEW d \in Batched, NEW c \in Contents \cup {NoContent}, LastResult(d, c)
      PROVE  OpenHasNoOutcome'
  BY <1>0, <1>6 DEF LastResult
<1>7. CASE AutoBegin \/ UNCHANGED vars
  BY <1>0, <1>7 DEF AutoBegin, vars, batchVars
<1> QED
  BY <1>1, <1>2, <1>3, <1>4, <1>5, <1>6, <1>7, <1>8 DEF Next

\* Verdicts are written by an evaluation that commits, and removed with the
\* policy.
LEMMA WhoWritesVerdicts ==
  ASSUME [Next]_vars
  PROVE  \/ results' = results
         \/ \E w \in WebWorkers : DeletePolicy(w)
         \/ \E w \in WebWorkers : RunCommit(w)
         \/ AutoCommit
<1>1. ASSUME NEW w \in WebWorkers,
             \/ \E draft \in Drafts : CreatePolicy(w, draft)
             \/ \E draft \in Drafts, rows \in FormRows : EditBegin(w, draft, rows)
             \/ EditCommit(w) \/ EditFails(w) \/ RunBegin(w)
      PROVE  results' = results
  BY <1>1 DEF CreatePolicy, EditBegin, EditCommit, EditFails, RunBegin, storedVars
<1>2. ASSUME NEW a \in Evaluators, EvalChecks(a) \/ EvalRollback(a) PROVE results' = results
  BY <1>2 DEF EvalChecks, EvalRollback, storedVars
<1>3. CASE AutoBegin \/ BatchOpens \/ ClosedByForce \/ UNCHANGED vars
  BY <1>3 DEF AutoBegin, BatchOpens, ClosedByForce, vars, storedVars
<1>4. ASSUME NEW d \in Batched, NEW c \in Contents \cup {NoContent},
             ResultStored(d, c) \/ LastResult(d, c)
      PROVE  results' = results
  BY <1>4 DEF ResultStored, LastResult, storedVars
<1> QED
  BY <1>1, <1>2, <1>3, <1>4 DEF Next

LEMMA StepVerdictsAreJustified == ComplianceInv /\ [Next]_vars => VerdictsAreJustified'
<1> SUFFICES ASSUME ComplianceInv, [Next]_vars PROVE VerdictsAreJustified'
  OBVIOUS
<1>t. VerdictsAreJustified /\ EvalTypes
  BY DEF ComplianceInv, ComplianceTypes
<1>j. ASSUME \A d \in Devices : results'[d] # NoVerdict => Justified(results'[d])
      PROVE  VerdictsAreJustified'
  BY <1>j DEF VerdictsAreJustified, Justified, Binding
<1>1. CASE results' = results
  BY <1>t, <1>j, <1>1, JustifiedVerdicts
<1>2. ASSUME NEW w \in WebWorkers, DeletePolicy(w) PROVE VerdictsAreJustified'
  BY <1>j, <1>2 DEF DeletePolicy
<1>3. ASSUME NEW a \in Evaluators, results' = Upserted(eval[a]) PROVE VerdictsAreJustified'
  <2>1. ASSUME NEW d \in Devices, results'[d] # NoVerdict PROVE Justified(results'[d])
    <3>1. CASE d \in DOMAIN eval[a].pairs
      BY <1>t, <1>3, <3>1, VerdictIsJustified DEF Upserted
    <3>2. CASE d \notin DOMAIN eval[a].pairs
      <4>1. results'[d] = results[d]
        BY <1>3, <3>2 DEF Upserted
      <4> QED
        BY <1>t, <2>1, <4>1, JustifiedVerdicts
    <3> QED
      BY <3>1, <3>2
  <2> QED
    BY <1>j, <2>1
<1> QED
  BY <1>1, <1>2, <1>3, WhoWritesVerdicts, WorkersEvaluate DEF RunCommit, AutoCommit

LEMMA StepDeletedPolicyLeavesNothing ==
  ComplianceInv /\ [Next]_vars => DeletedPolicyLeavesNothing'
<1> SUFFICES ASSUME ComplianceInv, [Next]_vars PROVE DeletedPolicyLeavesNothing'
  OBVIOUS
<1>t. DeletedPolicyLeavesNothing /\ ComplianceTypes
  BY DEF ComplianceInv
<1>0. ASSUME Live' PROVE DeletedPolicyLeavesNothing'
  BY <1>0 DEF DeletedPolicyLeavesNothing
<1>k. ASSUME UNCHANGED <<policyVars, results>> PROVE DeletedPolicyLeavesNothing'
  BY <1>t, <1>k DEF DeletedPolicyLeavesNothing, Live, policyVars
<1>1. ASSUME NEW w \in WebWorkers, NEW draft \in Drafts, CreatePolicy(w, draft)
      PROVE  DeletedPolicyLeavesNothing'
  BY <1>0, <1>1 DEF CreatePolicy, Live
<1>2. ASSUME NEW w \in WebWorkers, EditCommit(w) PROVE DeletedPolicyLeavesNothing'
  BY <1>t, <1>0, <1>2, SavedStateIsLive DEF Live
<1>3. ASSUME NEW w \in WebWorkers, DeletePolicy(w) PROVE DeletedPolicyLeavesNothing'
  BY <1>3 DEF DeletePolicy, DeletedPolicyLeavesNothing
<1>4. ASSUME NEW a \in Evaluators, CanCommit(a), results' = Upserted(eval[a]), UNCHANGED policyVars
      PROVE  DeletedPolicyLeavesNothing'
  <2>1. CASE Live
    BY <1>0, <1>4, <2>1 DEF Live, policyVars
  <2>2. CASE ~Live
    <3>1. DOMAIN eval[a].pairs = {}
      BY <1>4, <2>2 DEF CanCommit
    <3>2. \A d \in Devices : results'[d] = results[d]
      BY <1>4, <3>1 DEF Upserted
    <3> QED
      BY <1>t, <1>4, <2>2, <3>2 DEF DeletedPolicyLeavesNothing, Live, policyVars
  <2> QED
    BY <2>1, <2>2
<1>5. ASSUME NEW w \in WebWorkers, RunCommit(w) PROVE DeletedPolicyLeavesNothing'
  BY <1>4, <1>5, WorkersEvaluate DEF RunCommit
<1>6. CASE AutoCommit
  BY <1>4, <1>6, WorkersEvaluate DEF AutoCommit
<1>7. ASSUME NEW w \in WebWorkers,
             \/ \E draft \in Drafts, rows \in FormRows : EditBegin(w, draft, rows)
             \/ EditFails(w) \/ RunBegin(w)
      PROVE  DeletedPolicyLeavesNothing'
  BY <1>k, <1>7 DEF EditBegin, EditFails, RunBegin, storedVars
<1>8. ASSUME NEW a \in Evaluators, EvalChecks(a) \/ EvalRollback(a)
      PROVE  DeletedPolicyLeavesNothing'
  BY <1>k, <1>8 DEF EvalChecks, EvalRollback, storedVars
<1>9. ASSUME NEW d \in Batched, NEW c \in Contents \cup {NoContent},
             ResultStored(d, c) \/ LastResult(d, c)
      PROVE  DeletedPolicyLeavesNothing'
  BY <1>k, <1>9 DEF ResultStored, LastResult, storedVars
<1>10. CASE AutoBegin \/ BatchOpens \/ ClosedByForce \/ UNCHANGED vars
  BY <1>k, <1>10 DEF AutoBegin, BatchOpens, ClosedByForce, vars, storedVars
<1> QED
  BY <1>1, <1>2, <1>3, <1>5, <1>6, <1>7, <1>8, <1>9, <1>10 DEF Next

LEMMA StepComplianceInv == ComplianceInv /\ [Next]_vars => ComplianceInv'
<1> SUFFICES ASSUME ComplianceInv, [Next]_vars PROVE ComplianceInv'
  OBVIOUS
<1>1. ComplianceTypes'
  BY StepComplianceTypes DEF ComplianceInv
<1> QED
  BY <1>1, StepOneRequest, StepRecorderReads, StepOpenHasNoOutcome, StepQuietEval,
     StepQuietEdit, StepVerdictsAreJustified, StepDeletedPolicyLeavesNothing
     DEF ComplianceInv

LEMMA ComplianceInvariance == Spec => []ComplianceInv
BY InitComplianceInv, StepComplianceInv, PTL DEF Spec

-----------------------------------------------------------------------------
(* Invariants.                                                             *)

\* Every variable keeps its type.
THEOREM ComplianceTypeCorrectness == Spec => []TypeOK
<1>1. ComplianceInv => TypeOK
  BY ComplianceTypesImplyTypeOK DEF ComplianceInv
<1> QED
  BY <1>1, ComplianceInvariance, PTL

\* A stored fail has a cause among its checks that are not info, and a
\* stored pass has none, whatever the checks and the rows (compliance.py:73-140).
THEOREM VerdictsSayWhatTheChecksSay == Spec => []VerdictsAreJustified
<1>1. ComplianceInv => VerdictsAreJustified
  BY DEF ComplianceInv
<1> QED
  BY <1>1, ComplianceInvariance, PTL

\* Whatever evaluations and edits were in progress, a deleted policy has no
\* verdicts, no checks and no scope (routes/compliance.py:235-242).
THEOREM DeletionIsComplete == Spec => []DeletedPolicyLeavesNothing
<1>1. ComplianceInv => DeletedPolicyLeavesNothing
  BY DEF ComplianceInv
<1> QED
  BY <1>1, ComplianceInvariance, PTL

-----------------------------------------------------------------------------
(* Action properties.                                                      *)

\* However edits and runs of others interleave with it, a batch that closes
\* through its last result leaves verdicts on what it stores
\* (recorder/runner.py:236-270).
THEOREM ClosingIsCurrent == Spec => ClosingEvaluatesWhatIsStored
<1> DEFINE A == batch.open /\ batch'.closed = "results" =>
                  \A d \in DOMAIN eval[Recorder].pairs : results'[d].content = content'[d]
<1>1. ComplianceInv /\ [Next]_vars => A
  <2> SUFFICES ASSUME ComplianceInv, [Next]_vars, batch.open, batch'.closed = "results"
               PROVE  \A d \in DOMAIN eval[Recorder].pairs : results'[d].content = content'[d]
    OBVIOUS
  <2>t. /\ batch \in Batch /\ EvalTypes /\ batch.closed = "none"
        /\ RecorderReadsWhatItStores
    BY DEF ComplianceInv, ComplianceTypes, OpenHasNoOutcome
  <2>1. CASE AutoCommit
    <3>1. content' = Stored /\ results' = Upserted(eval[Recorder]) /\ eval[Recorder].at = "ready"
      BY <2>1 DEF AutoCommit
    <3>2. ASSUME NEW d \in DOMAIN eval[Recorder].pairs
          PROVE  results'[d].content = content'[d]
      <4>1. d \in Devices
        BY <2>t, WorkersEvaluate, PairsType DEF EvalTypes, Eval
      <4>2. results'[d].content = eval[Recorder].pairs[d]
        BY <3>1, <4>1 DEF Upserted, VerdictOf
      <4> QED
        BY <2>t, <3>1, <4>2 DEF RecorderReadsWhatItStores
    <3> QED
      BY <3>2
  <2>2. ASSUME UNCHANGED batch PROVE FALSE
    BY <2>t, <2>2
  <2>3. ASSUME NEW w \in WebWorkers,
               \/ \E draft \in Drafts : CreatePolicy(w, draft)
               \/ \E draft \in Drafts, rows \in FormRows : EditBegin(w, draft, rows)
               \/ EditCommit(w) \/ EditFails(w) \/ DeletePolicy(w)
               \/ RunBegin(w) \/ RunCommit(w)
        PROVE  FALSE
    BY <2>2, <2>3
       DEF CreatePolicy, EditBegin, EditCommit, EditFails, DeletePolicy, RunBegin, RunCommit,
           batchVars
  <2>4. ASSUME NEW a \in Evaluators, EvalChecks(a) PROVE FALSE
    BY <2>2, <2>4 DEF EvalChecks, batchVars
  <2>5. ASSUME NEW a \in Evaluators, EvalRollback(a) PROVE FALSE
    BY <2>t, <2>5 DEF EvalRollback, Batch
  <2>6. BatchOpens => FALSE
    BY DEF BatchOpens
  <2>7. ClosedByForce => FALSE
    BY <2>t DEF ClosedByForce, Batch
  <2>8. ASSUME NEW d \in Batched, NEW c \in Contents \cup {NoContent},
               ResultStored(d, c) \/ LastResult(d, c)
        PROVE  FALSE
    <3>1. CASE ResultStored(d, c)
      BY <2>t, <3>1 DEF ResultStored, Batch
    <3>2. CASE LastResult(d, c)
      BY <2>2, <3>2 DEF LastResult
    <3> QED
      BY <2>8, <3>1, <3>2
  <2>9. AutoBegin \/ UNCHANGED vars => FALSE
    BY <2>2 DEF AutoBegin, vars, batchVars
  <2> QED
    BY <2>1, <2>3, <2>4, <2>5, <2>6, <2>7, <2>8, <2>9 DEF Next
<1> QED
  BY <1>1, ComplianceInvariance, PTL DEF Spec, ClosingEvaluatesWhatIsStored

\* From a justified fail to a justified pass on the same rows, the check
\* that failed must have gone, whoever ran the policy in between.
THEOREM MoreChecksNeverExcuse == Spec => AddingChecksNeverExcuses
<1> DEFINE Excused(v, u) == /\ v # NoVerdict /\ u # NoVerdict
                            /\ v.parser = u.parser /\ v.content = u.content
                            /\ v.status = "fail" /\ u.status = "pass"
           A == \A d \in Devices : Excused(results[d], results'[d])
                                     => ~results[d].checks \subseteq results'[d].checks
<1>1. ASSUME NEW v, NEW u, Justified(v), Justified(u), Excused(v, u)
      PROVE  ~v.checks \subseteq u.checks
  <2>1. PICK c \in Binding(v) : Broken(c, Parsed[<<v.parser, v.content>>])
    BY <1>1 DEF Justified
  <2>2. c \in v.checks /\ (c \in u.checks => c \in Binding(u))
    BY <2>1 DEF Binding
  <2>3. \A k \in Binding(u) : ~Broken(k, Parsed[<<u.parser, u.content>>])
    BY <1>1 DEF Justified
  <2>4. Parsed[<<u.parser, u.content>>] = Parsed[<<v.parser, v.content>>]
    BY <1>1
  <2>5. c \notin u.checks
    BY <2>1, <2>2, <2>3, <2>4
  <2> QED
    BY <2>2, <2>5
<1>2. ComplianceInv /\ ComplianceInv' => A
  <2> SUFFICES ASSUME ComplianceInv, ComplianceInv', NEW d \in Devices,
                      Excused(results[d], results'[d])
               PROVE  ~results[d].checks \subseteq results'[d].checks
    OBVIOUS
  <2>1. Justified(results[d])
    BY JustifiedVerdicts DEF ComplianceInv
  <2>2. Justified(results'[d])
    BY DEF ComplianceInv, VerdictsAreJustified, Justified, Binding
  <2> QED
    BY <1>1, <2>1, <2>2
<1>3. A => [\A d \in Devices :
       LET v == results[d] u == results'[d] IN
       /\ v # NoVerdict /\ u # NoVerdict
       /\ v.parser = u.parser /\ v.content = u.content
       /\ v.status = "fail" /\ u.status = "pass"
       => ~v.checks \subseteq u.checks]_vars
  OBVIOUS
<1> QED
  BY <1>2, <1>3, ComplianceInvariance, PTL DEF AddingChecksNeverExcuses

\* An edit leaves a process when it is committed or refused.
LEMMA WhoEndsEdits ==
  ASSUME ComplianceInv, [Next]_vars, NEW w \in WebWorkers,
         edit[w].at = "read", edit'[w].at = "idle"
  PROVE  EditCommit(w) \/ EditFails(w)
<1>t. EditTypes
  BY DEF ComplianceInv, ComplianceTypes
<1>0. ASSUME edit'[w] = edit[w] PROVE FALSE
  BY <1>0
<1>1. ASSUME NEW v \in WebWorkers, NEW draft \in Drafts, NEW rows \in FormRows,
             EditBegin(v, draft, rows)
      PROVE  FALSE
  <2>1. v # w /\ edit'[w] = edit[w]
    BY <1>t, <1>1 DEF EditBegin, Accepts, EditTypes
  <2> QED
    BY <1>0, <2>1
<1>2. ASSUME NEW v \in WebWorkers, v # w, EditCommit(v) \/ DeletePolicy(v) PROVE FALSE
  <2>1. edit' = DisturbEdits(v)
    BY <1>2 DEF EditCommit, DeletePolicy
  <2> QED
    BY <1>t, <1>2, <2>1, DisturbedEditions
<1>3. ~DeletePolicy(w)
  BY DEF DeletePolicy, Accepts
<1>4. ASSUME NEW v \in WebWorkers, v # w, EditFails(v) PROVE FALSE
  BY <1>t, <1>0, <1>4 DEF EditFails, EditTypes
<1>5. ASSUME NEW v \in WebWorkers,
             (\E draft \in Drafts : CreatePolicy(v, draft)) \/ RunBegin(v) \/ RunCommit(v)
      PROVE  FALSE
  BY <1>0, <1>5 DEF CreatePolicy, RunBegin, RunCommit
<1>6. ASSUME NEW a \in Evaluators, EvalChecks(a) \/ EvalRollback(a) PROVE FALSE
  BY <1>0, <1>6 DEF EvalChecks, EvalRollback
<1>7. ASSUME NEW d \in Batched, NEW c \in Contents \cup {NoContent},
             ResultStored(d, c) \/ LastResult(d, c)
      PROVE  FALSE
  BY <1>0, <1>7 DEF ResultStored, LastResult
<1>8. AutoBegin \/ AutoCommit \/ BatchOpens \/ ClosedByForce \/ UNCHANGED vars => FALSE
  BY <1>0 DEF AutoBegin, AutoCommit, BatchOpens, ClosedByForce, vars
<1> QED
  BY <1>1, <1>2, <1>3, <1>4, <1>5, <1>6, <1>7, <1>8 DEF Next

\* What a commit makes of the checks when nobody else wrote since the edit
\* read them.
LEMMA SavedChecks ==
  ASSUME ComplianceTypes, NEW w \in WebWorkers, EditCommit(w), edit[w].read.checks = checks
  PROVE  Range(checks') = Range(edit[w].form.rows) \cup edit[w].form.added
<1> DEFINE rows == edit[w].form.rows
           a    == Applied(edit[w].form, checks)
           changed == {i \in DOMAIN a.kept : a.kept[i] # checks[i]}
           both == DOMAIN rows \cap DOMAIN checks
<1>1. edit[w].form \in Form /\ checks \in CheckMaps
  BY DEF EditCommit, ComplianceTypes, EditTypes, PolicyTypes
<1>2. /\ DOMAIN a.kept = both /\ a.gone = DOMAIN checks \ DOMAIN rows
      /\ \A i \in both : a.kept[i] = rows[i]
      /\ a.fresh = edit[w].form.added \cup {rows[i] : i \in DOMAIN rows \ DOMAIN checks}
      /\ a.fresh \in SUBSET Definitions /\ IsFiniteSet(a.fresh)
  BY <1>1, AppliedForm
<1>3. PICK new \in Numbered(a.fresh) :
        checks' = [i \in (DOMAIN checks \ a.gone) \cup DOMAIN new |->
                     IF i \in DOMAIN new THEN new[i]
                     ELSE IF i \in changed THEN a.kept[i] ELSE checks[i]]
  BY DEF EditCommit
<1>4. nextId \in Nat /\ nextId > 0 /\ DOMAIN checks \subseteq 1 .. nextId - 1
  BY DEF ComplianceTypes, PolicyTypes
<1>5. /\ Range(new) = a.fresh /\ Cardinality(a.fresh) \in Nat
      /\ DOMAIN new = nextId .. nextId + Cardinality(a.fresh) - 1
  BY <1>2, <1>4, NumberedChecks
<1>6. DOMAIN new \cap DOMAIN checks = {}
  BY <1>4, <1>5
<1> HIDE DEF a
<1>7. DOMAIN checks' = both \cup DOMAIN new
  BY <1>2, <1>3
<1>8. \A i \in DOMAIN new : checks'[i] = new[i]
  BY <1>3
<1>9. \A i \in both : checks'[i] = rows[i]
  BY <1>2, <1>3, <1>6
<1> HIDE DEF both
<1>10. Range(checks') = {checks'[i] : i \in both} \cup {checks'[i] : i \in DOMAIN new}
  BY <1>7 DEF Range
<1>11. {checks'[i] : i \in DOMAIN new} = a.fresh
  BY <1>5, <1>8 DEF Range
<1>12. {checks'[i] : i \in both} = {rows[i] : i \in both}
  BY <1>9
<1>13. Range(rows) = {rows[i] : i \in both} \cup {rows[i] : i \in DOMAIN rows \ DOMAIN checks}
  BY DEF Range, both
<1> QED
  BY <1>2, <1>10, <1>11, <1>12, <1>13

\* A form saved while nobody else edits is the policy, although its ids may
\* date from before earlier edits (routes/compliance.py:43-104).
THEOREM FormsAreSavedWhole == Spec => SavedFormIsThePolicy
<1> DEFINE A == \A w \in WebWorkers :
       LET form == edit[w].form IN
       (/\ edit[w].at = "read" /\ edit[w].quiet /\ edit'[w].at = "idle"
        /\ ~EditConflicts(edit[w], Applied(form, edit[w].read.checks))) =>
         /\ Range(checks') = Range(form.rows) \cup form.added
         /\ scope' = form.targets
         /\ policy'.parser = form.parser
<1>1. ComplianceInv /\ [Next]_vars => A
  <2> SUFFICES ASSUME ComplianceInv, [Next]_vars, NEW w \in WebWorkers,
                      edit[w].at = "read", edit[w].quiet, edit'[w].at = "idle",
                      ~EditConflicts(edit[w], Applied(edit[w].form, edit[w].read.checks))
               PROVE  /\ Range(checks') = Range(edit[w].form.rows) \cup edit[w].form.added
                      /\ scope' = edit[w].form.targets
                      /\ policy'.parser = edit[w].form.parser
    OBVIOUS
  <2>1. EditCommit(w)
    BY WhoEndsEdits DEF EditFails
  <2>2. /\ edit[w].read.parser = policy.parser /\ edit[w].read.targets = scope
        /\ edit[w].read.checks = checks
    BY DEF ComplianceInv, QuietEditIsCurrent, EditIsCurrent
  <2>3. Range(checks') = Range(edit[w].form.rows) \cup edit[w].form.added
    BY <2>1, <2>2, SavedChecks DEF ComplianceInv
  <2>4. scope' = edit[w].form.targets
    <3>1. scope' = (scope \ (scope \ edit[w].form.targets)) \cup (edit[w].form.targets \ scope)
      BY <2>1, <2>2 DEF EditCommit
    <3> QED
      BY <3>1
  <2>5. policy'.parser = edit[w].form.parser
    <3>1. \E on : policy' = [policy EXCEPT !.on = on,
                               !.parser = IF edit[w].form.parser = edit[w].read.parser THEN @
                                          ELSE edit[w].form.parser]
      BY <2>1 DEF EditCommit
    <3> QED
      BY <2>2, <3>1 DEF ComplianceInv, ComplianceTypes, PolicyTypes
  <2> QED
    BY <2>3, <2>4, <2>5
<1> QED
  BY <1>1, ComplianceInvariance, PTL DEF Spec, SavedFormIsThePolicy

\* An evaluation ends when it is committed or rolled back.
LEMMA WhoEndsEvaluations ==
  ASSUME ComplianceInv, [Next]_vars, NEW a \in Evaluators,
         eval[a].at = "ready", eval'[a].at = "idle"
  PROVE  (a \in WebWorkers /\ RunCommit(a)) \/ (a = Recorder /\ AutoCommit) \/ EvalRollback(a)
<1>t. /\ ComplianceTypes /\ EvalTypes /\ OneRequest /\ Recorder \notin WebWorkers
      /\ WebWorkers \subseteq Evaluators /\ Recorder \in Evaluators
  BY ComplianceAssumption, WorkersEvaluate DEF ComplianceInv, ComplianceTypes
<1>0. ASSUME eval'[a].at = eval[a].at PROVE FALSE
  BY <1>0
<1>1. ASSUME NEW b \in Evaluators, b # a, eval' = DisturbAll(b) PROVE FALSE
  BY <1>t, <1>0, <1>1, DisturbedEvals
<1>2. ASSUME NEW w \in WebWorkers, NEW draft \in Drafts, CreatePolicy(w, draft) PROVE FALSE
  BY <1>t, <1>1, <1>2 DEF CreatePolicy, Accepts
<1>3. ASSUME NEW w \in WebWorkers, EditCommit(w) \/ DeletePolicy(w) PROVE FALSE
  <2>1. w # a
    BY <1>t, <1>3 DEF EditCommit, DeletePolicy, Accepts, OneRequest
  <2> QED
    BY <1>t, <1>1, <1>3, <2>1 DEF EditCommit, DeletePolicy
<1>4. ASSUME NEW w \in WebWorkers,
             (\E draft \in Drafts, rows \in FormRows : EditBegin(w, draft, rows)) \/ EditFails(w)
      PROVE  FALSE
  BY <1>0, <1>4 DEF EditBegin, EditFails
<1>5. ASSUME NEW b \in Evaluators,
             (b \in WebWorkers /\ RunBegin(b)) \/ (b = Recorder /\ AutoBegin)
      PROVE  FALSE
  <2>1. b # a
    BY <1>5 DEF RunBegin, AutoBegin, Accepts
  <2> QED
    BY <1>t, <1>0, <1>5, <2>1, BeginTypes
<1>6. ASSUME NEW b \in Evaluators, EvalChecks(b) PROVE FALSE
  BY <1>t, <1>0, <1>6, ChecksTypes DEF EvalChecks
<1>7. ASSUME NEW b \in Evaluators, b # a, (b \in WebWorkers /\ RunCommit(b)) \/ EvalRollback(b)
      PROVE  FALSE
  BY <1>t, <1>0, <1>7, EndTypes
<1>8. ASSUME AutoCommit, a # Recorder PROVE FALSE
  BY <1>t, <1>1, <1>8 DEF AutoCommit
<1>9. ASSUME NEW d \in Batched, NEW c \in Contents \cup {NoContent},
             ResultStored(d, c) \/ LastResult(d, c)
      PROVE  FALSE
  BY <1>t, <1>0, <1>9, ResultTypes DEF LastResult
<1>10. BatchOpens \/ ClosedByForce \/ UNCHANGED vars => FALSE
  BY <1>0 DEF BatchOpens, ClosedByForce, vars
<1> QED
  BY <1>t, <1>2, <1>3, <1>4, <1>5, <1>6, <1>7, <1>8, <1>9, <1>10 DEF Next

\* What nobody disturbed is current when it is written, and the only other
\* way it can end is a pattern that does not compile.
THEOREM QuietRunsAreCurrent == Spec => QuietRunIsCurrent
<1> DEFINE Uncompilable == \E c \in Range(checks) : c.operator = "regex" /\ c.expected \notin Patterns
           Current(d) == /\ results'[d] # NoVerdict
                         /\ results'[d].parser = policy'.parser
                         /\ results'[d].checks = Range(checks')
                         /\ results'[d].content = content'[d]
           A == \A a \in Evaluators :
                  eval[a].at = "ready" /\ eval'[a].at = "idle" /\ eval[a].quiet =>
                    \/ Uncompilable
                    \/ \A d \in (IF a = Recorder THEN Affected ELSE Scoped) : Current(d)
<1>1. ComplianceInv /\ [Next]_vars => A
  <2> SUFFICES ASSUME ComplianceInv, [Next]_vars, NEW a \in Evaluators,
                      eval[a].at = "ready", eval'[a].at = "idle", eval[a].quiet
               PROVE  Uncompilable \/ \A d \in Covered(a) : Current(d)
    BY DEF Covered
  <2>t. ComplianceTypes /\ EvalTypes /\ Recorder \notin WebWorkers
    BY ComplianceAssumption DEF ComplianceInv, ComplianceTypes
  <2>1. /\ eval[a].parser = policy.parser /\ DOMAIN eval[a].pairs = Covered(a)
        /\ \A d \in Covered(a) : eval[a].pairs[d] = Seen(a)[d]
        /\ eval[a].checks = Range(checks)
    BY DEF ComplianceInv, QuietEvalIsCurrent, EvalIsCurrent
  <2>2. ASSUME results' = Upserted(eval[a]), UNCHANGED policyVars, content' = Seen(a)
        PROVE  \A d \in Covered(a) : Current(d)
    <3> SUFFICES ASSUME NEW d \in Covered(a) PROVE Current(d)
      OBVIOUS
    <3>1. d \in Devices /\ results'[d] = VerdictOf(eval[a], d)
      BY <2>1, <2>2, CoveredAreDevices DEF Upserted
    <3>2. results'[d] # NoVerdict
      BY <2>t, <2>1, <3>1, VerdictType
    <3>3. /\ results'[d].parser = eval[a].parser /\ results'[d].checks = eval[a].checks
          /\ results'[d].content = eval[a].pairs[d]
      BY <3>1 DEF VerdictOf
    <3>4. policy' = policy /\ checks' = checks
      BY <2>2 DEF policyVars
    <3> QED
      BY <2>1, <2>2, <3>2, <3>3, <3>4
  <2>3. CASE a \in WebWorkers /\ RunCommit(a)
    BY <2>t, <2>2, <2>3 DEF RunCommit, Seen
  <2>4. CASE a = Recorder /\ AutoCommit
    BY <2>2, <2>4 DEF AutoCommit, Seen
  <2>5. CASE EvalRollback(a)
    <3>1. Raises(a) \/ (DOMAIN eval[a].pairs # {} /\ ~Live)
      BY <2>5 DEF EvalRollback, CanCommit
    <3>2. CASE Raises(a)
      <4>1. \E c \in eval[a].checks : c.operator = "regex" /\ c.expected \notin Patterns
        BY <3>2 DEF Raises, EvaluationRaises
      <4> QED
        BY <2>1, <4>1
    <3>3. CASE DOMAIN eval[a].pairs # {} /\ ~Live
      <4>1. scope = {}
        BY <3>3 DEF ComplianceInv, DeletedPolicyLeavesNothing
      <4> QED
        BY <2>1, <3>3, <4>1, CoveredAreDevices
    <3> QED
      BY <3>1, <3>2, <3>3
  <2> QED
    BY <2>3, <2>4, <2>5, WhoEndsEvaluations
<1> QED
  BY <1>1, ComplianceInvariance, PTL DEF Spec, QuietRunIsCurrent
=============================================================================
