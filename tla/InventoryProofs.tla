-------------------------- MODULE InventoryProofs --------------------------
(***************************************************************************)
(* Proofs about Credentials and Inventory, for every inventory, every set  *)
(* of forms and import files, and any number of requests in progress.      *)
(***************************************************************************)
EXTENDS Inventory, FiniteSetTheorems, WellFoundedInduction, TLAPS

(* What is in a column of rows is a row exactly when it is no mark.        *)
CredCell   == CredRow \cup {Fresh, Gone}
DeviceCell == DeviceRow \cup {Fresh, Gone}
GroupCell  == GroupRow \cup {Fresh, Gone}
JobCell    == JobRow \cup {Fresh, Gone}

LEMMA ExistsIs ==
  /\ \A row \in CredCell : Exists(row) <=> row \in CredRow
  /\ \A row \in DeviceCell : Exists(row) <=> row \in DeviceRow
  /\ \A row \in GroupCell : Exists(row) <=> row \in GroupRow
  /\ \A row \in JobCell : Exists(row) <=> row \in JobRow
  /\ Exists("defined") /\ ~Exists(Fresh) /\ ~Exists(Gone)
BY CredentialsAssumption, InventoryAssumption DEF Exists, CredCell, DeviceCell, GroupCell, JobCell

-----------------------------------------------------------------------------
(* The credentials.                                                        *)

CredReq ==
  {NoCredReq} \cup
  [at : {"clearing", "ready"}, id : Creds, seen : CredRow \cup {Fresh}, want : CredRow,
   form : CredForms, sees : SUBSET Creds]

(* A request writes the flag its form says, and there is one default.      *)
CredInv ==
  /\ cred \in [Creds -> CredCell]
  /\ credreq \in [Slots -> CredReq]
  /\ \A w \in Slots : ~CredIdle(w) => credreq[w].want.default = credreq[w].form.default
  /\ \A c, d \in Defaults : c = d

(* What any step does to the credentials.                                  *)
CredStep ==
  \/ \E w \in Slots :
       \/ \E c \in Creds, form \in CredForms : CreateCred(w, c, form) \/ UpdateCred(w, c, form)
       \/ ClearDefaults(w) \/ CredRollback(w) \/ CredCommit(w)
  \/ \E c \in Creds : DeleteCred(c)
  \/ UNCHANGED credVars

LEMMA StepIsCredStep == [Next]_vars => CredStep
<1> SUFFICES ASSUME [Next]_vars PROVE CredStep
  OBVIOUS
<1> USE DEF credVars, tables
<1>1. ASSUME NEW w \in Slots, EditCred(w) \/ SaveCred(w) PROVE CredStep
  BY <1>1 DEF CredStep, EditCred, SaveCred
<1>2. ASSUME NEW c \in Creds, RemoveCred(c) PROVE CredStep
  BY <1>2 DEF CredStep, RemoveCred
<1>3. ASSUME NEW w \in Slots,
             \/ \E form \in DeviceForms : CreateDevice(w, form)
             \/ \E d \in Devices, form \in DeviceForms : UpdateDevice(w, d, form)
             \/ \E ids \in SUBSET Devices, form \in BulkForms : ids # {} /\ BulkEdit(w, ids, form)
             \/ \E file \in ImportFiles : Import(w, file)
             \/ \E g \in Groups, form \in GroupForms : UpdateGroup(w, g, form)
             \/ \E j \in Jobs, form \in JobForms : UpdateJob(w, j, form)
      PROVE  CredStep
  <2>1. UNCHANGED credVars
    BY <1>3 DEF CreateDevice, UpdateDevice, BulkEdit, Import, UpdateGroup, UpdateJob, Begin
  <2> QED
    BY <2>1 DEF CredStep
<1>4. ASSUME NEW w \in Slots, DeviceCommit(w) \/ GroupCommit(w) \/ JobCommit(w) \/ RequestFails(w)
      PROVE  CredStep
  BY <1>4 DEF CredStep, DeviceCommit, GroupCommit, JobCommit, RequestFails
<1>5. ASSUME \/ \E g \in Groups, form \in GroupForms : CreateGroup(g, form)
             \/ \E ids \in SUBSET Devices : DeleteDevices(ids)
             \/ \E ids \in SUBSET Groups : DeleteGroups(ids)
             \/ \E j \in Jobs, form \in JobForms : CreateJob(j, form)
             \/ \E ids \in SUBSET Jobs : DeleteJobs(ids)
             \/ \E p \in Platforms : CreatePlatform(p) \/ DeletePlatform(p)
      PROVE  CredStep
  BY <1>5 DEF CredStep, CreateGroup, DeleteDevices, DeleteGroups, CreateJob, DeleteJobs,
     CreatePlatform, DeletePlatform
<1>6. ASSUME \/ \E j \in Jobs : FireBegin(j)
             \/ FireCollect \/ FireFlush \/ FireDone \/ SessionEnds
             \/ \E d \in Devices : FireSpec(d)
      PROVE  CredStep
  BY <1>6 DEF CredStep, FireBegin, FireCollect, FireFlush, FireDone, FireSpec, SessionEnds
<1>7. ASSUME UNCHANGED vars PROVE CredStep
  BY <1>7 DEF CredStep, vars
<1> QED
  BY <1>1, <1>2, <1>3, <1>4, <1>5, <1>6, <1>7 DEF Next

LEMMA DefaultIs ==
  ASSUME NEW table, NEW c
  PROVE  c \in DefaultsOf(table) <=> c \in DOMAIN table /\ Exists(table[c]) /\ table[c].default
BY DEF DefaultsOf, Present

(* The row that a commit leaves of an edited credential.                   *)
LEMMA CredWrittenIs ==
  ASSUME NEW now \in CredRow, NEW req1 \in CredReq, req1.at # "idle", req1.seen \in CredRow
  PROVE  /\ CredWritten(now, req1) \in CredRow
         /\ req1.want.default => CredWritten(now, req1).default
         /\ CredWritten(now, req1).default => now.default \/ req1.want.default
<1>1. req1.want \in CredRow
  BY DEF CredReq, NoCredReq
<1> DEFINE m == Merged(now, req1.seen, req1.want)
<1>2. m \in CredRow /\ (m.default => now.default \/ req1.want.default)
  <2>1. DOMAIN req1.want = {"provider", "payload", "default"}
    BY <1>1 DEF CredRow
  <2>2. m = [provider |-> IF req1.want.provider # req1.seen.provider
                            THEN req1.want.provider ELSE now.provider,
             payload |-> IF req1.want.payload # req1.seen.payload
                           THEN req1.want.payload ELSE now.payload,
             default |-> IF req1.want.default # req1.seen.default
                           THEN req1.want.default ELSE now.default]
    BY <2>1 DEF Merged
  <2> QED
    BY <1>1, <2>2 DEF CredRow
<1> HIDE DEF m
<1>3. CredWritten(now, req1) = [provider |-> m.provider,
         payload |-> IF EntersSecret(req1.form) THEN req1.want.payload ELSE m.payload,
         default |-> m.default \/ req1.want.default]
  BY DEF CredWritten, m
<1>4. (m.default \/ req1.want.default) \in BOOLEAN
  OBVIOUS
<1>5. m.payload \in Payload /\ req1.want.payload \in Payload /\ m.provider \in Provider
  BY <1>1, <1>2 DEF CredRow
<1> DEFINE d == m.default \/ req1.want.default
           p == IF EntersSecret(req1.form) THEN req1.want.payload ELSE m.payload
<1>6. d \in BOOLEAN /\ p \in Payload /\ (d <=> m.default \/ req1.want.default)
  BY <1>4, <1>5
<1>7. CredWritten(now, req1) = [provider |-> m.provider, payload |-> p, default |-> d]
  BY <1>3
<1> HIDE DEF d, p
<1> QED
  BY <1>2, <1>5, <1>6, <1>7 DEF CredRow

(* Which rows are the default after a commit, and that rows stay rows.     *)
LEMMA CredSavedIs ==
  ASSUME CredInv, NEW w \in Slots, CredCommit(w)
  PROVE  /\ cred' \in [Creds -> CredCell]
         /\ credreq[w].want.default =>
              Defaults' \subseteq {credreq[w].id} /\ Exists(cred'[credreq[w].id])
              /\ cred'[credreq[w].id].default
         /\ ~credreq[w].want.default =>
              Defaults' \subseteq Defaults /\ Defaults \ {credreq[w].id} \subseteq Defaults'
<1> DEFINE r == credreq[w]
<1>1. /\ r \in CredReq /\ r.at # "idle" /\ r.id \in Creds /\ r.want \in CredRow
      /\ r.seen \in CredRow \cup {Fresh} /\ r.sees \subseteq Creds
      /\ cred \in [Creds -> CredCell]
  BY DEF CredInv, CredCommit, CredReq, NoCredReq
<1>2. cred' = CredSaved(r) /\ ~CredConflict(r)
  BY DEF CredCommit
<1> HIDE DEF r
<1>3. /\ r.seen # Fresh => r.seen \in CredRow
      /\ \A c \in Creds : Exists(cred[c]) => cred[c] \in CredRow
      /\ \A row \in CredRow : Exists(row) /\ row # Fresh
  BY <1>1, ExistsIs, CredentialsAssumption DEF CredCell
<1>4. ASSUME NEW c \in Creds
      PROVE  /\ c = r.id /\ r.seen = Fresh => cred'[c] = r.want
             /\ ~(c = r.id /\ r.seen = Fresh) /\ ~Exists(cred[c]) => cred'[c] = cred[c]
             /\ c = r.id /\ r.seen # Fresh /\ Exists(cred[c]) =>
                  cred'[c] = CredWritten(cred[c], r)
             /\ c # r.id /\ Exists(cred[c]) =>
                  cred'[c] = IF r.want.default /\ c \in r.sees
                               THEN [cred[c] EXCEPT !.default = FALSE] ELSE cred[c]
  BY <1>2 DEF CredSaved
<1>5. ASSUME NEW c \in Creds, r.seen # Fresh, Exists(cred[c])
      PROVE  /\ CredWritten(cred[c], r) \in CredRow
             /\ r.want.default => CredWritten(cred[c], r).default
             /\ CredWritten(cred[c], r).default => cred[c].default \/ r.want.default
  BY <1>1, <1>3, <1>5, CredWrittenIs
<1>6. ASSUME NEW row \in CredRow
      PROVE  LET new == [row EXCEPT !.default = FALSE] IN new \in CredRow /\ ~new.default
  BY DEF CredRow
<1>7. \A c \in Creds : cred'[c] \in CredCell
  BY <1>1, <1>3, <1>4, <1>5, <1>6 DEF CredCell
<1>8. cred' \in [Creds -> CredCell]
  BY <1>2, <1>7 DEF CredSaved
<1>9. \A c : c \in Defaults' <=> c \in Creds /\ Exists(cred'[c]) /\ cred'[c].default
  BY <1>8, DefaultIs DEF Defaults
<1>10. \A c : c \in Defaults <=> c \in Creds /\ Exists(cred[c]) /\ cred[c].default
  BY <1>1, DefaultIs DEF Defaults
<1>11. ASSUME r.want.default
       PROVE  Defaults' \subseteq {r.id} /\ Exists(cred'[r.id]) /\ cred'[r.id].default
  <2>1. \A c \in Creds : Exists(cred[c]) /\ cred[c].default => c \in r.sees \cup {r.id}
    BY <1>1, <1>2, <1>11 DEF CredConflict, Present
  <2>2. r.seen = Fresh \/ Exists(cred[r.id])
    BY <1>2, <1>11 DEF CredConflict
  <2>3. ASSUME NEW c \in Defaults', c # r.id PROVE FALSE
    <3>1. c \in Creds /\ Exists(cred'[c]) /\ cred'[c].default
      BY <1>9
    <3>2. Exists(cred[c])
      BY <1>4, <2>3, <3>1
    <3>3. c \notin r.sees
      BY <1>3, <1>4, <1>6, <1>11, <2>3, <3>1, <3>2
    <3>4. cred'[c] = cred[c]
      BY <1>4, <2>3, <3>1, <3>2, <3>3
    <3> QED
      BY <2>1, <2>3, <3>1, <3>2, <3>3, <3>4
  <2>4. CASE r.seen = Fresh
    BY <1>1, <1>3, <1>4, <1>11, <2>3, <2>4
  <2>5. CASE r.seen # Fresh
    BY <1>1, <1>3, <1>4, <1>5, <1>11, <2>2, <2>3, <2>5
  <2> QED
    BY <2>4, <2>5
<1>12. ASSUME ~r.want.default
       PROVE  Defaults' \subseteq Defaults /\ Defaults \ {r.id} \subseteq Defaults'
  <2>1. ASSUME NEW c \in Creds, c # r.id PROVE cred'[c] = cred[c]
    BY <1>4, <1>12, <2>1
  <2>2. r.id \in Defaults' => r.id \in Defaults
    <3>1. CASE r.seen = Fresh
      BY <1>1, <1>4, <1>9, <1>12, <3>1
    <3>2. CASE r.seen # Fresh
      BY <1>1, <1>4, <1>5, <1>9, <1>10, <1>12, <3>2
    <3> QED
      BY <3>1, <3>2
  <2> QED
    BY <1>9, <1>10, <2>1, <2>2
<1> QED
  BY <1>8, <1>11, <1>12 DEF r

LEMMA CredInvStep == CredInv /\ CredStep => CredInv'
<1> SUFFICES ASSUME CredInv, CredStep PROVE CredInv'
  OBVIOUS
<1> USE DEF CredInv
<1>1. ASSUME cred' = cred, credreq' \in [Slots -> CredReq],
             \A w \in Slots : credreq'[w].at # "idle" =>
               credreq'[w].want.default = credreq'[w].form.default
      PROVE  CredInv'
  BY <1>1 DEF Defaults, CredIdle
<1>2. ASSUME NEW w \in Slots, NEW c \in Creds, NEW seen \in CredRow \cup {Fresh},
             NEW want \in CredRow, NEW form \in CredForms, cred' = cred,
             want.default = form.default, CredWrites(w, c, seen, want, form)
      PROVE  CredInv'
  <2>1. Present(cred) \subseteq Creds
    BY DEF Present
  <2> DEFINE r == [at |-> IF want.default THEN "clearing" ELSE "ready", id |-> c,
                   seen |-> seen, want |-> want, form |-> form, sees |-> Present(cred)]
  <2>2. r \in CredReq
    BY <2>1 DEF CredReq
  <2>3. r.at # "idle" /\ r.want.default = r.form.default
    BY <1>2
  <2>4. credreq' = [credreq EXCEPT ![w] = r]
    BY <1>2 DEF CredWrites
  <2> HIDE DEF r
  <2> QED
    BY <1>1, <1>2, <2>2, <2>3, <2>4 DEF CredIdle
<1>3. ASSUME NEW w \in Slots, NEW c \in Creds, NEW form \in CredForms, CreateCred(w, c, form)
      PROVE  CredInv'
  <2>1. form \in CredForm
    BY CredentialsAssumption
  <2>2. Created(form) \in CredRow /\ Created(form).default = form.default
    BY <2>1 DEF Created, BuildPayload, CredForm, CredRow, Payload, Secret
  <2> QED
    BY <1>2, <1>3, <2>2 DEF CreateCred
<1>4. ASSUME NEW w \in Slots, NEW c \in Creds, NEW form \in CredForms, UpdateCred(w, c, form)
      PROVE  CredInv'
  <2>1. form \in CredForm /\ cred[c] \in CredRow
    BY <1>4, CredentialsAssumption, ExistsIs DEF UpdateCred
  <2>2. BuildPayload(form) \in Payload
    BY <2>1 DEF BuildPayload, CredForm, Payload, Secret
  <2>3. Edited(cred[c], form) \in CredRow /\ Edited(cred[c], form).default = form.default
    BY <2>1, <2>2 DEF Edited, CredForm, CredRow
  <2> QED
    BY <1>2, <1>4, <2>1, <2>3 DEF UpdateCred
<1>5. ASSUME NEW w \in Slots, ClearDefaults(w) PROVE CredInv'
  <2>1. PICK sees \in {credreq[w].sees, Present(cred)} :
          credreq' = [credreq EXCEPT ![w] =
            [at |-> "ready", id |-> credreq[w].id, seen |-> credreq[w].seen,
             want |-> credreq[w].want, form |-> credreq[w].form, sees |-> sees]]
    BY <1>5 DEF ClearDefaults
  <2> DEFINE r == [at |-> "ready", id |-> credreq[w].id, seen |-> credreq[w].seen,
                   want |-> credreq[w].want, form |-> credreq[w].form, sees |-> sees]
  <2>2. credreq[w] \in CredReq /\ credreq[w].at = "clearing"
    BY <1>5 DEF ClearDefaults
  <2>3. sees \in SUBSET Creds
    BY <2>1, <2>2 DEF CredReq, NoCredReq, Present
  <2>4. r \in CredReq /\ r.at # "idle" /\ r.want.default = r.form.default
    BY <2>2, <2>3 DEF CredReq, NoCredReq, CredIdle
  <2>5. credreq' = [credreq EXCEPT ![w] = r]
    BY <2>1
  <2> HIDE DEF r
  <2> QED
    BY <1>1, <1>5, <2>4, <2>5 DEF ClearDefaults, CredIdle
<1>6. NoCredReq \in CredReq /\ NoCredReq.at = "idle"
  BY DEF CredReq, NoCredReq
<1>7. ASSUME NEW w \in Slots, CredRollback(w) PROVE CredInv'
  BY <1>1, <1>6, <1>7 DEF CredRollback, CredIdle
<1>8. ASSUME NEW w \in Slots, CredCommit(w) PROVE CredInv'
  <2>1. credreq' = [credreq EXCEPT ![w] = NoCredReq]
    BY <1>8 DEF CredCommit
  <2>2. /\ credreq' \in [Slots -> CredReq]
        /\ \A v \in Slots : credreq'[v].at # "idle" =>
             credreq'[v].want.default = credreq'[v].form.default
    BY <1>6, <2>1 DEF CredIdle
  <2>3. cred' \in [Creds -> CredCell] /\ \A c, d \in Defaults' : c = d
    BY <1>8, CredSavedIs
  <2> QED
    BY <2>2, <2>3 DEF CredIdle
<1>9. ASSUME NEW c \in Creds, DeleteCred(c) PROVE CredInv'
  <2>1. cred' = [cred EXCEPT ![c] = Gone]
    BY <1>9 DEF DeleteCred
  <2>2. cred' \in [Creds -> CredCell]
    BY <2>1 DEF CredCell
  <2>3. \A d : d \in Defaults' => d \in Defaults
    BY <2>1, <2>2, DefaultIs, ExistsIs DEF Defaults
  <2> QED
    BY <1>9, <2>2, <2>3 DEF DeleteCred, CredIdle
<1>10. CASE UNCHANGED credVars
  BY <1>1, <1>10 DEF credVars, CredIdle
<1> QED
  BY <1>3, <1>4, <1>5, <1>7, <1>8, <1>9, <1>10 DEF CredStep

LEMMA InitCredInv == Init => CredInv
BY CredentialsAssumption DEF Init, CredInit, CredInv, CredCell, CredReq, CredIdle, NoCredReq, Defaults

LEMMA CredInvHolds == Spec => []CredInv
<1>1. CredInv /\ [Next]_vars => CredInv'
  BY StepIsCredStep, CredInvStep
<1> QED
  BY <1>1, InitCredInv, PTL DEF Spec

LEMMA OneDefault == CredInv => AtMostOneDefault
<1> SUFFICES ASSUME CredInv PROVE Cardinality(Defaults) <= 1
  BY DEF AtMostOneDefault
<1>1. CASE Defaults = {}
  BY <1>1, FS_EmptySet
<1>2. CASE Defaults # {}
  <2>1. PICK c \in Defaults : Defaults = {c}
    BY <1>2 DEF CredInv
  <2> QED
    BY <2>1, FS_Singleton
<1> QED
  BY <1>1, <1>2

(* Only the deletion of the default, or a save of it with the box          *)
(* unchecked, leaves no default; a save that takes the place of the        *)
(* default leaves another.                                                 *)
THEOREM TheDefaultIsNotLost == Spec => DefaultIsReplacedNeverLost
<1> DEFINE Kept1 ==
      Defaults # {} /\ Defaults' = {} =>
        \A c \in Defaults :
          \/ ~Exists(cred'[c])
          \/ \E w \in Slots : /\ ~CredIdle(w) /\ credreq'[w].at = "idle"
                              /\ credreq[w].id = c /\ ~credreq[w].form.default
<1>1. CredInv /\ CredStep => Kept1
  <2> SUFFICES ASSUME CredInv, CredStep, Defaults' = {}, NEW c \in Defaults
               PROVE  \/ ~Exists(cred'[c])
                      \/ \E w \in Slots : /\ ~CredIdle(w) /\ credreq'[w].at = "idle"
                                          /\ credreq[w].id = c /\ ~credreq[w].form.default
    OBVIOUS
  <2>1. cred' # cred
    BY DEF Defaults
  <2>2. \/ \E w \in Slots : CredCommit(w)
        \/ \E d \in Creds : DeleteCred(d)
    BY <2>1 DEF CredStep, CreateCred, UpdateCred, ClearDefaults, CredRollback, credVars
  <2>3. ASSUME NEW w \in Slots, CredCommit(w)
        PROVE  /\ ~CredIdle(w) /\ credreq'[w].at = "idle"
               /\ credreq[w].id = c /\ ~credreq[w].form.default
    <3>1. ~credreq[w].want.default
      <4> SUFFICES ASSUME credreq[w].want.default PROVE FALSE
        OBVIOUS
      <4>1. credreq[w].id \in Creds
        BY <2>3 DEF CredInv, CredReq, CredCommit, NoCredReq
      <4>2. credreq[w].id \in Defaults'
        BY <2>3, <4>1, CredSavedIs, DefaultIs DEF Defaults
      <4> QED
        BY <4>2
    <3>2. credreq[w].id = c
      BY <2>3, <3>1, CredSavedIs
    <3>3. ~CredIdle(w) /\ credreq'[w].at = "idle"
      BY <2>3 DEF CredCommit, CredIdle, CredInv, NoCredReq
    <3> QED
      BY <3>1, <3>2, <3>3 DEF CredInv
  <2>4. ASSUME NEW d \in Creds, DeleteCred(d) PROVE ~Exists(cred'[c])
    <3>1. cred' = [cred EXCEPT ![d] = Gone] /\ cred \in [Creds -> CredCell]
      BY <2>4 DEF DeleteCred, CredInv
    <3>2. c \in Creds /\ Exists(cred[c]) /\ cred[c].default
      BY <3>1, DefaultIs DEF Defaults
    <3>3. CASE c = d
      BY <3>1, <3>2, <3>3, ExistsIs
    <3>4. CASE c # d
      <4>1. cred'[c] = cred[c] /\ c \in DOMAIN cred'
        BY <3>1, <3>2, <3>4
      <4>2. c \in Defaults'
        BY <3>2, <4>1, DefaultIs DEF Defaults
      <4> QED
        BY <4>2
    <3> QED
      BY <3>3, <3>4
  <2> QED
    BY <2>2, <2>3, <2>4
<1>2. CredInv /\ [Next]_vars => [Kept1]_credVars
  BY <1>1, StepIsCredStep
<1> QED
  BY <1>2, CredInvHolds, PTL DEF Spec, DefaultIsReplacedNeverLost

-----------------------------------------------------------------------------
(* The rows that the handlers compute.                                     *)

LEMMA MixedIs == \A row \in DeviceRow : Mixed(row) <=> row.builtin # None /\ row.custom # None
BY ExistsIs DEF Mixed, DeviceCell

LEMMA ApplyPlatformIs ==
  ASSUME NEW row \in DeviceRow, NEW pick \in Pick
  PROVE  ApplyPlatform(row, pick) \in DeviceRow /\ ~Mixed(ApplyPlatform(row, pick))
<1> DEFINE b == IF pick # None /\ pick.kind = "builtin" THEN pick.name ELSE None
           c == IF pick # None /\ pick.kind = "custom" THEN pick.name ELSE None
<1>1. b \in {None, "ios"} /\ c \in {None} \cup Platforms /\ (b = None \/ c = None)
  BY DEF Pick
<1>2. ApplyPlatform(row, pick) =
        [name |-> row.name, pool |-> row.pool, builtin |-> b, custom |-> c, cred |-> row.cred,
         enabled |-> row.enabled, groups |-> row.groups]
  BY DEF ApplyPlatform
<1> HIDE DEF b, c
<1> QED
  BY <1>1, <1>2, MixedIs DEF DeviceRow

LEMMA FormRowIs ==
  ASSUME group \in [Groups -> GroupCell], NEW form \in DeviceForms,
         NEW row, row.builtin \in {None, "ios"}, row.custom \in {None} \cup Platforms
  PROVE  FormRow(row, form) \in DeviceRow /\ ~Mixed(FormRow(row, form))
<1>1. form \in DeviceForm
  BY InventoryAssumption
<1>2. [name |-> form.name, pool |-> form.pool, builtin |-> row.builtin, custom |-> row.custom,
       cred |-> form.cred, enabled |-> form.enabled,
       groups |-> form.groups \cap Present(group)] \in DeviceRow
  BY <1>1 DEF DeviceForm, DeviceRow
<1> QED
  BY <1>1, <1>2, ApplyPlatformIs DEF FormRow, DeviceForm

LEMMA BulkRowIs ==
  ASSUME group \in [Groups -> GroupCell], NEW form \in BulkForms, NEW row \in DeviceRow
  PROVE  /\ BulkRow(row, form) \in DeviceRow
         /\ Mixed(BulkRow(row, form)) =>
              BulkRow(row, form).builtin = row.builtin /\ BulkRow(row, form).custom = row.custom
<1>1. form \in BulkForm
  BY InventoryAssumption
<1> DEFINE edited == [name |-> row.name, pool |-> Kept(form.pool, row.pool),
              builtin |-> row.builtin, custom |-> row.custom,
              cred |-> Kept(form.cred, row.cred), enabled |-> Kept(form.enabled, row.enabled),
              groups |-> row.groups \cup ({form.group} \cap Present(group))]
<1>3. /\ Kept(form.pool, row.pool) \in Pool /\ Kept(form.cred, row.cred) \in CredId
      /\ Kept(form.enabled, row.enabled) \in BOOLEAN
  BY <1>1 DEF BulkForm, DeviceRow, Given, Kept, Pool
<1>4. Present(group) \subseteq Groups
  BY DEF Present
<1>5. edited \in DeviceRow /\ edited.builtin = row.builtin /\ edited.custom = row.custom
  BY <1>3, <1>4 DEF DeviceRow
<1>6. BulkRow(row, form) = IF form.platform = Keep THEN edited ELSE ApplyPlatform(edited, form.platform)
  BY DEF BulkRow
<1> HIDE DEF edited
<1>7. form.platform \in {Keep} \cup Pick
  BY <1>1 DEF BulkForm
<1> QED
  BY <1>5, <1>6, <1>7, ApplyPlatformIs

LEMMA ImportedRowIs ==
  ASSUME NEW row \in DeviceRow, NEW line \in ImportLine
  PROVE  /\ ImportedRow(row, line) \in DeviceRow
         /\ ImportedRow(row, line) =
              [name |-> row.name, pool |-> Given(line.pool, row.pool),
               builtin |-> Given(line.platform, row.builtin), custom |-> row.custom,
               cred |-> Given(line.cred, row.cred), enabled |-> Kept(line.enabled, row.enabled),
               groups |-> row.groups \cup line.groups]
<1>1. /\ Given(line.pool, row.pool) \in Pool /\ Given(line.platform, row.builtin) \in {None, "ios"}
      /\ Given(line.cred, row.cred) \in CredId /\ Kept(line.enabled, row.enabled) \in BOOLEAN
      /\ row.groups \cup line.groups \in SUBSET Groups
  BY DEF ImportLine, DeviceRow, Given, Kept, Pool
<1>2. ImportedRow(row, line) =
              [name |-> row.name, pool |-> Given(line.pool, row.pool),
               builtin |-> Given(line.platform, row.builtin), custom |-> row.custom,
               cred |-> Given(line.cred, row.cred), enabled |-> Kept(line.enabled, row.enabled),
               groups |-> row.groups \cup line.groups]
  BY DEF ImportedRow
<1> QED
  BY <1>1, <1>2 DEF DeviceRow

LEMMA NewRowIs ==
  ASSUME NEW line \in ImportLine
  PROVE  NewRow(line) \in DeviceRow
<1>1. Kept(line.enabled, TRUE) \in BOOLEAN
  BY DEF ImportLine, Kept
<1> QED
  BY <1>1 DEF NewRow, DeviceRow, ImportLine

-----------------------------------------------------------------------------
(* The requests in progress.                                               *)

TablesOK ==
  /\ device \in [Devices -> DeviceCell]
  /\ group \in [Groups -> GroupCell]
  /\ job \in [Jobs -> JobCell]
  /\ platform \in [Platforms -> {"defined", Fresh, Gone}]

Partial(Ids, Rows) == UNION {[S -> Rows] : S \in SUBSET Ids}

What == DeviceForms \cup BulkForms \cup ImportFiles \cup GroupForms \cup JobForms

Open(kinds, rows, inserts) ==
  [kind : kinds, seen : rows, want : rows, inserts : SUBSET inserts, what : What, quiet : BOOLEAN]

Req == [kind : {"idle"}, quiet : BOOLEAN]
       \cup Open(DeviceKinds, Partial(Devices, DeviceRow), DeviceRow)
       \cup Open({"group"}, Partial(Groups, GroupRow), {})
       \cup Open({"job"}, Partial(Jobs, JobRow), {})

(* A device request other than an import leaves no device on two platforms *)
(* that was not, and an import edits and inserts what its lines say, with  *)
(* a place for every line.                                                 *)
PlainReq(r) ==
  /\ \A d \in DOMAIN r.want : Mixed(r.want[d]) =>
       r.want[d].builtin = r.seen[d].builtin /\ r.want[d].custom = r.seen[d].custom
  /\ \A row \in r.inserts : ~Mixed(row)

ImportReq(r) ==
  /\ r.what \in Seq(ImportLine)
  /\ \A d \in DOMAIN r.want :
       \E i \in DOMAIN r.what : /\ r.what[i].name = r.seen[d].name
                               /\ r.want[d] = ImportedRow(r.seen[d], r.what[i])
  /\ \A i \in DOMAIN r.what :
       \/ NewRow(r.what[i]) \in r.inserts
       \/ \E d \in DOMAIN r.want : /\ r.seen[d].name = r.what[i].name
                                   /\ r.want[d] = ImportedRow(r.seen[d], r.what[i])

ReqOK(r) ==
  /\ r \in Req
  /\ r.kind # "idle" => DOMAIN r.seen = DOMAIN r.want
  /\ r.kind = "import" => ImportReq(r)
  /\ r.kind \in DeviceKinds \ {"import"} => PlainReq(r)

(* What the request read of the devices is what is stored.                 *)
IsCurrent(r) == r.kind \in DeviceKinds => \A d \in DOMAIN r.seen : device[d] = r.seen[d]

(* The same request, disturbed or not.                                     *)
SameReq(r, s) ==
  /\ s \in Req /\ s.kind = r.kind
  /\ r.kind # "idle" =>
       s.seen = r.seen /\ s.want = r.want /\ s.inserts = r.inserts /\ s.what = r.what

LEMMA PartialIs ==
  ASSUME NEW Ids, NEW Rows, NEW f \in Partial(Ids, Rows)
  PROVE  DOMAIN f \subseteq Ids /\ f \in [DOMAIN f -> Rows]
BY DEF Partial

LEMMA IsPartial ==
  ASSUME NEW Ids, NEW Rows, NEW S \in SUBSET Ids, NEW f \in [S -> Rows]
  PROVE  f \in Partial(Ids, Rows)
BY DEF Partial

LEMMA ReqIs ==
  ASSUME NEW r \in Req
  PROVE  /\ r.kind \in {"idle", "group", "job"} \cup DeviceKinds
         /\ r.quiet \in BOOLEAN
         /\ r.kind \in DeviceKinds =>
              /\ r.seen \in Partial(Devices, DeviceRow) /\ r.want \in Partial(Devices, DeviceRow)
              /\ r.inserts \subseteq DeviceRow
         /\ r.kind = "group" =>
              r.seen \in Partial(Groups, GroupRow) /\ r.want \in Partial(Groups, GroupRow)
         /\ r.kind = "job" =>
              r.seen \in Partial(Jobs, JobRow) /\ r.want \in Partial(Jobs, JobRow)
BY DEF Req, Open, DeviceKinds

LEMMA Requiet ==
  ASSUME NEW r \in Req, NEW q \in BOOLEAN
  PROVE  SameReq(r, [r EXCEPT !.quiet = q]) /\ [r EXCEPT !.quiet = q].quiet = q
<1> DEFINE s == [r EXCEPT !.quiet = q]
<1>1. CASE r \in [kind : {"idle"}, quiet : BOOLEAN]
  BY <1>1 DEF SameReq, Req
<1>2. ASSUME NEW kinds, NEW rows, NEW inserts, r \in Open(kinds, rows, inserts)
      PROVE  /\ s \in Open(kinds, rows, inserts) /\ s.kind = r.kind /\ s.quiet = q
             /\ s.seen = r.seen /\ s.want = r.want /\ s.inserts = r.inserts /\ s.what = r.what
  BY <1>2 DEF Open
<1>3. CASE r \in Open(DeviceKinds, Partial(Devices, DeviceRow), DeviceRow)
  BY <1>2, <1>3 DEF SameReq, Req
<1>4. CASE r \in Open({"group"}, Partial(Groups, GroupRow), {})
  BY <1>2, <1>4 DEF SameReq, Req
<1>5. CASE r \in Open({"job"}, Partial(Jobs, JobRow), {})
  BY <1>2, <1>5 DEF SameReq, Req
<1> QED
  BY <1>1, <1>3, <1>4, <1>5 DEF Req

LEMMA SameReqOK ==
  ASSUME NEW r, NEW s, ReqOK(r), SameReq(r, s)
  PROVE  ReqOK(s)
BY DEF ReqOK, SameReq, PlainReq, ImportReq, DeviceKinds

LEMMA IdleIs == Idle \in Req /\ Idle.kind = "idle" /\ ReqOK(Idle)
BY DEF Idle, Req, ReqOK, DeviceKinds

(* A commit elsewhere leaves a request as it is, but no longer quiet.      *)
LEMMA DisturbIs ==
  ASSUME NEW reqs \in [Slots -> Req], Disturb(reqs)
  PROVE  /\ req' \in [Slots -> Req]
         /\ \A w \in Slots : /\ SameReq(reqs[w], req'[w])
                             /\ req'[w].quiet => req'[w].kind = "idle"
<1>1. ASSUME NEW w \in Slots
      PROVE  /\ SameReq(reqs[w], req'[w])
             /\ req'[w].quiet => req'[w].kind = "idle"
  <2>1. req'[w] = [reqs[w] EXCEPT !.quiet = (reqs[w].kind = "idle")]
    BY DEF Disturb
  <2>2. SameReq(reqs[w], req'[w]) /\ req'[w].quiet = (reqs[w].kind = "idle")
    BY <2>1, Requiet
  <2> QED
    BY <2>2 DEF SameReq
<1>2. \A w \in Slots : req'[w] \in Req
  BY <1>1 DEF SameReq
<1> QED
  BY <1>1, <1>2 DEF Disturb

(* What a handler begins: a well-formed request that has read what is      *)
(* stored.                                                                 *)
Begun(kind, seen, want, inserts, what) ==
  LET r == [kind |-> kind, seen |-> seen, want |-> want, inserts |-> inserts, what |-> what,
            quiet |-> TRUE]
  IN ReqOK(r) /\ IsCurrent(r)

LEMMA RowIsPartial ==
  ASSUME NEW Ids, NEW id \in Ids, NEW Rows, NEW row \in Rows
  PROVE  Row(id, row) \in Partial(Ids, Rows)
<1>1. Row(id, row) \in [{id} -> Rows]
  BY DEF Row
<1> QED
  BY <1>1, IsPartial

LEMMA CreateBegun ==
  ASSUME TablesOK, NEW form \in DeviceForms
  PROVE  Begun("create", NoRows, NoRows, {FormRow(Unset, form)}, form)
<1>1. FormRow(Unset, form) \in DeviceRow /\ ~Mixed(FormRow(Unset, form))
  BY FormRowIs DEF TablesOK, Unset
<1>2. NoRows \in Partial(Devices, DeviceRow) /\ DOMAIN NoRows = {}
  <2>1. NoRows \in [{} -> DeviceRow]
    BY DEF NoRows
  <2> QED
    BY <2>1, IsPartial
<1> DEFINE row == FormRow(Unset, form)
           r == [kind |-> "create", seen |-> NoRows, want |-> NoRows, inserts |-> {row},
                 what |-> form, quiet |-> TRUE]
<1> HIDE DEF row
<1>3. r \in Req
  BY <1>1, <1>2 DEF Req, Open, DeviceKinds, What, row
<1>4. PlainReq(r) /\ IsCurrent(r)
  BY <1>1, <1>2 DEF PlainReq, IsCurrent, row
<1> QED
  BY <1>3, <1>4 DEF Begun, ReqOK, row

LEMMA UpdateBegun ==
  ASSUME TablesOK, NEW d \in Devices, Exists(device[d]), NEW form \in DeviceForms
  PROVE  Begun("update", Row(d, device[d]), Row(d, FormRow(device[d], form)), {}, form)
<1> DEFINE old == device[d]
           new == FormRow(old, form)
<1>1. old \in DeviceRow
  BY ExistsIs DEF TablesOK
<1>2. new \in DeviceRow /\ ~Mixed(new)
  BY <1>1, FormRowIs DEF TablesOK, DeviceRow
<1>3. old = device[d]
  OBVIOUS
<1> HIDE DEF old, new
<1> DEFINE r == [kind |-> "update", seen |-> Row(d, old), want |-> Row(d, new), inserts |-> {},
                 what |-> form, quiet |-> TRUE]
<1>4. r \in Req
  <2>1. Row(d, old) \in Partial(Devices, DeviceRow) /\ Row(d, new) \in Partial(Devices, DeviceRow)
    BY <1>1, <1>2, RowIsPartial
  <2> QED
    BY <2>1 DEF Req, Open, DeviceKinds, What
<1>5. /\ DOMAIN Row(d, old) = {d} /\ DOMAIN Row(d, new) = {d}
      /\ Row(d, old)[d] = old /\ Row(d, new)[d] = new
  BY DEF Row
<1>6. PlainReq(r) /\ IsCurrent(r)
  BY <1>2, <1>3, <1>5 DEF PlainReq, IsCurrent
<1> QED
  BY <1>4, <1>5, <1>6 DEF Begun, ReqOK, old, new

LEMMA BulkBegun ==
  ASSUME TablesOK, NEW ids \in SUBSET Devices, NEW form \in BulkForms
  PROVE  LET found == ids \cap Present(device) IN
         Begun("bulk", Restrict(device, found), [d \in found |-> BulkRow(device[d], form)], {}, form)
<1> DEFINE found == ids \cap Present(device)
           seen == Restrict(device, found)
           want == [d \in found |-> BulkRow(device[d], form)]
           r == [kind |-> "bulk", seen |-> seen, want |-> want, inserts |-> {},
                 what |-> form, quiet |-> TRUE]
<1>1. found \in SUBSET Devices /\ \A d \in found : device[d] \in DeviceRow
  BY ExistsIs DEF Present, TablesOK
<1> HIDE DEF found
<1>2. DOMAIN seen = found /\ DOMAIN want = found /\ \A d \in found : seen[d] = device[d]
  BY DEF Restrict
<1>3. ASSUME NEW d \in found
      PROVE  /\ want[d] \in DeviceRow
             /\ Mixed(want[d]) => want[d].builtin = device[d].builtin /\ want[d].custom = device[d].custom
  BY <1>1, BulkRowIs DEF TablesOK
<1>4. seen \in [found -> DeviceRow] /\ want \in [found -> DeviceRow]
  BY <1>1, <1>3 DEF Restrict
<1>5. seen \in Partial(Devices, DeviceRow) /\ want \in Partial(Devices, DeviceRow)
  BY <1>1, <1>4, IsPartial
<1> HIDE DEF seen, want
<1>6. r \in Req
  BY <1>5 DEF Req, Open, DeviceKinds, What
<1>7. PlainReq(r) /\ IsCurrent(r)
  BY <1>2, <1>3 DEF PlainReq, IsCurrent
<1>8. Begun("bulk", seen, want, {}, form)
  BY <1>2, <1>6, <1>7 DEF Begun, ReqOK
<1> QED
  BY <1>8 DEF seen, want, found

LEMMA LinesAreNamed ==
  ASSUME NEW file \in Seq(ImportLine), {file[i] : i \in Accepted(file)} # {}
  PROVE  /\ Accepted(file) = DOMAIN file
         /\ \A i, j \in DOMAIN file : file[i].name = file[j].name => i = j
<1>1. Accepted(file) = DOMAIN file /\ \A i \in DOMAIN file : LineOK(file, i)
  BY DEF Accepted
<1>2. \A i \in DOMAIN file : i \in Nat /\ \A j \in DOMAIN file : j < i => j \in 1..(i - 1)
  OBVIOUS
<1>3. ASSUME NEW i \in DOMAIN file, NEW j \in DOMAIN file, j < i
      PROVE  file[j].name # file[i].name
  BY <1>1, <1>2, <1>3 DEF LineOK
<1> QED
  BY <1>1, <1>2, <1>3

LEMMA ImportBegun ==
  ASSUME TablesOK, NEW file \in ImportFiles, {file[i] : i \in Accepted(file)} # {}
  PROVE  LET lines   == {file[i] : i \in Accepted(file)}
             named   == {d \in Present(device) : \E line \in lines : line.name = device[d].name}
             LineFor(d) == CHOOSE line \in lines : line.name = device[d].name
         IN Begun("import", Restrict(device, named),
              [d \in named |-> ImportedRow(device[d], LineFor(d))],
              {NewRow(line) : line \in {l \in lines : \A d \in named : device[d].name # l.name}},
              file)
<1> DEFINE lines   == {file[i] : i \in Accepted(file)}
           named   == {d \in Present(device) : \E line \in lines : line.name = device[d].name}
           LineFor(d) == CHOOSE line \in lines : line.name = device[d].name
           seen == Restrict(device, named)
           want == [d \in named |-> ImportedRow(device[d], LineFor(d))]
           inserts == {NewRow(line) : line \in {l \in lines : \A d \in named : device[d].name # l.name}}
           r == [kind |-> "import", seen |-> seen, want |-> want, inserts |-> inserts,
                 what |-> file, quiet |-> TRUE]
<1>1. file \in Seq(ImportLine)
  BY InventoryAssumption
<1>2. Accepted(file) = DOMAIN file /\ \A i, j \in DOMAIN file : file[i].name = file[j].name => i = j
  BY <1>1, LinesAreNamed
<1>3. /\ \A i \in DOMAIN file : file[i] \in lines
      /\ \A line \in lines : line \in ImportLine /\ \E i \in DOMAIN file : line = file[i]
  BY <1>1, <1>2
<1>4. named \in SUBSET Devices /\ \A d \in named : device[d] \in DeviceRow
  BY ExistsIs DEF Present, TablesOK
<1>5. \A d \in named : LineFor(d) \in lines /\ LineFor(d).name = device[d].name
  OBVIOUS
<1>6. \A d \in Present(device), line \in lines : line.name = device[d].name => d \in named
  OBVIOUS
<1>7. inserts = {NewRow(line) : line \in {l \in lines : \A d \in named : device[d].name # l.name}}
  OBVIOUS
<1> HIDE DEF named, LineFor, lines
<1>8. DOMAIN seen = named /\ DOMAIN want = named /\ \A d \in named : seen[d] = device[d]
  BY DEF Restrict
<1>9. ASSUME NEW d \in named
      PROVE  /\ want[d] \in DeviceRow
             /\ \E i \in DOMAIN file : /\ file[i].name = seen[d].name
                                      /\ want[d] = ImportedRow(seen[d], file[i])
  <2>1. LineFor(d) \in ImportLine /\ want[d] = ImportedRow(device[d], LineFor(d))
    BY <1>3, <1>5
  <2>2. PICK i \in DOMAIN file : LineFor(d) = file[i]
    BY <1>3, <1>5
  <2> QED
    BY <1>4, <1>5, <1>8, <2>1, <2>2, ImportedRowIs
<1>10. ASSUME NEW i \in DOMAIN file
       PROVE  \/ NewRow(file[i]) \in inserts
              \/ \E d \in named : /\ seen[d].name = file[i].name
                                  /\ want[d] = ImportedRow(seen[d], file[i])
  <2>1. CASE \A d \in named : device[d].name # file[i].name
    BY <1>3, <1>7, <2>1
  <2>2. ASSUME NEW d \in named, device[d].name = file[i].name
        PROVE  seen[d].name = file[i].name /\ want[d] = ImportedRow(seen[d], file[i])
    <3>1. PICK k \in DOMAIN file : LineFor(d) = file[k]
      BY <1>3, <1>5
    <3>2. file[k].name = file[i].name
      BY <1>5, <2>2, <3>1
    <3>3. LineFor(d) = file[i]
      BY <1>2, <3>1, <3>2
    <3> QED
      BY <1>8, <2>2, <3>3
  <2> QED
    BY <2>1, <2>2
<1>11. inserts \in SUBSET DeviceRow
  BY <1>3, NewRowIs
<1>12. seen \in [named -> DeviceRow] /\ want \in [named -> DeviceRow]
  BY <1>4, <1>9 DEF Restrict
<1>13. seen \in Partial(Devices, DeviceRow) /\ want \in Partial(Devices, DeviceRow)
  BY <1>4, <1>12, IsPartial
<1> HIDE DEF seen, want, inserts
<1>14. r \in Req
  BY <1>11, <1>13 DEF Req, Open, DeviceKinds, What
<1>15. ImportReq(r) /\ IsCurrent(r)
  BY <1>1, <1>8, <1>9, <1>10 DEF ImportReq, IsCurrent
<1>16. Begun("import", seen, want, inserts, file)
  BY <1>8, <1>14, <1>15 DEF Begun, ReqOK
<1> QED
  BY <1>16 DEF seen, want, inserts, named, LineFor, lines

LEMMA JobRowIs ==
  ASSUME TablesOK, NEW form \in JobForms
  PROVE  /\ JobRowOf(form) \in JobRow
         /\ JobRowOf(form).groups \subseteq Present(group)
         /\ JobRowOf(form).devices \subseteq Present(device)
<1>1. form \in JobRow
  BY InventoryAssumption
<1> QED
  BY <1>1 DEF JobRowOf, JobRow

LEMMA GroupBegun ==
  ASSUME TablesOK, NEW g \in Groups, Exists(group[g]), NEW form \in GroupForms
  PROVE  Begun("group", Row(g, group[g]), Row(g, form), {}, form)
<1> DEFINE r == [kind |-> "group", seen |-> Row(g, group[g]), want |-> Row(g, form), inserts |-> {},
                 what |-> form, quiet |-> TRUE]
<1>1. group[g] \in GroupRow /\ form \in GroupRow
  BY ExistsIs, InventoryAssumption DEF TablesOK
<1>2. Row(g, group[g]) \in Partial(Groups, GroupRow) /\ Row(g, form) \in Partial(Groups, GroupRow)
  BY <1>1, RowIsPartial
<1>3. r \in Req
  BY <1>2 DEF Req, Open, What
<1>4. DOMAIN Row(g, group[g]) = {g} /\ DOMAIN Row(g, form) = {g}
  BY DEF Row
<1> QED
  BY <1>3, <1>4 DEF Begun, ReqOK, IsCurrent, DeviceKinds

LEMMA JobBegun ==
  ASSUME TablesOK, NEW j \in Jobs, Exists(job[j]), NEW form \in JobForms
  PROVE  Begun("job", Row(j, job[j]), Row(j, JobRowOf(form)), {}, form)
<1> DEFINE r == [kind |-> "job", seen |-> Row(j, job[j]), want |-> Row(j, JobRowOf(form)),
                 inserts |-> {}, what |-> form, quiet |-> TRUE]
<1>1. job[j] \in JobRow /\ JobRowOf(form) \in JobRow
  BY ExistsIs, JobRowIs DEF TablesOK
<1>2. Row(j, job[j]) \in Partial(Jobs, JobRow) /\ Row(j, JobRowOf(form)) \in Partial(Jobs, JobRow)
  BY <1>1, RowIsPartial
<1>3. r \in Req
  BY <1>2 DEF Req, Open, What
<1>4. DOMAIN Row(j, job[j]) = {j} /\ DOMAIN Row(j, JobRowOf(form)) = {j}
  BY DEF Row
<1> QED
  BY <1>3, <1>4 DEF Begun, ReqOK, IsCurrent, DeviceKinds

(* Requests are well-formed, and the quiet ones are current.               *)
ReqInv ==
  /\ req \in [Slots -> Req]
  /\ \A w \in Slots : ReqOK(req[w]) /\ (req[w].quiet => IsCurrent(req[w]))

LEMMA BeginReqInv ==
  ASSUME ReqInv, NEW w \in Slots, NEW kind, NEW seen, NEW want, NEW inserts, NEW what,
         Begun(kind, seen, want, inserts, what), Begin(w, kind, seen, want, inserts, what)
  PROVE  ReqInv'
<1> DEFINE r == [kind |-> kind, seen |-> seen, want |-> want, inserts |-> inserts, what |-> what,
                 quiet |-> TRUE]
<1>1. ReqOK(r) /\ IsCurrent(r)
  BY DEF Begun
<1>2. req' = [req EXCEPT ![w] = r] /\ device' = device
  BY DEF Begin, tables
<1> HIDE DEF r
<1>3. r \in Req
  BY <1>1 DEF ReqOK
<1>4. ASSUME NEW v \in Slots PROVE ReqOK(req'[v]) /\ (req'[v].quiet => IsCurrent(req[v])')
  <2>1. CASE v = w
    BY <1>1, <1>2, <2>1 DEF ReqInv, IsCurrent
  <2>2. CASE v # w
    BY <1>2, <2>2 DEF ReqInv, IsCurrent
  <2> QED
    BY <2>1, <2>2
<1> QED
  BY <1>2, <1>3, <1>4 DEF ReqInv

LEMMA DisturbReqInv ==
  ASSUME NEW reqs \in [Slots -> Req], \A w \in Slots : ReqOK(reqs[w]), Disturb(reqs)
  PROVE  ReqInv'
<1>1. \A w \in Slots : ReqOK(req'[w]) /\ (req'[w].quiet => req'[w].kind = "idle")
  BY DisturbIs, SameReqOK
<1> QED
  BY <1>1, DisturbIs DEF ReqInv, IsCurrent, DeviceKinds

LEMMA CommittedReqInv ==
  ASSUME ReqInv, NEW w \in Slots, Committed(w) PROVE ReqInv'
<1> DEFINE reqs == [req EXCEPT ![w] = Idle]
<1>1. reqs \in [Slots -> Req] /\ \A v \in Slots : ReqOK(reqs[v])
  BY IdleIs DEF ReqInv
<1>2. Disturb(reqs)
  BY DEF Committed
<1> HIDE DEF reqs
<1> QED
  BY <1>1, <1>2, DisturbReqInv

LEMMA ElsewhereReqInv ==
  ASSUME ReqInv, CommittedElsewhere PROVE ReqInv'
BY DisturbReqInv DEF ReqInv, CommittedElsewhere

LEMMA SameDeviceReqInv ==
  ASSUME ReqInv, req' = req, device' = device PROVE ReqInv'
BY DEF ReqInv, IsCurrent

LEMMA ReqInvStep == TablesOK /\ ReqInv /\ [Next]_vars => ReqInv'
<1> SUFFICES ASSUME TablesOK, ReqInv, [Next]_vars PROVE ReqInv'
  OBVIOUS
<1>1. ASSUME NEW w \in Slots, NEW form \in DeviceForms, CreateDevice(w, form) PROVE ReqInv'
  BY <1>1, CreateBegun, BeginReqInv DEF CreateDevice
<1>2. ASSUME NEW w \in Slots, NEW d \in Devices, NEW form \in DeviceForms, UpdateDevice(w, d, form)
      PROVE  ReqInv'
  BY <1>2, UpdateBegun, BeginReqInv DEF UpdateDevice
<1>3. ASSUME NEW w \in Slots, NEW ids \in SUBSET Devices, NEW form \in BulkForms,
             BulkEdit(w, ids, form)
      PROVE  ReqInv'
  <2> DEFINE found == ids \cap Present(device)
             seen == Restrict(device, found)
             want == [d \in found |-> BulkRow(device[d], form)]
  <2>1. Begun("bulk", seen, want, {}, form)
    BY BulkBegun
  <2>2. Begin(w, "bulk", seen, want, {}, form)
    BY <1>3 DEF BulkEdit
  <2> HIDE DEF seen, want
  <2> QED
    BY <2>1, <2>2, BeginReqInv
<1>4. ASSUME NEW w \in Slots, NEW file \in ImportFiles, Import(w, file) PROVE ReqInv'
  <2> DEFINE lines   == {file[i] : i \in Accepted(file)}
             named   == {d \in Present(device) : \E line \in lines : line.name = device[d].name}
             LineFor(d) == CHOOSE line \in lines : line.name = device[d].name
             seen == Restrict(device, named)
             want == [d \in named |-> ImportedRow(device[d], LineFor(d))]
             inserts ==
               {NewRow(line) : line \in {l \in lines : \A d \in named : device[d].name # l.name}}
  <2>1. lines # {} /\ Begin(w, "import", seen, want, inserts, file)
    BY <1>4 DEF Import
  <2>2. Begun("import", seen, want, inserts, file)
    BY <2>1, ImportBegun
  <2> HIDE DEF seen, want, inserts
  <2> QED
    BY <2>1, <2>2, BeginReqInv
<1>5. ASSUME NEW w \in Slots, NEW g \in Groups, NEW form \in GroupForms, UpdateGroup(w, g, form)
      PROVE  ReqInv'
  BY <1>5, GroupBegun, BeginReqInv DEF UpdateGroup
<1>6. ASSUME NEW w \in Slots, NEW j \in Jobs, NEW form \in JobForms, UpdateJob(w, j, form)
      PROVE  ReqInv'
  BY <1>6, JobBegun, BeginReqInv DEF UpdateJob
<1>7. ASSUME NEW w \in Slots, DeviceCommit(w) \/ GroupCommit(w) \/ JobCommit(w) PROVE ReqInv'
  BY <1>7, CommittedReqInv DEF DeviceCommit, GroupCommit, JobCommit
<1>8. ASSUME NEW w \in Slots, RequestFails(w) PROVE ReqInv'
  BY <1>8, IdleIs DEF RequestFails, ReqInv, IsCurrent, tables, DeviceKinds
<1>9. ASSUME NEW w \in Slots, EditCred(w) \/ SaveCred(w) PROVE ReqInv'
  BY <1>9, SameDeviceReqInv, ElsewhereReqInv DEF EditCred, SaveCred
<1>10. ASSUME \/ \E g \in Groups, form \in GroupForms : CreateGroup(g, form)
              \/ \E ids \in SUBSET Devices : DeleteDevices(ids)
              \/ \E ids \in SUBSET Groups : DeleteGroups(ids)
              \/ \E c \in Creds : RemoveCred(c)
              \/ \E j \in Jobs, form \in JobForms : CreateJob(j, form)
              \/ \E ids \in SUBSET Jobs : DeleteJobs(ids)
              \/ \E p \in Platforms : CreatePlatform(p) \/ DeletePlatform(p)
       PROVE  ReqInv'
  <2>1. CommittedElsewhere
    BY <1>10 DEF CreateGroup, DeleteDevices, DeleteGroups, RemoveCred, CreateJob, DeleteJobs,
       CreatePlatform, DeletePlatform
  <2> QED
    BY <2>1, ElsewhereReqInv
<1>11. ASSUME \/ \E j \in Jobs : FireBegin(j)
              \/ FireCollect \/ FireFlush \/ FireDone \/ SessionEnds
              \/ \E d \in Devices : FireSpec(d)
       PROVE  ReqInv'
  <2>1. req' = req /\ device' = device
    BY <1>11 DEF FireBegin, FireCollect, FireFlush, FireDone, FireSpec, SessionEnds, tables
  <2> QED
    BY <2>1, SameDeviceReqInv
<1>12. ASSUME UNCHANGED vars PROVE ReqInv'
  BY <1>12, SameDeviceReqInv DEF vars, tables
<1> QED
  BY <1>1, <1>2, <1>3, <1>4, <1>5, <1>6, <1>7, <1>8, <1>9, <1>10, <1>11, <1>12 DEF Next

-----------------------------------------------------------------------------
(* What a commit of a device request does.                                 *)

LEMMA MergedDeviceIs ==
  ASSUME NEW r \in Req, r.kind \in DeviceKinds, NEW d \in DOMAIN r.want,
         DOMAIN r.seen = DOMAIN r.want, device[d] \in DeviceRow
  PROVE  LET now  == device[d]
             seen == r.seen[d]
             want == r.want[d]
             new  == MergedDevice(r, d)
         IN /\ new \in DeviceRow /\ seen \in DeviceRow /\ want \in DeviceRow
            /\ new.name = IF want.name # seen.name THEN want.name ELSE now.name
            /\ new.pool = IF want.pool # seen.pool THEN want.pool ELSE now.pool
            /\ new.builtin = IF want.builtin # seen.builtin THEN want.builtin ELSE now.builtin
            /\ new.custom = IF want.custom # seen.custom THEN want.custom ELSE now.custom
            /\ new.cred = IF want.cred # seen.cred THEN want.cred ELSE now.cred
            /\ new.enabled = IF want.enabled # seen.enabled THEN want.enabled ELSE now.enabled
            /\ new.groups = Linked(seen.groups, want.groups, now.groups)
<1> DEFINE now  == device[d]
           seen == r.seen[d]
           want == r.want[d]
           m == [name |-> IF want.name # seen.name THEN want.name ELSE now.name,
                 pool |-> IF want.pool # seen.pool THEN want.pool ELSE now.pool,
                 builtin |-> IF want.builtin # seen.builtin THEN want.builtin ELSE now.builtin,
                 custom |-> IF want.custom # seen.custom THEN want.custom ELSE now.custom,
                 cred |-> IF want.cred # seen.cred THEN want.cred ELSE now.cred,
                 enabled |-> IF want.enabled # seen.enabled THEN want.enabled ELSE now.enabled,
                 groups |-> Linked(seen.groups, want.groups, now.groups)]
<1>1. seen \in DeviceRow /\ want \in DeviceRow
  BY ReqIs, PartialIs
<1>2. MergedDevice(r, d) = [Merged(now, seen, want) EXCEPT
                              !.groups = Linked(seen.groups, want.groups, now.groups)]
  BY DEF MergedDevice
<1>3. now \in DeviceRow
  OBVIOUS
<1> HIDE DEF now, seen, want
<1>4. DOMAIN want = {"name", "pool", "builtin", "custom", "cred", "enabled", "groups"}
  BY <1>1 DEF DeviceRow
<1>5. MergedDevice(r, d) = m
  BY <1>2, <1>4 DEF Merged
<1>6. Linked(seen.groups, want.groups, now.groups) \in SUBSET Groups
  BY <1>1, <1>3 DEF Linked, DeviceRow
<1>7. m \in DeviceRow
  BY <1>1, <1>3, <1>6 DEF DeviceRow
<1> QED
  BY <1>1, <1>5, <1>7 DEF now, seen, want

(* The row of each device after the commit.                                *)
LEMMA CommitIs ==
  ASSUME TablesOK, NEW r \in Req, r.kind \in DeviceKinds, DOMAIN r.seen = DOMAIN r.want,
         NEW idOf \in NewIds(r), device' = DevicesAfter(r, idOf)
  PROVE  /\ \A d \in Devices :
              \/ d \in DOMAIN r.want /\ Exists(device[d]) /\ device'[d] = MergedDevice(r, d)
              \/ device[d] = Fresh /\ \E row \in r.inserts : device'[d] = row
              \/ device'[d] = device[d]
         /\ \A d \in DOMAIN r.want : d \in Devices /\ (Exists(device[d]) => device'[d] = MergedDevice(r, d))
         /\ \A row \in r.inserts : \E d \in Devices : device[d] = Fresh /\ device'[d] = row
         /\ device' \in [Devices -> DeviceCell]
<1>1. /\ r.inserts \subseteq DeviceRow /\ DOMAIN r.want \subseteq Devices
      /\ r.want \in [DOMAIN r.want -> DeviceRow]
  BY ReqIs, PartialIs
<1>2. /\ \A row \in r.inserts : idOf[row] \in Devices /\ device[idOf[row]] = Fresh
      /\ \A row1, row2 \in r.inserts : idOf[row1] = idOf[row2] => row1 = row2
  BY DEF NewIds, IsInjective
<1>3. \A row \in r.inserts : (CHOOSE q \in r.inserts : idOf[q] = idOf[row]) = row
  BY <1>2
<1>4. ASSUME NEW row \in r.inserts PROVE device'[idOf[row]] = row
  <2>1. ~Exists(device[idOf[row]])
    BY <1>2, ExistsIs
  <2> QED
    BY <1>2, <1>3, <2>1 DEF DevicesAfter
<1>5. ASSUME NEW d \in DOMAIN r.want, Exists(device[d]) PROVE device'[d] = MergedDevice(r, d)
  BY <1>1, <1>5 DEF DevicesAfter
<1>6. ASSUME NEW d \in Devices, ~(d \in DOMAIN r.want /\ Exists(device[d])),
             \A row \in r.inserts : idOf[row] # d
      PROVE  device'[d] = device[d]
  BY <1>6 DEF DevicesAfter
<1>7. \A d \in Devices :
              \/ d \in DOMAIN r.want /\ Exists(device[d]) /\ device'[d] = MergedDevice(r, d)
              \/ device[d] = Fresh /\ \E row \in r.inserts : device'[d] = row
              \/ device'[d] = device[d]
  BY <1>2, <1>4, <1>5, <1>6
<1>8. ASSUME NEW d \in Devices PROVE device'[d] \in DeviceCell
  <2>1. CASE d \in DOMAIN r.want /\ Exists(device[d])
    <3>1. device[d] \in DeviceRow
      BY <2>1, ExistsIs DEF TablesOK
    <3>2. MergedDevice(r, d) \in DeviceRow
      BY <2>1, <3>1, MergedDeviceIs
    <3> QED
      BY <1>5, <2>1, <3>2 DEF DeviceCell
  <2>2. CASE ~(d \in DOMAIN r.want /\ Exists(device[d]))
    BY <1>1, <1>7, <2>2 DEF TablesOK, DeviceCell
  <2> QED
    BY <2>1, <2>2
<1>9. device' = [d \in Devices |-> device'[d]]
  BY DEF DevicesAfter
<1> QED
  BY <1>1, <1>2, <1>4, <1>5, <1>7, <1>8, <1>9

-----------------------------------------------------------------------------
(* Whatever is committed, names are used once and references are to rows   *)
(* that are there.                                                         *)

RowsInv ==
  /\ TablesOK
  /\ UniqueNames(device)
  /\ References(device, group, job, cred, platform)

LEMMA PresentIs ==
  ASSUME NEW Ids, NEW Cells, NEW table \in [Ids -> Cells]
  PROVE  \A id : id \in Present(table) <=> id \in Ids /\ Exists(table[id])
BY DEF Present

(* Rows that keep their names, or go, keep names apart.                    *)
LEMMA NamesStayUnique ==
  ASSUME TablesOK, UniqueNames(device), device' \in [Devices -> DeviceCell],
         \A d \in Devices : Exists(device'[d]) =>
           Exists(device[d]) /\ device'[d].name = device[d].name
  PROVE  UniqueNames(device')
BY PresentIs DEF UniqueNames, TablesOK

(* Tables that only grow keep the references of the rows of the others.    *)
LEMMA ReferencesStay ==
  ASSUME RowsInv, TablesOK',
         Present(group) \subseteq Present(group'), Present(cred) \subseteq Present(cred'),
         Present(platform) \subseteq Present(platform'), Present(device) \subseteq Present(device'),
         \A d \in Present(device') :
           \/ d \in Present(device) /\ device'[d] = device[d]
           \/ /\ device'[d].groups \subseteq Present(group')
              /\ device'[d].cred \in {None} \cup Present(cred')
              /\ device'[d].custom \in {None} \cup Present(platform'),
         \A g \in Present(group') :
           \/ g \in Present(group) /\ group'[g] = group[g]
           \/ group'[g].cred \in {None} \cup Present(cred'),
         \A j \in Present(job') :
           \/ j \in Present(job) /\ job'[j] = job[j]
           \/ job'[j].groups \subseteq Present(group') /\ job'[j].devices \subseteq Present(device')
  PROVE  References(device', group', job', cred', platform')
<1>1. ASSUME NEW d \in Present(device')
      PROVE  /\ device'[d].groups \subseteq Present(group')
             /\ device'[d].cred \in {None} \cup Present(cred')
             /\ device'[d].custom \in {None} \cup Present(platform')
  <2>1. CASE d \in Present(device) /\ device'[d] = device[d]
    <3>1. /\ device[d].groups \subseteq Present(group)
          /\ device[d].cred \in {None} \cup Present(cred)
          /\ device[d].custom \in {None} \cup Present(platform)
      BY <2>1 DEF RowsInv, References
    <3> QED
      BY <2>1, <3>1
  <2> QED
    BY <2>1
<1>2. ASSUME NEW g \in Present(group') PROVE group'[g].cred \in {None} \cup Present(cred')
  <2>1. g \in Present(group) => group[g].cred \in {None} \cup Present(cred)
    BY DEF RowsInv, References
  <2> QED
    BY <2>1
<1>3. ASSUME NEW j \in Present(job')
      PROVE  job'[j].groups \subseteq Present(group') /\ job'[j].devices \subseteq Present(device')
  <2>1. j \in Present(job) =>
          job[j].groups \subseteq Present(group) /\ job[j].devices \subseteq Present(device)
    BY DEF RowsInv, References
  <2> QED
    BY <2>1
<1> QED
  BY <1>1, <1>2, <1>3 DEF References

LEMMA DeviceCommitRows ==
  ASSUME RowsInv, ReqInv, CredInv, NEW w \in Slots, DeviceCommit(w)
  PROVE  RowsInv'
<1> DEFINE r == req[w]
<1>1. PICK idOf \in NewIds(r) : ~DeviceConflict(r, idOf) /\ device' = DevicesAfter(r, idOf)
  BY DEF DeviceCommit
<1>2. /\ UNCHANGED <<cred, group, job, platform>> /\ r.kind \in DeviceKinds /\ r \in Req
      /\ DOMAIN r.seen = DOMAIN r.want
  BY DEF DeviceCommit, credVars, ReqInv, ReqOK, DeviceKinds
<1> HIDE DEF r
<1>3. TablesOK /\ UniqueNames(device)
  BY DEF RowsInv
<1>4. TablesOK'
  BY <1>1, <1>2, <1>3, CommitIs DEF TablesOK
<1>5. UniqueNames(device')
  BY <1>1 DEF DeviceConflict
<1>6. ASSUME NEW d \in Devices, d \in DOMAIN r.want, Exists(device[d]), device'[d] = MergedDevice(r, d)
      PROVE  /\ device'[d].groups \subseteq Present(group)
             /\ device'[d].cred \in {None} \cup Present(cred)
             /\ device'[d].custom \in {None} \cup Present(platform)
             /\ Exists(device'[d])
  <2>1. device[d] \in DeviceRow /\ d \in Present(device)
    BY <1>3, <1>6, ExistsIs, PresentIs DEF TablesOK
  <2>2. /\ device[d].groups \subseteq Present(group)
        /\ device[d].cred \in {None} \cup Present(cred)
        /\ device[d].custom \in {None} \cup Present(platform)
    BY <2>1 DEF RowsInv, References
  <2>3. ~LostRow(r, d) /\ ~Dangling(r.want[d], r.seen[d])
    BY <1>1, <1>6 DEF DeviceConflict
  <2>4. r.want[d].groups \ r.seen[d].groups \subseteq Present(group)
    BY <1>6, <2>3 DEF LostRow, LinkConflict
  <2>5. device'[d].groups = Linked(r.seen[d].groups, r.want[d].groups, device[d].groups)
    BY <1>2, <1>6, <2>1, MergedDeviceIs
  <2>6. device'[d].groups \subseteq Present(group)
    BY <2>2, <2>4, <2>5 DEF Linked
  <2>7. /\ device'[d].cred = IF r.want[d].cred # r.seen[d].cred THEN r.want[d].cred ELSE device[d].cred
        /\ device'[d].custom = IF r.want[d].custom # r.seen[d].custom
                                 THEN r.want[d].custom ELSE device[d].custom
        /\ device'[d] \in DeviceRow
    BY <1>2, <1>6, <2>1, MergedDeviceIs
  <2> QED
    BY <2>2, <2>3, <2>6, <2>7, ExistsIs DEF Dangling, DeviceCell
<1>7. ASSUME NEW row \in r.inserts
      PROVE  /\ row.groups \subseteq Present(group)
             /\ row.cred \in {None} \cup Present(cred)
             /\ row.custom \in {None} \cup Present(platform)
  BY <1>1 DEF DeviceConflict, Dangling, Unset
<1>8. \A d \in Devices :
        \/ d \in DOMAIN r.want /\ Exists(device[d]) /\ device'[d] = MergedDevice(r, d)
        \/ device[d] = Fresh /\ \E row \in r.inserts : device'[d] = row
        \/ device'[d] = device[d]
  BY <1>1, <1>2, <1>3, CommitIs
<1>9. Present(device) \subseteq Present(device')
  <2>1. ASSUME NEW d \in Devices, Exists(device[d]) PROVE Exists(device'[d])
    BY <1>6, <1>8, <2>1, ExistsIs
  <2> QED
    BY <1>3, <1>4, <2>1, PresentIs DEF TablesOK
<1>10. ASSUME NEW d \in Present(device')
       PROVE  \/ d \in Present(device) /\ device'[d] = device[d]
              \/ /\ device'[d].groups \subseteq Present(group')
                 /\ device'[d].cred \in {None} \cup Present(cred')
                 /\ device'[d].custom \in {None} \cup Present(platform')
  <2>1. d \in Devices /\ Exists(device'[d])
    BY <1>4, PresentIs DEF TablesOK
  <2>2. CASE d \in DOMAIN r.want /\ Exists(device[d]) /\ device'[d] = MergedDevice(r, d)
    BY <1>2, <1>6, <2>1, <2>2
  <2>3. CASE \E row \in r.inserts : device'[d] = row
    BY <1>2, <1>7, <2>3
  <2>4. CASE device'[d] = device[d]
    BY <1>3, <2>1, <2>4, PresentIs DEF TablesOK
  <2> QED
    BY <1>8, <2>1, <2>2, <2>3, <2>4
<1>11. References(device', group', job', cred', platform')
  BY <1>2, <1>4, <1>9, <1>10, ReferencesStay
<1> QED
  BY <1>4, <1>5, <1>11 DEF RowsInv

(* The credentials only grow, but for the one that is deleted.             *)
LEMMA CredsStay ==
  ASSUME CredInv, CredStep, \A c \in Creds : ~DeleteCred(c)
  PROVE  Present(cred) \subseteq Present(cred')
<1>1. CASE cred' = cred
  BY <1>1
<1>2. ASSUME NEW w \in Slots, CredCommit(w) PROVE Present(cred) \subseteq Present(cred')
  <2> DEFINE r == credreq[w]
  <2>1. r \in CredReq /\ r.at # "idle"
    BY <1>2 DEF CredInv, CredCommit
  <2>2. /\ r.want \in CredRow /\ cred' = CredSaved(r)
        /\ r.seen # Fresh => r.seen \in CredRow
    BY <1>2, <2>1 DEF CredCommit, CredReq, NoCredReq
  <2> HIDE DEF r
  <2>3. ASSUME NEW c \in Creds, Exists(cred[c]) PROVE Exists(cred'[c])
    <3>1. cred[c] \in CredRow
      BY <2>3, ExistsIs DEF CredInv
    <3>2. [cred[c] EXCEPT !.default = FALSE] \in CredRow
      BY <3>1 DEF CredRow
    <3>3. r.seen # Fresh => CredWritten(cred[c], r) \in CredRow
      BY <2>1, <2>2, <3>1, CredWrittenIs
    <3>4. cred'[c] \in CredRow
      BY <2>2, <2>3, <3>1, <3>2, <3>3 DEF CredSaved
    <3> QED
      BY <3>4, ExistsIs DEF CredCell
  <2>4. DOMAIN cred' = Creds /\ DOMAIN cred = Creds
    BY <2>2 DEF CredSaved, CredInv
  <2> QED
    BY <2>3, <2>4 DEF Present
<1> QED
  BY <1>1, <1>2 DEF CredStep, CreateCred, UpdateCred, ClearDefaults, CredRollback, credVars

LEMMA GroupCommitRows ==
  ASSUME RowsInv, ReqInv, NEW w \in Slots, GroupCommit(w)
  PROVE  RowsInv'
<1> DEFINE r == req[w]
<1>1. PICK g \in DOMAIN r.want :
        /\ ~GroupConflict(r, g)
        /\ group' = IF Exists(group[g])
                      THEN [group EXCEPT ![g] = Merged(@, r.seen[g], r.want[g])] ELSE group
  BY DEF GroupCommit
<1>2. /\ UNCHANGED <<cred, device, job, platform>> /\ r.kind = "group" /\ r \in Req
      /\ DOMAIN r.seen = DOMAIN r.want
  BY DEF GroupCommit, credVars, ReqInv, ReqOK
<1> HIDE DEF r
<1>3. TablesOK
  BY DEF RowsInv
<1>4. g \in Groups /\ r.want[g] \in GroupRow /\ r.seen[g] \in GroupRow
  BY <1>2, ReqIs, PartialIs
<1>5. CASE ~Exists(group[g])
  BY <1>1, <1>2, <1>5 DEF RowsInv, TablesOK
<1>6. CASE Exists(group[g])
  <2> DEFINE new == Merged(group[g], r.seen[g], r.want[g])
  <2>1. group[g] \in GroupRow
    BY <1>3, <1>4, <1>6, ExistsIs DEF TablesOK
  <2>2. DOMAIN r.want[g] = {"cred", "pool"}
    BY <1>4 DEF GroupRow
  <2>3. new = [cred |-> IF r.want[g].cred # r.seen[g].cred THEN r.want[g].cred ELSE group[g].cred,
               pool |-> IF r.want[g].pool # r.seen[g].pool THEN r.want[g].pool ELSE group[g].pool]
    BY <2>2 DEF Merged
  <2>4. new \in GroupRow
    BY <1>4, <2>1, <2>3 DEF GroupRow
  <2>5. group' = [group EXCEPT ![g] = new]
    BY <1>1, <1>6
  <2>6. group[g].cred \in {None} \cup Present(cred)
    BY <1>3, <1>4, <1>6, PresentIs DEF RowsInv, References, TablesOK
  <2>7. new.cred \in {None} \cup Present(cred)
    BY <1>1, <2>3, <2>6 DEF GroupConflict
  <2> HIDE DEF new
  <2>8. TablesOK'
    BY <1>2, <1>3, <2>4, <2>5 DEF TablesOK, GroupCell
  <2>9. Present(group') = Present(group)
    BY <1>3, <1>4, <1>6, <2>4, <2>5, ExistsIs DEF Present, TablesOK, GroupCell
  <2>10. \A h \in Groups : h # g => group'[h] = group[h]
    BY <1>3, <2>5 DEF TablesOK
  <2>11. group'[g] = new
    BY <1>3, <1>4, <2>5 DEF TablesOK
  <2>12. \A h \in Present(group') : h \in Groups /\ h \in Present(group)
    BY <1>3, <2>9 DEF Present, TablesOK
  <2>13. References(device', group', job', cred', platform')
    BY <1>2, <2>7, <2>8, <2>9, <2>10, <2>11, <2>12, ReferencesStay
  <2> QED
    BY <1>2, <2>8, <2>13 DEF RowsInv
<1> QED
  BY <1>5, <1>6

LEMMA JobCommitRows ==
  ASSUME RowsInv, ReqInv, NEW w \in Slots, JobCommit(w)
  PROVE  RowsInv'
<1> DEFINE r == req[w]
           new(j) == [groups |-> Linked(r.seen[j].groups, r.want[j].groups, job[j].groups),
                      devices |-> Linked(r.seen[j].devices, r.want[j].devices, job[j].devices)]
<1>1. PICK j \in DOMAIN r.want :
        /\ ~JobConflict(r, j)
        /\ job' = IF Exists(job[j]) THEN [job EXCEPT ![j] = new(j)] ELSE job
  BY DEF JobCommit
<1>2. /\ UNCHANGED <<cred, device, group, platform>> /\ r.kind = "job" /\ r \in Req
      /\ DOMAIN r.seen = DOMAIN r.want
  BY DEF JobCommit, credVars, ReqInv, ReqOK
<1> HIDE DEF r
<1>3. TablesOK
  BY DEF RowsInv
<1>4. j \in Jobs /\ r.want[j] \in JobRow /\ r.seen[j] \in JobRow
  BY <1>2, ReqIs, PartialIs
<1>5. CASE ~Exists(job[j])
  BY <1>1, <1>2, <1>5 DEF RowsInv, TablesOK
<1>6. CASE Exists(job[j])
  <2>1. job[j] \in JobRow
    BY <1>3, <1>4, <1>6, ExistsIs DEF TablesOK
  <2>2. job[j].groups \subseteq Present(group) /\ job[j].devices \subseteq Present(device)
    BY <1>3, <1>4, <1>6, PresentIs DEF RowsInv, References, TablesOK
  <2>3. /\ r.want[j].groups \ r.seen[j].groups \subseteq Present(group)
        /\ r.want[j].devices \ r.seen[j].devices \subseteq Present(device)
    BY <1>1, <1>6 DEF JobConflict, LinkConflict
  <2>4. new(j) \in JobRow
    BY <1>4, <2>1 DEF JobRow, Linked
  <2>5. new(j).groups \subseteq Present(group) /\ new(j).devices \subseteq Present(device)
    BY <2>2, <2>3 DEF Linked
  <2>6. job' = [job EXCEPT ![j] = new(j)]
    BY <1>1, <1>6
  <2> DEFINE n == new(j)
  <2> HIDE DEF n
  <2>7. n \in JobRow /\ job' = [job EXCEPT ![j] = n]
    BY <2>4, <2>6 DEF n
  <2>8. n.groups \subseteq Present(group) /\ n.devices \subseteq Present(device)
    BY <2>5 DEF n
  <2>9. TablesOK'
    BY <1>2, <1>3, <2>7 DEF TablesOK, JobCell
  <2>10. \A i \in Present(job') : i # j => i \in Present(job) /\ job'[i] = job[i]
    BY <1>3, <2>7 DEF Present, TablesOK
  <2>11. job'[j] = n
    BY <1>3, <1>4, <2>7 DEF TablesOK
  <2>12. References(device', group', job', cred', platform')
    BY <1>2, <2>8, <2>9, <2>10, <2>11, ReferencesStay
  <2> QED
    BY <1>2, <2>9, <2>12 DEF RowsInv
<1> QED
  BY <1>5, <1>6

LEMMA DeleteDevicesRows ==
  ASSUME RowsInv, NEW ids \in SUBSET Devices, DeleteDevices(ids)
  PROVE  RowsInv'
<1>1. /\ UNCHANGED <<cred, group, platform>>
      /\ device' = [d \in Devices |-> IF d \in ids THEN Gone ELSE device[d]]
      /\ job' = [j \in Jobs |-> IF Exists(job[j]) THEN [job[j] EXCEPT !.devices = @ \ ids] ELSE job[j]]
  BY DEF DeleteDevices, credVars
<1>2. TablesOK /\ UniqueNames(device) /\ References(device, group, job, cred, platform)
  BY DEF RowsInv
<1>3. ASSUME NEW j \in Jobs, Exists(job[j])
      PROVE  /\ job'[j] \in JobRow
             /\ job'[j].groups = job[j].groups /\ job'[j].devices = job[j].devices \ ids
  <2>1. job[j] \in JobRow
    BY <1>2, <1>3, ExistsIs DEF TablesOK
  <2>2. job'[j] = [job[j] EXCEPT !.devices = @ \ ids]
    BY <1>1, <1>3
  <2> QED
    BY <2>1, <2>2 DEF JobRow
<1>4. \A j \in Jobs : job'[j] \in JobCell /\ (Exists(job'[j]) => Exists(job[j]))
  BY <1>1, <1>2, <1>3 DEF TablesOK, JobCell
<1>5. TablesOK'
  BY <1>1, <1>2, <1>4 DEF TablesOK, DeviceCell
<1>6. \A d \in Devices : Exists(device'[d]) => Exists(device[d]) /\ device'[d] = device[d]
  BY <1>1, ExistsIs
<1>7. UniqueNames(device')
  BY <1>2, <1>5, <1>6, NamesStayUnique DEF TablesOK
<1>8. \A d : d \in Present(device') <=> d \in Present(device) \ ids
  BY <1>1, <1>2, ExistsIs DEF Present, TablesOK
<1>9. \A d \in Present(device') : d \in Present(device) /\ device'[d] = device[d]
  BY <1>1, <1>8, <1>2 DEF Present, TablesOK
<1>10. \A j \in Present(job') : j \in Jobs /\ j \in Present(job)
  BY <1>2, <1>4, <1>5 DEF Present, TablesOK
<1>11. ASSUME NEW j \in Present(job')
       PROVE  job'[j].groups \subseteq Present(group') /\ job'[j].devices \subseteq Present(device')
  <2>1. job[j].groups \subseteq Present(group) /\ job[j].devices \subseteq Present(device)
    BY <1>2, <1>10 DEF References
  <2>2. job'[j].groups = job[j].groups /\ job'[j].devices = job[j].devices \ ids
    BY <1>3, <1>10 DEF Present
  <2> QED
    BY <1>1, <1>8, <2>1, <2>2
<1>12. References(device', group', job', cred', platform')
  BY <1>1, <1>2, <1>9, <1>11 DEF References
<1> QED
  BY <1>5, <1>7, <1>12 DEF RowsInv

LEMMA DeleteGroupsRows ==
  ASSUME RowsInv, NEW ids \in SUBSET Groups, DeleteGroups(ids)
  PROVE  RowsInv'
<1>1. /\ UNCHANGED <<cred, platform>>
      /\ group' = [g \in Groups |-> IF g \in ids THEN Gone ELSE group[g]]
      /\ device' = [d \in Devices |-> IF Exists(device[d])
                                        THEN [device[d] EXCEPT !.groups = @ \ ids] ELSE device[d]]
      /\ job' = [j \in Jobs |-> IF Exists(job[j]) THEN [job[j] EXCEPT !.groups = @ \ ids] ELSE job[j]]
  BY DEF DeleteGroups, credVars
<1>2. TablesOK /\ UniqueNames(device) /\ References(device, group, job, cred, platform)
  BY DEF RowsInv
<1>3. ASSUME NEW j \in Jobs, Exists(job[j])
      PROVE  /\ job'[j] \in JobRow
             /\ job'[j].groups = job[j].groups \ ids /\ job'[j].devices = job[j].devices
  <2>1. job[j] \in JobRow
    BY <1>2, <1>3, ExistsIs DEF TablesOK
  <2>2. job'[j] = [job[j] EXCEPT !.groups = @ \ ids]
    BY <1>1, <1>3
  <2> QED
    BY <2>1, <2>2 DEF JobRow
<1>4. ASSUME NEW d \in Devices, Exists(device[d])
      PROVE  /\ device'[d] \in DeviceRow /\ device'[d].groups = device[d].groups \ ids
             /\ device'[d].cred = device[d].cred /\ device'[d].custom = device[d].custom
             /\ device'[d].name = device[d].name
  <2>1. device[d] \in DeviceRow
    BY <1>2, <1>4, ExistsIs DEF TablesOK
  <2>2. device'[d] = [device[d] EXCEPT !.groups = @ \ ids]
    BY <1>1, <1>4
  <2> QED
    BY <2>1, <2>2 DEF DeviceRow
<1>5. /\ \A j \in Jobs : job'[j] \in JobCell /\ (~Exists(job[j]) => job'[j] = job[j])
      /\ \A d \in Devices : device'[d] \in DeviceCell /\ (~Exists(device[d]) => device'[d] = device[d])
  BY <1>1, <1>2, <1>3, <1>4 DEF TablesOK, JobCell, DeviceCell
<1>6. TablesOK'
  BY <1>1, <1>2, <1>5 DEF TablesOK, GroupCell
<1>7. UniqueNames(device')
  BY <1>2, <1>4, <1>5, <1>6, NamesStayUnique DEF TablesOK
<1>8. \A g : g \in Present(group') <=> g \in Present(group) \ ids
  BY <1>1, <1>2, ExistsIs DEF Present, TablesOK
<1>9. \A g \in Present(group') : g \in Present(group) /\ group'[g] = group[g]
  BY <1>1, <1>2, <1>8 DEF Present, TablesOK
<1>10. \A j \in Present(job') : j \in Jobs /\ Exists(job[j]) /\ j \in Present(job)
  BY <1>2, <1>5, <1>6 DEF Present, TablesOK
<1>11. \A d : d \in Present(device') <=> d \in Present(device)
  <2>1. \A d \in Devices : Exists(device'[d]) <=> Exists(device[d])
    BY <1>4, <1>5, ExistsIs DEF DeviceCell
  <2> QED
    BY <1>2, <1>6, <2>1 DEF Present, TablesOK
<1>12. ASSUME NEW j \in Present(job')
       PROVE  job'[j].groups \subseteq Present(group') /\ job'[j].devices \subseteq Present(device')
  <2>1. job[j].groups \subseteq Present(group) /\ job[j].devices \subseteq Present(device)
    BY <1>2, <1>10 DEF References
  <2>2. job'[j].groups = job[j].groups \ ids /\ job'[j].devices = job[j].devices
    BY <1>3, <1>10
  <2> QED
    BY <1>8, <1>11, <2>1, <2>2
<1>13. ASSUME NEW d \in Present(device')
       PROVE  /\ device'[d].groups \subseteq Present(group')
              /\ device'[d].cred \in {None} \cup Present(cred')
              /\ device'[d].custom \in {None} \cup Present(platform')
  <2>1. d \in Present(device) /\ d \in Devices /\ Exists(device[d])
    BY <1>2, <1>11 DEF Present, TablesOK
  <2>2. /\ device[d].groups \subseteq Present(group)
        /\ device[d].cred \in {None} \cup Present(cred)
        /\ device[d].custom \in {None} \cup Present(platform)
    BY <1>2, <2>1 DEF References
  <2>3. /\ device'[d].groups = device[d].groups \ ids
        /\ device'[d].cred = device[d].cred /\ device'[d].custom = device[d].custom
    BY <1>4, <2>1
  <2> QED
    BY <1>1, <1>8, <2>2, <2>3
<1>14. \A g \in Present(group') : group'[g].cred \in {None} \cup Present(cred')
  BY <1>1, <1>2, <1>9 DEF References
<1>15. References(device', group', job', cred', platform')
  BY <1>12, <1>13, <1>14 DEF References
<1> QED
  BY <1>6, <1>7, <1>15 DEF RowsInv

LEMMA DeletePlatformRows ==
  ASSUME RowsInv, NEW p \in Platforms, DeletePlatform(p)
  PROVE  RowsInv'
<1>1. /\ UNCHANGED <<cred, group, job>>
      /\ platform' = [platform EXCEPT ![p] = Gone]
      /\ device' = [d \in Devices |-> IF Exists(device[d]) /\ device[d].custom = p
                                        THEN [device[d] EXCEPT !.custom = None] ELSE device[d]]
  BY DEF DeletePlatform, credVars
<1>2. TablesOK /\ UniqueNames(device) /\ References(device, group, job, cred, platform)
  BY DEF RowsInv
<1>3. ASSUME NEW d \in Devices, Exists(device[d])
      PROVE  /\ device'[d] \in DeviceRow /\ device'[d].groups = device[d].groups
             /\ device'[d].cred = device[d].cred /\ device'[d].name = device[d].name
             /\ device'[d].custom \in {None, device[d].custom} /\ (p = None \/ device'[d].custom # p)
  <2>1. device[d] \in DeviceRow
    BY <1>2, <1>3, ExistsIs DEF TablesOK
  <2>2. device'[d] = IF device[d].custom = p THEN [device[d] EXCEPT !.custom = None] ELSE device[d]
    BY <1>1, <1>3
  <2> QED
    BY <2>1, <2>2 DEF DeviceRow
<1>4. \A d \in Devices : device'[d] \in DeviceCell /\ (~Exists(device[d]) => device'[d] = device[d])
  BY <1>1, <1>2, <1>3 DEF TablesOK, DeviceCell
<1>5. TablesOK'
  BY <1>1, <1>2, <1>4 DEF TablesOK
<1>6. UniqueNames(device')
  BY <1>2, <1>3, <1>4, <1>5, NamesStayUnique DEF TablesOK
<1>7. \A d : d \in Present(device') <=> d \in Present(device)
  <2>1. \A d \in Devices : Exists(device'[d]) <=> Exists(device[d])
    BY <1>3, <1>4, ExistsIs DEF DeviceCell
  <2> QED
    BY <1>2, <1>5, <2>1 DEF Present, TablesOK
<1>8. \A q : q \in Present(platform) /\ q # p => q \in Present(platform')
  BY <1>1, <1>2 DEF Present, TablesOK
<1>9. ASSUME NEW d \in Present(device')
      PROVE  /\ device'[d].groups \subseteq Present(group')
             /\ device'[d].cred \in {None} \cup Present(cred')
             /\ device'[d].custom \in {None} \cup Present(platform')
  <2>1. d \in Present(device) /\ d \in Devices /\ Exists(device[d])
    BY <1>2, <1>7 DEF Present, TablesOK
  <2>2. /\ device[d].groups \subseteq Present(group)
        /\ device[d].cred \in {None} \cup Present(cred)
        /\ device[d].custom \in {None} \cup Present(platform)
    BY <1>2, <2>1 DEF References
  <2> QED
    BY <1>1, <1>3, <1>8, <2>1, <2>2
<1>10. Present(device') = Present(device)
  BY <1>7
<1>11. References(device', group', job', cred', platform')
  BY <1>1, <1>2, <1>9, <1>10 DEF References
<1> QED
  BY <1>5, <1>6, <1>11 DEF RowsInv

LEMMA RemoveCredRows ==
  ASSUME RowsInv, CredInv, NEW c \in Creds, RemoveCred(c)
  PROVE  RowsInv'
<1>1. /\ UNCHANGED <<job, platform>> /\ cred' = [cred EXCEPT ![c] = Gone]
      /\ device' = Unassigned(device, c) /\ group' = Unassigned(group, c)
  BY DEF RemoveCred, DeleteCred
<1>2. TablesOK /\ UniqueNames(device) /\ References(device, group, job, cred, platform)
  BY DEF RowsInv
<1>3. ASSUME NEW d \in Devices, Exists(device[d])
      PROVE  /\ device'[d] \in DeviceRow /\ device'[d].groups = device[d].groups
             /\ device'[d].custom = device[d].custom /\ device'[d].name = device[d].name
             /\ device'[d].cred = None \/ (device'[d].cred # c /\ device'[d].cred = device[d].cred)
  <2>1. device[d] \in DeviceRow
    BY <1>2, <1>3, ExistsIs DEF TablesOK
  <2>2. device'[d] = IF device[d].cred = c THEN [device[d] EXCEPT !.cred = None] ELSE device[d]
    BY <1>1, <1>2, <1>3 DEF Unassigned, TablesOK
  <2> QED
    BY <2>1, <2>2 DEF DeviceRow, CredId
<1>4. ASSUME NEW g \in Groups, Exists(group[g])
      PROVE  /\ group'[g] \in GroupRow
             /\ group'[g].cred = None \/ (group'[g].cred # c /\ group'[g].cred = group[g].cred)
  <2>1. group[g] \in GroupRow
    BY <1>2, <1>4, ExistsIs DEF TablesOK
  <2>2. group'[g] = IF group[g].cred = c THEN [group[g] EXCEPT !.cred = None] ELSE group[g]
    BY <1>1, <1>2, <1>4 DEF Unassigned, TablesOK
  <2> QED
    BY <2>1, <2>2 DEF GroupRow, CredId
<1>5. /\ \A d \in Devices : device'[d] \in DeviceCell /\ (~Exists(device[d]) => device'[d] = device[d])
      /\ \A g \in Groups : group'[g] \in GroupCell /\ (~Exists(group[g]) => group'[g] = group[g])
      /\ DOMAIN device' = Devices /\ DOMAIN group' = Groups
  BY <1>1, <1>2, <1>3, <1>4 DEF Unassigned, TablesOK, DeviceCell, GroupCell
<1>6. TablesOK'
  BY <1>1, <1>2, <1>5 DEF Unassigned, TablesOK
<1>7. UniqueNames(device')
  BY <1>2, <1>3, <1>5, <1>6, NamesStayUnique DEF TablesOK
<1>8. /\ \A d \in Devices : Exists(device'[d]) <=> Exists(device[d])
      /\ \A g \in Groups : Exists(group'[g]) <=> Exists(group[g])
  BY <1>3, <1>4, <1>5, ExistsIs DEF DeviceCell, GroupCell
<1>9. Present(device') = Present(device) /\ Present(group') = Present(group)
  BY <1>2, <1>6, <1>8 DEF Present, TablesOK
<1>10. \A e : e \in Present(cred) /\ e # c => e \in Present(cred')
  BY <1>1 DEF Present, CredInv
<1>11. ASSUME NEW d \in Present(device')
       PROVE  /\ device'[d].groups \subseteq Present(group')
              /\ device'[d].cred \in {None} \cup Present(cred')
              /\ device'[d].custom \in {None} \cup Present(platform')
  <2>1. d \in Present(device) /\ d \in Devices /\ Exists(device[d])
    BY <1>2, <1>9 DEF Present, TablesOK
  <2>2. /\ device[d].groups \subseteq Present(group)
        /\ device[d].cred \in {None} \cup Present(cred)
        /\ device[d].custom \in {None} \cup Present(platform)
    BY <1>2, <2>1 DEF References
  <2> QED
    BY <1>1, <1>3, <1>9, <1>10, <2>1, <2>2
<1>12. ASSUME NEW g \in Present(group') PROVE group'[g].cred \in {None} \cup Present(cred')
  <2>1. g \in Present(group) /\ g \in Groups /\ Exists(group[g])
    BY <1>2, <1>9 DEF Present, TablesOK
  <2>2. group[g].cred \in {None} \cup Present(cred)
    BY <1>2, <2>1 DEF References
  <2> QED
    BY <1>4, <1>10, <2>1, <2>2
<1>13. References(device', group', job', cred', platform')
  BY <1>1, <1>2, <1>9, <1>11, <1>12 DEF References
<1> QED
  BY <1>6, <1>7, <1>13 DEF RowsInv

LEMMA SimpleRows ==
  ASSUME RowsInv,
         \/ \E g \in Groups, form \in GroupForms : CreateGroup(g, form)
         \/ \E j \in Jobs, form \in JobForms : CreateJob(j, form)
         \/ \E ids \in SUBSET Jobs : DeleteJobs(ids)
         \/ \E p \in Platforms : CreatePlatform(p)
  PROVE  RowsInv'
<1>1. TablesOK /\ UniqueNames(device)
  BY DEF RowsInv
<1>2. ASSUME NEW g \in Groups, NEW form \in GroupForms, CreateGroup(g, form) PROVE RowsInv'
  <2>1. /\ UNCHANGED <<cred, device, job, platform>> /\ group' = [group EXCEPT ![g] = form]
        /\ form.cred \in {None} \cup Present(cred) /\ form \in GroupRow /\ group[g] = Fresh
    BY <1>2, InventoryAssumption DEF CreateGroup, credVars
  <2>2. TablesOK'
    BY <1>1, <2>1 DEF TablesOK, GroupCell
  <2>3. /\ Present(group) \subseteq Present(group') /\ group'[g] = form
        /\ \A h \in Present(group') : h # g => h \in Present(group) /\ group'[h] = group[h]
    BY <1>1, <2>1, ExistsIs DEF TablesOK, Present, GroupCell
  <2>4. References(device', group', job', cred', platform')
    BY <2>1, <2>2, <2>3, ReferencesStay
  <2> QED
    BY <1>1, <2>1, <2>2, <2>4 DEF RowsInv
<1>3. ASSUME NEW j \in Jobs, NEW form \in JobForms, CreateJob(j, form) PROVE RowsInv'
  <2> DEFINE row == JobRowOf(form)
  <2>1. /\ UNCHANGED <<cred, device, group, platform>> /\ job' = [job EXCEPT ![j] = row]
    BY <1>3 DEF CreateJob, credVars
  <2>2. row \in JobRow /\ row.groups \subseteq Present(group) /\ row.devices \subseteq Present(device)
    BY <1>1, JobRowIs
  <2> HIDE DEF row
  <2>3. TablesOK'
    BY <1>1, <2>1, <2>2 DEF TablesOK, JobCell
  <2>4. /\ job'[j] = row
        /\ \A i \in Present(job') : i # j => i \in Present(job) /\ job'[i] = job[i]
    BY <1>1, <2>1 DEF TablesOK, Present
  <2>5. References(device', group', job', cred', platform')
    BY <2>1, <2>2, <2>3, <2>4, ReferencesStay
  <2> QED
    BY <1>1, <2>1, <2>3, <2>5 DEF RowsInv
<1>4. ASSUME NEW ids \in SUBSET Jobs, DeleteJobs(ids) PROVE RowsInv'
  <2>1. /\ UNCHANGED <<cred, device, group, platform>>
        /\ job' = [j \in Jobs |-> IF j \in ids THEN Gone ELSE job[j]]
    BY <1>4 DEF DeleteJobs, credVars
  <2>2. TablesOK'
    BY <1>1, <2>1 DEF TablesOK, JobCell
  <2>3. \A j \in Present(job') : j \in Present(job) /\ job'[j] = job[j]
    BY <1>1, <2>1, ExistsIs DEF TablesOK, Present
  <2>4. References(device', group', job', cred', platform')
    BY <2>1, <2>2, <2>3, ReferencesStay
  <2> QED
    BY <1>1, <2>1, <2>2, <2>4 DEF RowsInv
<1>5. ASSUME NEW p \in Platforms, CreatePlatform(p) PROVE RowsInv'
  <2>1. /\ UNCHANGED <<cred, device, group, job>>
        /\ platform' = [platform EXCEPT ![p] = "defined"]
    BY <1>5 DEF CreatePlatform, credVars
  <2>2. TablesOK'
    BY <1>1, <2>1 DEF TablesOK
  <2>3. Present(platform) \subseteq Present(platform')
    BY <1>1, <2>1, ExistsIs DEF TablesOK, Present
  <2>4. References(device', group', job', cred', platform')
    BY <2>1, <2>2, <2>3, ReferencesStay
  <2> QED
    BY <1>1, <2>1, <2>2, <2>4 DEF RowsInv
<1> QED
  BY <1>2, <1>3, <1>4, <1>5

LEMMA CredRows ==
  ASSUME RowsInv, CredInv, NEW w \in Slots, EditCred(w) \/ SaveCred(w)
  PROVE  RowsInv'
<1>1. UNCHANGED <<device, group, job, platform>>
  BY DEF EditCred, SaveCred
<1>2. CredStep /\ \A c \in Creds : ~DeleteCred(c)
  <2>1. CredStep
    BY DEF CredStep, EditCred, SaveCred
  <2>2. ASSUME NEW c \in Creds, DeleteCred(c) PROVE FALSE
    <3>1. credreq' = credreq
      BY <2>2 DEF DeleteCred
    <3>2. CASE EditCred(w)
      <4>1. PICK id \in Creds, form \in CredForms : CreateCred(w, id, form) \/ UpdateCred(w, id, form)
        BY <3>2 DEF EditCred
      <4>2. credreq[w].at = "idle" /\ credreq'[w].at # "idle"
        BY <4>1 DEF CreateCred, UpdateCred, CredWrites, CredInv, CredIdle
      <4> QED
        BY <3>1, <4>2
    <3>3. CASE SaveCred(w)
      <4>1. credreq'[w].at # credreq[w].at
        BY <3>3 DEF SaveCred, ClearDefaults, CredRollback, CredCommit, CredInv, NoCredReq
      <4> QED
        BY <3>1, <4>1
    <3> QED
      BY <3>2, <3>3
  <2> QED
    BY <2>1, <2>2
<1>3. Present(cred) \subseteq Present(cred')
  BY <1>2, CredsStay
<1>4. TablesOK'
  BY <1>1 DEF RowsInv, TablesOK
<1>5. References(device', group', job', cred', platform')
  BY <1>1, <1>3, <1>4, ReferencesStay
<1> QED
  BY <1>1, <1>4, <1>5 DEF RowsInv

LEMMA RowsInvStep == RowsInv /\ CredInv /\ ReqInv /\ [Next]_vars => RowsInv'
<1> SUFFICES ASSUME RowsInv, CredInv, ReqInv, [Next]_vars PROVE RowsInv'
  OBVIOUS
<1>1. ASSUME UNCHANGED <<cred, device, group, job, platform>> PROVE RowsInv'
  BY <1>1 DEF RowsInv, TablesOK
<1>2. ASSUME NEW w \in Slots,
             \/ \E form \in DeviceForms : CreateDevice(w, form)
             \/ \E d \in Devices, form \in DeviceForms : UpdateDevice(w, d, form)
             \/ \E ids \in SUBSET Devices, form \in BulkForms : ids # {} /\ BulkEdit(w, ids, form)
             \/ \E file \in ImportFiles : Import(w, file)
             \/ \E g \in Groups, form \in GroupForms : UpdateGroup(w, g, form)
             \/ \E j \in Jobs, form \in JobForms : UpdateJob(w, j, form)
      PROVE  RowsInv'
  <2>1. UNCHANGED tables
    BY <1>2 DEF CreateDevice, UpdateDevice, BulkEdit, Import, UpdateGroup, UpdateJob, Begin
  <2> QED
    BY <1>1, <2>1 DEF tables, credVars
<1>3. ASSUME NEW w \in Slots, DeviceCommit(w) \/ GroupCommit(w) \/ JobCommit(w) PROVE RowsInv'
  BY <1>3, DeviceCommitRows, GroupCommitRows, JobCommitRows
<1>4. ASSUME NEW w \in Slots, RequestFails(w) PROVE RowsInv'
  BY <1>1, <1>4 DEF RequestFails, tables, credVars
<1>5. ASSUME NEW w \in Slots, EditCred(w) \/ SaveCred(w) PROVE RowsInv'
  BY <1>5, CredRows
<1>6. ASSUME NEW ids \in SUBSET Devices, DeleteDevices(ids) PROVE RowsInv'
  BY <1>6, DeleteDevicesRows
<1>7. ASSUME NEW ids \in SUBSET Groups, DeleteGroups(ids) PROVE RowsInv'
  BY <1>7, DeleteGroupsRows
<1>8. ASSUME NEW c \in Creds, RemoveCred(c) PROVE RowsInv'
  BY <1>8, RemoveCredRows
<1>9. ASSUME NEW p \in Platforms, DeletePlatform(p) PROVE RowsInv'
  BY <1>9, DeletePlatformRows
<1>10. ASSUME \/ \E g \in Groups, form \in GroupForms : CreateGroup(g, form)
              \/ \E j \in Jobs, form \in JobForms : CreateJob(j, form)
              \/ \E ids \in SUBSET Jobs : DeleteJobs(ids)
              \/ \E p \in Platforms : CreatePlatform(p)
       PROVE  RowsInv'
  BY <1>10, SimpleRows
<1>11. ASSUME \/ \E j \in Jobs : FireBegin(j)
              \/ FireCollect \/ FireFlush \/ FireDone \/ SessionEnds
              \/ \E d \in Devices : FireSpec(d)
       PROVE  RowsInv'
  <2>1. UNCHANGED tables
    BY <1>11 DEF FireBegin, FireCollect, FireFlush, FireDone, FireSpec, SessionEnds
  <2> QED
    BY <1>1, <2>1 DEF tables, credVars
<1>12. ASSUME UNCHANGED vars PROVE RowsInv'
  BY <1>1, <1>12 DEF vars, tables, credVars
<1> QED
  BY <1>2, <1>3, <1>4, <1>5, <1>6, <1>7, <1>8, <1>9, <1>10, <1>11, <1>12 DEF Next

(* The rows, the requests and the credentials together.                    *)
StoredInv == CredInv /\ RowsInv /\ ReqInv

LEMMA InitStoredInv == Init => StoredInv
<1> SUFFICES ASSUME Init PROVE StoredInv
  OBVIOUS
<1>1. RowsInv
  BY InventoryAssumption, CredentialsAssumption
     DEF Init, CredInit, RowsInv, TablesOK, DeviceCell, GroupCell, JobCell
<1>2. ReqInv
  BY IdleIs DEF Init, ReqInv, IsCurrent, DeviceKinds
<1> QED
  BY <1>1, <1>2, InitCredInv DEF StoredInv

LEMMA StoredInvStep == StoredInv /\ [Next]_vars => StoredInv'
BY StepIsCredStep, CredInvStep, RowsInvStep, ReqInvStep DEF StoredInv, RowsInv

LEMMA StoredInvHolds == Spec => []StoredInv
BY InitStoredInv, StoredInvStep, PTL DEF Spec

(* Whatever requests overlap, names stay unique, one credential at most is *)
(* the default, and nothing refers to a row that was deleted.              *)
THEOREM RowsStayConsistent == Spec => []RowsAreConsistent
<1>1. StoredInv => RowsAreConsistent
  BY OneDefault DEF StoredInv, RowsInv, RowsAreConsistent
<1> QED
  BY <1>1, StoredInvHolds, PTL

-----------------------------------------------------------------------------
(* What one step does to the devices.                                      *)

LEMMA DeviceStep ==
  ASSUME [Next]_vars, device' # device
  PROVE  \/ \E w \in Slots : DeviceCommit(w)
         \/ \E ids \in SUBSET Devices : DeleteDevices(ids)
         \/ \E ids \in SUBSET Groups : DeleteGroups(ids)
         \/ \E p \in Platforms : DeletePlatform(p)
         \/ \E c \in Creds : RemoveCred(c)
<1>1. ASSUME NEW w \in Slots,
             \/ \E form \in DeviceForms : CreateDevice(w, form)
             \/ \E d \in Devices, form \in DeviceForms : UpdateDevice(w, d, form)
             \/ \E ids \in SUBSET Devices, form \in BulkForms : ids # {} /\ BulkEdit(w, ids, form)
             \/ \E file \in ImportFiles : Import(w, file)
             \/ \E g \in Groups, form \in GroupForms : UpdateGroup(w, g, form)
             \/ \E j \in Jobs, form \in JobForms : UpdateJob(w, j, form)
      PROVE  FALSE
  BY <1>1 DEF CreateDevice, UpdateDevice, BulkEdit, Import, UpdateGroup, UpdateJob, Begin, tables
<1>2. ASSUME NEW w \in Slots,
             GroupCommit(w) \/ JobCommit(w) \/ RequestFails(w) \/ EditCred(w) \/ SaveCred(w)
      PROVE  FALSE
  BY <1>2 DEF GroupCommit, JobCommit, RequestFails, EditCred, SaveCred, tables
<1>3. ASSUME \/ \E g \in Groups, form \in GroupForms : CreateGroup(g, form)
             \/ \E j \in Jobs, form \in JobForms : CreateJob(j, form)
             \/ \E ids \in SUBSET Jobs : DeleteJobs(ids)
             \/ \E p \in Platforms : CreatePlatform(p)
      PROVE  FALSE
  BY <1>3 DEF CreateGroup, CreateJob, DeleteJobs, CreatePlatform
<1>4. ASSUME \/ \E j \in Jobs : FireBegin(j)
             \/ FireCollect \/ FireFlush \/ FireDone \/ SessionEnds
             \/ \E d \in Devices : FireSpec(d)
      PROVE  FALSE
  BY <1>4 DEF FireBegin, FireCollect, FireFlush, FireDone, FireSpec, SessionEnds, tables
<1>5. ~UNCHANGED vars
  BY DEF vars, tables
<1> QED
  BY <1>1, <1>2, <1>3, <1>4, <1>5 DEF Next

(* The request of a slot ends with a change of devices only by its own     *)
(* commit.                                                                 *)
LEMMA OwnCommit ==
  ASSUME StoredInv, [Next]_vars, device' # device, NEW w \in Slots,
         req[w].kind \in DeviceKinds, req'[w].kind = "idle"
  PROVE  DeviceCommit(w)
<1>1. req \in [Slots -> Req] /\ req[w].kind # "idle"
  BY DEF StoredInv, ReqInv, DeviceKinds
<1>2. ASSUME CommittedElsewhere PROVE FALSE
  BY <1>1, <1>2, DisturbIs DEF CommittedElsewhere, SameReq
<1>3. ASSUME NEW v \in Slots, v # w, DeviceCommit(v) PROVE FALSE
  <2> DEFINE reqs == [req EXCEPT ![v] = Idle]
  <2>1. reqs \in [Slots -> Req] /\ reqs[w] = req[w]
    BY <1>1, <1>3, IdleIs
  <2>2. Disturb(reqs)
    BY <1>3 DEF DeviceCommit, Committed
  <2> HIDE DEF reqs
  <2> QED
    BY <1>1, <2>1, <2>2, DisturbIs DEF SameReq
<1> QED
  BY <1>2, <1>3, DeviceStep DEF DeleteDevices, DeleteGroups, DeletePlatform, RemoveCred

(* What the commit of slot w works with.                                   *)
LEMMA CommitFacts ==
  ASSUME StoredInv, NEW w \in Slots, DeviceCommit(w)
  PROVE  /\ req[w] \in Req /\ ReqOK(req[w]) /\ req[w].kind \in DeviceKinds
         /\ DOMAIN req[w].seen = DOMAIN req[w].want
         /\ TablesOK
         /\ \A d \in DOMAIN req[w].want :
              d \in Devices /\ (Exists(device[d]) => device'[d] = MergedDevice(req[w], d))
         /\ \A d \in Devices :
              \/ d \in DOMAIN req[w].want /\ Exists(device[d])
              \/ device[d] = Fresh /\ \E row \in req[w].inserts : device'[d] = row
              \/ device'[d] = device[d]
         /\ \A row \in req[w].inserts : \E d \in Devices : device'[d] = row
         /\ req[w].inserts \subseteq DeviceRow
<1> DEFINE r == req[w]
<1>1. /\ r \in Req /\ ReqOK(r) /\ r.kind \in DeviceKinds /\ TablesOK
      /\ DOMAIN r.seen = DOMAIN r.want
  BY DEF StoredInv, ReqInv, ReqOK, RowsInv, DeviceCommit, DeviceKinds
<1>2. PICK idOf \in NewIds(r) : device' = DevicesAfter(r, idOf)
  BY DEF DeviceCommit
<1> HIDE DEF r
<1>3. /\ \A d \in DOMAIN r.want :
              d \in Devices /\ (Exists(device[d]) => device'[d] = MergedDevice(r, d))
      /\ \A d \in Devices :
              \/ d \in DOMAIN r.want /\ Exists(device[d])
              \/ device[d] = Fresh /\ \E row \in r.inserts : device'[d] = row
              \/ device'[d] = device[d]
      /\ \A row \in r.inserts : \E d \in Devices : device'[d] = row
  BY <1>1, <1>2, CommitIs
<1>4. r.inserts \subseteq DeviceRow
  BY <1>1, ReqIs
<1> QED
  BY <1>1, <1>3, <1>4 DEF r

(* An import adds to the devices of its file and takes nothing away, even  *)
(* from rows that were edited after it read them.                          *)
LEMMA ImportAddsToRow ==
  ASSUME StoredInv, NEW w \in Slots, DeviceCommit(w), req[w].kind = "import",
         NEW d \in Present(device), device'[d] # device[d]
  PROVE  LET old == device[d]
             new == device'[d]
         IN /\ d \in DOMAIN req[w].seen
            /\ \E i \in DOMAIN req[w].what :
                 /\ req[w].what[i].name = req[w].seen[d].name
                 /\ OnlyAdds(old, new, req[w].what[i])
<1> DEFINE r == req[w]
           old == device[d]
           new == device'[d]
<1>1. /\ r \in Req /\ r.kind \in DeviceKinds /\ DOMAIN r.seen = DOMAIN r.want /\ ImportReq(r)
      /\ d \in Devices /\ old \in DeviceRow /\ old # Fresh
  BY CommitFacts, PresentIs, ExistsIs DEF TablesOK, ReqOK
<1>2. d \in DOMAIN r.want /\ new = MergedDevice(r, d)
  BY <1>1, CommitFacts, ExistsIs DEF DeviceCell
<1> HIDE DEF r
<1>3. PICK i \in DOMAIN r.what : /\ r.what[i].name = r.seen[d].name
                                /\ r.want[d] = ImportedRow(r.seen[d], r.what[i])
  BY <1>1, <1>2 DEF ImportReq
<1> DEFINE line == r.what[i]
           seen == r.seen[d]
           want == r.want[d]
<1>4. line \in ImportLine
  BY <1>1 DEF ImportReq
<1>5. seen \in DeviceRow /\ want \in DeviceRow
  BY <1>1, <1>2, MergedDeviceIs
<1>6. /\ want.name = seen.name /\ want.custom = seen.custom
      /\ want.pool = Given(line.pool, seen.pool)
      /\ want.builtin = Given(line.platform, seen.builtin)
      /\ want.cred = Given(line.cred, seen.cred)
      /\ want.enabled = Kept(line.enabled, seen.enabled)
      /\ want.groups = seen.groups \cup line.groups
  BY <1>3, <1>4, <1>5, ImportedRowIs
<1>7. /\ new.name = IF want.name # seen.name THEN want.name ELSE old.name
      /\ new.pool = IF want.pool # seen.pool THEN want.pool ELSE old.pool
      /\ new.builtin = IF want.builtin # seen.builtin THEN want.builtin ELSE old.builtin
      /\ new.custom = IF want.custom # seen.custom THEN want.custom ELSE old.custom
      /\ new.cred = IF want.cred # seen.cred THEN want.cred ELSE old.cred
      /\ new.enabled = IF want.enabled # seen.enabled THEN want.enabled ELSE old.enabled
      /\ new.groups = Linked(seen.groups, want.groups, old.groups)
  BY <1>1, <1>2, MergedDeviceIs
<1> HIDE DEF line, seen, want, old, new
<1>8. old.groups \subseteq new.groups /\ new.groups \subseteq old.groups \cup line.groups
  BY <1>6, <1>7 DEF Linked
<1>9. /\ new.pool \in {old.pool, Given(line.pool, old.pool)}
      /\ new.builtin \in {old.builtin, Given(line.platform, old.builtin)}
      /\ new.cred \in {old.cred, Given(line.cred, old.cred)}
  BY <1>6, <1>7 DEF Given
<1>10. new.enabled \in {old.enabled, Kept(line.enabled, old.enabled)}
  BY <1>6, <1>7 DEF Kept
<1>11. OnlyAdds(old, new, line)
  BY <1>6, <1>7, <1>8, <1>9, <1>10 DEF OnlyAdds
<1> QED
  BY <1>1, <1>2, <1>3, <1>11 DEF r, line, old, new

(* The import: "only non-blank cells overwrite existing values".           *)
THEOREM ImportOnlyAdds == Spec => ImportTakesNothingAway
<1> DEFINE Adds ==
      \A w \in Slots : Commits(w, "import") =>
        \A d \in Present(device) :
          \/ device'[d] = device[d]
          \/ /\ d \in DOMAIN req[w].seen
             /\ \E i \in DOMAIN req[w].what :
                  /\ req[w].what[i].name = req[w].seen[d].name
                  /\ OnlyAdds(device[d], device'[d], req[w].what[i])
<1>1. StoredInv /\ [Next]_vars => Adds
  <2> SUFFICES ASSUME StoredInv, [Next]_vars, NEW w \in Slots, Commits(w, "import"),
                      NEW d \in Present(device), device'[d] # device[d]
               PROVE  /\ d \in DOMAIN req[w].seen
                      /\ \E i \in DOMAIN req[w].what :
                           /\ req[w].what[i].name = req[w].seen[d].name
                           /\ OnlyAdds(device[d], device'[d], req[w].what[i])
    OBVIOUS
  <2>1. DeviceCommit(w) /\ req[w].kind = "import"
    BY OwnCommit DEF Commits, DeviceKinds
  <2> QED
    BY <2>1, ImportAddsToRow
<1> HIDE DEF Adds
<1>2. StoredInv /\ [Next]_vars => [Adds]_vars
  BY <1>1
<1> QED
  BY <1>2, StoredInvHolds, PTL DEF Spec, ImportTakesNothingAway, Adds

LEMMA QuietImportIsWhole ==
  ASSUME StoredInv, NEW w \in Slots, DeviceCommit(w), req[w].kind = "import", req[w].quiet,
         NEW i \in DOMAIN req[w].what
  PROVE  LET line == req[w].what[i] IN
         \E d \in Devices :
           /\ Exists(device'[d])
           /\ device'[d].name = line.name /\ line.groups \subseteq device'[d].groups
           /\ device'[d].pool = line.pool \/ line.pool = None
           /\ device'[d].cred = line.cred \/ line.cred = None
<1> DEFINE r == req[w]
           line == r.what[i]
           Stored(row) == /\ row.name = line.name /\ line.groups \subseteq row.groups
                          /\ row.pool = line.pool \/ line.pool = None
                          /\ row.cred = line.cred \/ line.cred = None
<1>1. /\ r \in Req /\ r.kind \in DeviceKinds /\ DOMAIN r.seen = DOMAIN r.want /\ ImportReq(r)
      /\ IsCurrent(r) /\ line \in ImportLine
  BY CommitFacts DEF ReqOK, StoredInv, ReqInv, ImportReq
<1>2. /\ NewRow(line) \in r.inserts
         \/ \E d \in DOMAIN r.want : r.seen[d].name = line.name /\ r.want[d] = ImportedRow(r.seen[d], line)
      /\ \A row \in r.inserts : row \in DeviceRow /\ \E d \in Devices : device'[d] = row
      /\ \A d \in DOMAIN r.want : d \in Devices /\ (Exists(device[d]) => device'[d] = MergedDevice(r, d))
  BY <1>1, CommitFacts DEF ImportReq
<1> HIDE DEF r, line
<1>3. ASSUME NewRow(line) \in r.inserts
      PROVE  \E d \in Devices : Exists(device'[d]) /\ Stored(device'[d])
  <2>1. PICK d \in Devices : device'[d] = NewRow(line)
    BY <1>2, <1>3
  <2>2. Exists(device'[d])
    BY <1>2, <1>3, <2>1, ExistsIs DEF DeviceCell
  <2> QED
    BY <2>1, <2>2 DEF NewRow
<1>4. ASSUME NEW d \in DOMAIN r.want,
             r.seen[d].name = line.name, r.want[d] = ImportedRow(r.seen[d], line)
      PROVE  d \in Devices /\ Exists(device'[d]) /\ Stored(device'[d])
  <2> DEFINE seen == r.seen[d]
             want == r.want[d]
             new  == device'[d]
  <2>1. device[d] = seen /\ seen \in DeviceRow
    BY <1>1, ReqIs, PartialIs DEF IsCurrent
  <2>2. d \in Devices /\ new = MergedDevice(r, d)
    BY <1>2, <2>1, ExistsIs DEF DeviceCell
  <2>3. /\ want.name = seen.name /\ want.pool = Given(line.pool, seen.pool)
        /\ want.cred = Given(line.cred, seen.cred) /\ want.groups = seen.groups \cup line.groups
    BY <1>1, <1>4, <2>1, ImportedRowIs
  <2>4. /\ new \in DeviceRow
        /\ new.name = IF want.name # seen.name THEN want.name ELSE seen.name
        /\ new.pool = IF want.pool # seen.pool THEN want.pool ELSE seen.pool
        /\ new.cred = IF want.cred # seen.cred THEN want.cred ELSE seen.cred
        /\ new.groups = Linked(seen.groups, want.groups, seen.groups)
    BY <1>1, <2>1, <2>2, MergedDeviceIs
  <2>5. seen.name = line.name
    BY <1>4
  <2> HIDE DEF seen, want, new
  <2>6. Stored(new)
    BY <2>3, <2>4, <2>5 DEF Linked, Given
  <2>7. Exists(new)
    BY <2>4, ExistsIs DEF DeviceCell
  <2> QED
    BY <2>2, <2>6, <2>7 DEF new
<1>5. \E d \in Devices : Exists(device'[d]) /\ Stored(device'[d])
  BY <1>2, <1>3, <1>4
<1> QED
  BY <1>5 DEF line, r

(* An import that nobody disturbed stores every line of its file.          *)
THEOREM ImportsAreWhole == Spec => ImportIsWhole
<1> DEFINE Whole ==
      \A w \in Slots : Commits(w, "import") /\ req[w].quiet =>
        \A i \in DOMAIN req[w].what :
          LET line == req[w].what[i] IN
          \E d \in Devices :
            /\ Exists(device'[d])
            /\ device'[d].name = line.name /\ line.groups \subseteq device'[d].groups
            /\ device'[d].pool = line.pool \/ line.pool = None
            /\ device'[d].cred = line.cred \/ line.cred = None
<1>1. StoredInv /\ [Next]_vars => Whole
  <2> SUFFICES ASSUME StoredInv, [Next]_vars, NEW w \in Slots, Commits(w, "import"), req[w].quiet,
                      NEW i \in DOMAIN req[w].what
               PROVE  LET line == req[w].what[i] IN
                      \E d \in Devices :
                        /\ Exists(device'[d])
                        /\ device'[d].name = line.name /\ line.groups \subseteq device'[d].groups
                        /\ device'[d].pool = line.pool \/ line.pool = None
                        /\ device'[d].cred = line.cred \/ line.cred = None
    OBVIOUS
  <2>1. DeviceCommit(w) /\ req[w].kind = "import"
    BY OwnCommit DEF Commits, DeviceKinds
  <2> QED
    BY <2>1, QuietImportIsWhole
<1> HIDE DEF Whole
<1>2. StoredInv /\ [Next]_vars => [Whole]_vars
  BY <1>1
<1> QED
  BY <1>2, StoredInvHolds, PTL DEF Spec, ImportIsWhole, Whole

(* A device comes to be on two platforms at once only by an import, or by  *)
(* two saves of which the second had read the row before the first.        *)
LEMMA OnlyCommitsMix ==
  ASSUME StoredInv, [Next]_vars, NEW d \in Devices, Mixed(device'[d]), ~Mixed(device[d])
  PROVE  \E w \in Slots :
           /\ DeviceCommit(w)
           /\ req[w].kind = "import" \/ ~req[w].quiet
<1>1. device' # device /\ TablesOK /\ device[d] \in DeviceCell
  BY DEF StoredInv, RowsInv, TablesOK
<1>2. Exists(device'[d]) /\ device'[d].builtin # None /\ device'[d].custom # None
  BY DEF Mixed
<1>3. ASSUME \/ \E ids \in SUBSET Devices : DeleteDevices(ids)
             \/ \E ids \in SUBSET Groups : DeleteGroups(ids)
             \/ \E p \in Platforms : DeletePlatform(p)
             \/ \E c \in Creds : RemoveCred(c)
      PROVE  FALSE
  <2>1. \/ device'[d] = Gone \/ device'[d] = device[d]
        \/ /\ Exists(device[d])
           /\ \E ids \in SUBSET Groups : device'[d] = [device[d] EXCEPT !.groups = @ \ ids]
        \/ Exists(device[d]) /\ device'[d] = [device[d] EXCEPT !.custom = None]
        \/ Exists(device[d]) /\ device'[d] = [device[d] EXCEPT !.cred = None]
    BY <1>1, <1>3 DEF DeleteDevices, DeleteGroups, DeletePlatform, RemoveCred, Unassigned, TablesOK
  <2>2. device'[d] # Gone /\ device'[d] # device[d]
    BY <1>2, ExistsIs
  <2>3. device[d] \in DeviceRow
    BY <1>1, <2>1, <2>2, ExistsIs
  <2>4. device[d].builtin = None \/ device[d].custom = None
    BY <2>3, MixedIs
  <2>5. /\ \A ids : LET new == [device[d] EXCEPT !.groups = @ \ ids]
                    IN new.builtin = device[d].builtin /\ new.custom = device[d].custom
        /\ [device[d] EXCEPT !.custom = None].custom = None
        /\ LET new == [device[d] EXCEPT !.cred = None]
           IN new.builtin = device[d].builtin /\ new.custom = device[d].custom
    BY <2>3 DEF DeviceRow
  <2> QED
    BY <1>2, <2>1, <2>2, <2>4, <2>5
<1>4. PICK w \in Slots : DeviceCommit(w)
  BY <1>1, <1>3, DeviceStep
<1>5. ASSUME req[w].kind # "import", req[w].quiet PROVE FALSE
  <2> DEFINE r == req[w]
  <2>1. /\ r \in Req /\ r.kind \in DeviceKinds /\ DOMAIN r.seen = DOMAIN r.want /\ PlainReq(r)
        /\ IsCurrent(r)
    BY <1>4, <1>5, CommitFacts DEF StoredInv, ReqInv, ReqOK
  <2>2. \/ d \in DOMAIN r.want /\ Exists(device[d]) /\ device'[d] = MergedDevice(r, d)
        \/ \E row \in r.inserts : device'[d] = row
        \/ device'[d] = device[d]
    BY <1>4, CommitFacts
  <2> HIDE DEF r
  <2>3. ASSUME d \in DOMAIN r.want, Exists(device[d]), device'[d] = MergedDevice(r, d) PROVE FALSE
    <3> DEFINE seen == r.seen[d]
               want == r.want[d]
               new  == device'[d]
    <3>1. device[d] = seen /\ seen \in DeviceRow /\ want \in DeviceRow
      BY <2>1, <2>3, ReqIs, PartialIs DEF IsCurrent
    <3>2. /\ new.builtin = IF want.builtin # seen.builtin THEN want.builtin ELSE seen.builtin
          /\ new.custom = IF want.custom # seen.custom THEN want.custom ELSE seen.custom
      BY <2>1, <2>3, <3>1, MergedDeviceIs
    <3>3. Mixed(want) => want.builtin = seen.builtin /\ want.custom = seen.custom
      BY <2>1, <2>3 DEF PlainReq
    <3>4. seen.builtin = None \/ seen.custom = None
      BY <3>1, MixedIs
    <3>5. new.builtin # None /\ new.custom # None
      BY <1>2
    <3>6. want.builtin = new.builtin /\ want.custom = new.custom
      BY <3>2
    <3>7. Mixed(want)
      BY <3>1, <3>5, <3>6, MixedIs
    <3> QED
      BY <3>3, <3>4, <3>5, <3>6, <3>7
  <2>4. ASSUME NEW row \in r.inserts, device'[d] = row PROVE FALSE
    BY <2>1, <2>4 DEF PlainReq
  <2> QED
    BY <2>2, <2>3, <2>4
<1> QED
  BY <1>4, <1>5

THEOREM PlatformsMixInTwoWays == Spec => PlatformsMixOnlyByImportOrOverlap
<1> DEFINE Ways ==
      \A d \in Devices : Mixed(device'[d]) /\ ~Mixed(device[d]) =>
        \E w \in Slots :
          Commits(w, "import")
          \/ (req[w].kind \in DeviceKinds /\ req'[w].kind = "idle" /\ ~req[w].quiet)
<1>1. StoredInv /\ [Next]_vars => Ways
  <2> SUFFICES ASSUME StoredInv, [Next]_vars,
                      NEW d \in Devices, Mixed(device'[d]), ~Mixed(device[d])
               PROVE  \E w \in Slots :
                        Commits(w, "import")
                        \/ (req[w].kind \in DeviceKinds /\ req'[w].kind = "idle" /\ ~req[w].quiet)
    OBVIOUS
  <2>1. device' # device
    OBVIOUS
  <2>2. PICK w \in Slots : DeviceCommit(w) /\ (req[w].kind = "import" \/ ~req[w].quiet)
    BY OnlyCommitsMix
  <2> DEFINE reqs == [req EXCEPT ![w] = Idle]
  <2>3. reqs \in [Slots -> Req] /\ reqs[w].kind = "idle"
    BY IdleIs DEF StoredInv, ReqInv
  <2>4. Disturb(reqs)
    BY <2>2 DEF DeviceCommit, Committed
  <2> HIDE DEF reqs
  <2>5. req'[w].kind = "idle"
    BY <2>3, <2>4, DisturbIs DEF SameReq
  <2> QED
    BY <2>1, <2>2, <2>5 DEF Commits, DeviceCommit
<1> HIDE DEF Ways
<1>2. StoredInv /\ [Next]_vars => [Ways]_vars
  BY <1>1
<1> QED
  BY <1>2, StoredInvHolds, PTL DEF Spec, PlatformsMixOnlyByImportOrOverlap, Ways

-----------------------------------------------------------------------------
(* The dispatch: what its session holds, and what it publishes.            *)

Vias    == Partial(Devices, {None} \cup Groups)
Defined == {None} \cup CredRow
Object  == [cred : CredId, pool : Pool, devices : SUBSET Devices]
Ids     == Devices \cup Groups \cup Jobs \cup Creds

Fire ==
  [at : {"idle", "returned"}]
  \cup [at : {"started"}, job : Jobs, default : CredId, row : Defined]
  \cup [at : {"collected"}, job : Jobs, default : CredId, row : Defined, via : Vias]
  \cup [at : {"sending"}, job : Jobs, default : CredId, row : Defined, via : Vias,
        left : SUBSET Devices]

Session ==
  [creds : Partial(Creds, CredRow), devices : Partial(Devices, DeviceRow),
   groups : Partial(Groups, Object), jobs : Partial(Jobs, JobRow),
   platforms : SUBSET Platforms, runs : SUBSET Devices, touched : SUBSET Ids]

(* What a job targets, and the devices of a group, are loaded with it.     *)
Closed(s) ==
  /\ \A j \in DOMAIN s.jobs : /\ s.jobs[j].groups \subseteq DOMAIN s.groups
                              /\ s.jobs[j].devices \subseteq DOMAIN s.devices
  /\ \A g \in DOMAIN s.groups : s.groups[g].devices \subseteq DOMAIN s.devices

SessionOK ==
  /\ fire \in Fire /\ session \in Session /\ Closed(session)
  /\ fire.at = "idle" => session = NoSession

(* What the session holds is what is stored, except what others touched.   *)
HeldIsStored ==
  /\ \A c \in DOMAIN session.creds \ session.touched : session.creds[c] = cred[c]
  /\ \A d \in DOMAIN session.devices \ session.touched : session.devices[d] = device[d]
  /\ \A j \in DOMAIN session.jobs \ session.touched : session.jobs[j] = job[j]
  /\ \A g \in DOMAIN session.groups \ session.touched :
       /\ Exists(group[g]) /\ session.groups[g].cred = group[g].cred
       /\ session.groups[g].pool = group[g].pool
  /\ \A g \in DOMAIN session.groups, d \in Devices \ session.touched :
       d \in session.groups[g].devices <=> Exists(device[d]) /\ g \in device[d].groups

(* So is the default credential that the call has read.                    *)
Calling == fire.at \in {"started", "collected", "sending"}

CallIsStored ==
  /\ fire.job \notin session.touched => Exists(job[fire.job])
  /\ fire.default # None => fire.default \in Creds /\ fire.row \in CredRow
  /\ fire.default \in Creds \ session.touched =>
       fire.row = cred[fire.default] /\ cred[fire.default].default
  /\ \A c \in Defaults \ session.touched : fire.default = c

(* The groups of the job that have a device, and what follows from them.   *)
Having(d, S, groups) == {g \in S : d \in groups[g].devices}

ViaGroups(d) == Having(d, session.jobs[fire.job].groups, session.groups)

TargetsAreHeld ==
  /\ fire.job \in DOMAIN session.jobs
  /\ DOMAIN fire.via =
       {d \in DOMAIN session.devices :
          session.devices[d].enabled /\ (ViaGroups(d) # {} \/ d \in session.jobs[fire.job].devices)}
  /\ \A d \in DOMAIN fire.via :
       IF ViaGroups(d) = {} THEN fire.via[d] = None ELSE fire.via[d] \in ViaGroups(d)

(* A published job is for a target, and what the session holds decides its *)
(* credential and its pool; a target whose turn is over has a job, unless  *)
(* no credential was found for it.                                         *)
PoolOf(d) ==
  Given(session.devices[d].pool,
        IF fire.via[d] = None THEN None ELSE session.groups[fire.via[d]].pool)

Follows(s) ==
  /\ s.device \in DOMAIN fire.via /\ s.pool = PoolOf(s.device)
  /\ s.cred \notin session.touched => s.material = cred[s.cred]
  /\ IF Own(s.device) # None THEN s.device \notin session.touched => s.cred = Own(s.device)
     ELSE IF Shared(s.device) # None
       THEN fire.via[s.device] \notin session.touched => s.cred = Shared(s.device)
     ELSE s.cred = fire.default

Unserved(d) ==
  /\ Own(d) # None => d \in session.touched
  /\ Shared(d) # None => fire.via[d] \in session.touched
  /\ fire.default = None

SpecsOK == \A s \in specs : s.cred \in Creds /\ s.material \in CredRow

SpecsFollow ==
  /\ fire.left \subseteq DOMAIN fire.via
  /\ \A s \in specs : Follows(s)
  /\ \A d \in DOMAIN fire.via \ fire.left : Unserved(d) \/ \E s \in specs : s.device = d

FireInv ==
  /\ SessionOK /\ HeldIsStored /\ SpecsOK
  /\ Calling => CallIsStored
  /\ fire.at \in {"started", "collected"} => specs = {}
  /\ fire.at \in {"collected", "sending"} => TargetsAreHeld
  /\ fire.at = "sending" => SpecsFollow

LEMMA FireIs ==
  ASSUME fire \in Fire
  PROVE  /\ fire.at \in {"idle", "returned", "started", "collected", "sending"}
         /\ Calling => fire.job \in Jobs /\ fire.default \in CredId /\ fire.row \in Defined
         /\ fire.at \in {"collected", "sending"} => fire.via \in Vias
         /\ fire.at = "sending" => fire.left \subseteq Devices
BY DEF Fire, Calling

LEMMA SessionIs ==
  ASSUME session \in Session
  PROVE  /\ session.creds \in [DOMAIN session.creds -> CredRow] /\ DOMAIN session.creds \subseteq Creds
         /\ session.devices \in [DOMAIN session.devices -> DeviceRow]
         /\ DOMAIN session.devices \subseteq Devices
         /\ session.groups \in [DOMAIN session.groups -> Object]
         /\ DOMAIN session.groups \subseteq Groups
         /\ session.jobs \in [DOMAIN session.jobs -> JobRow] /\ DOMAIN session.jobs \subseteq Jobs
         /\ session.platforms \subseteq Platforms /\ session.runs \subseteq Devices
         /\ session.touched \subseteq Ids
BY PartialIs DEF Session

(* The session of this step holds what it held; others may have touched    *)
(* more, and what they did not touch is as it was.                         *)
SameObjects ==
  /\ session'.creds = session.creds /\ session'.devices = session.devices
  /\ session'.groups = session.groups /\ session'.jobs = session.jobs

TouchedOnly ==
  /\ session.touched \subseteq session'.touched
  /\ \A c \in Creds \ session'.touched : cred'[c] = cred[c]
  /\ \A d \in Devices \ session'.touched : device'[d] = device[d]
  /\ \A g \in Groups \ session'.touched : group'[g] = group[g]
  /\ \A j \in Jobs \ session'.touched : job'[j] = job[j]
  /\ cred \in [Creds -> CredCell] /\ cred' \in [Creds -> CredCell]

(* What a step of another part does to the dispatch.                       *)
FireApart ==
  /\ specs' = specs /\ fire' = fire /\ session' \in Session /\ SameObjects
  /\ IF fire.at = "idle" THEN session' = session ELSE TouchedOnly

FireActs ==
  \/ \E j \in Jobs : FireBegin(j)
  \/ FireCollect \/ FireFlush \/ FireDone \/ SessionEnds
  \/ \E d \in Devices : FireSpec(d)

LEMMA Untouched ==
  ASSUME session' = session, UNCHANGED <<cred, device, group, job>>, cred \in [Creds -> CredCell]
  PROVE  SameObjects /\ TouchedOnly
BY DEF SameObjects, TouchedOnly

LEMMA Disturbed ==
  ASSUME session \in Session, NEW reqs, Disturb(reqs), specs' = specs,
         cred \in [Creds -> CredCell], cred' \in [Creds -> CredCell]
  PROVE  FireApart
<1>1. fire' = fire /\ (fire.at = "idle" => session' = session)
  BY DEF Disturb
<1>2. CASE fire.at = "idle"
  BY <1>1, <1>2 DEF FireApart, SameObjects
<1>3. CASE fire.at # "idle"
  <2>1. session' = [session EXCEPT !.touched = @ \cup Changed]
    BY <1>3 DEF Disturb
  <2>2. Changed \subseteq Ids
    BY DEF Changed, Ids
  <2>3. session.touched \cup Changed \subseteq Ids
    BY <2>2, SessionIs
  <2>4. session' \in Session /\ SameObjects /\ session'.touched = session.touched \cup Changed
    BY <2>1, <2>3 DEF Session, SameObjects
  <2>5. TouchedOnly
    BY <2>4 DEF TouchedOnly, Changed
  <2> QED
    BY <1>1, <1>3, <2>4, <2>5 DEF FireApart
<1> QED
  BY <1>2, <1>3

LEMMA FireStep ==
  ASSUME session \in Session, CredInv, CredInv', [Next]_vars
  PROVE  FireActs \/ FireApart
<1>0. cred \in [Creds -> CredCell] /\ cred' \in [Creds -> CredCell]
  BY DEF CredInv
<1>a. ASSUME UNCHANGED <<cred, device, group, job, fire, session, specs>> PROVE FireApart
  BY <1>0, <1>a, Untouched DEF FireApart
<1>1. ASSUME NEW w \in Slots,
             \/ \E form \in DeviceForms : CreateDevice(w, form)
             \/ \E d \in Devices, form \in DeviceForms : UpdateDevice(w, d, form)
             \/ \E ids \in SUBSET Devices, form \in BulkForms : ids # {} /\ BulkEdit(w, ids, form)
             \/ \E file \in ImportFiles : Import(w, file)
             \/ \E g \in Groups, form \in GroupForms : UpdateGroup(w, g, form)
             \/ \E j \in Jobs, form \in JobForms : UpdateJob(w, j, form)
      PROVE  FireApart
  <2>1. UNCHANGED <<tables, fire, session, specs>>
    BY <1>1 DEF CreateDevice, UpdateDevice, BulkEdit, Import, UpdateGroup, UpdateJob, Begin
  <2> QED
    BY <1>a, <2>1 DEF tables, credVars
<1>2. ASSUME NEW reqs, Disturb(reqs), specs' = specs PROVE FireApart
  BY <1>0, <1>2, Disturbed
<1>3. ASSUME NEW w \in Slots, DeviceCommit(w) \/ GroupCommit(w) \/ JobCommit(w) PROVE FireApart
  BY <1>2, <1>3 DEF DeviceCommit, GroupCommit, JobCommit, Committed
<1>4. ASSUME NEW w \in Slots, RequestFails(w) \/ EditCred(w) PROVE FireApart
  BY <1>a, <1>4 DEF RequestFails, EditCred, CreateCred, UpdateCred, tables, credVars
<1>5. ASSUME NEW w \in Slots, SaveCred(w) PROVE FireApart
  <2>1. CASE cred' = cred
    BY <1>a, <1>5, <2>1 DEF SaveCred
  <2>2. CASE cred' # cred
    BY <1>2, <1>5, <2>2 DEF SaveCred, CommittedElsewhere
  <2> QED
    BY <2>1, <2>2
<1>6. ASSUME \/ \E g \in Groups, form \in GroupForms : CreateGroup(g, form)
             \/ \E ids \in SUBSET Devices : DeleteDevices(ids)
             \/ \E ids \in SUBSET Groups : DeleteGroups(ids)
             \/ \E c \in Creds : RemoveCred(c)
             \/ \E j \in Jobs, form \in JobForms : CreateJob(j, form)
             \/ \E ids \in SUBSET Jobs : DeleteJobs(ids)
             \/ \E p \in Platforms : CreatePlatform(p) \/ DeletePlatform(p)
      PROVE  FireApart
  <2>1. Disturb(req) /\ specs' = specs
    BY <1>6 DEF CreateGroup, DeleteDevices, DeleteGroups, RemoveCred, CreateJob, DeleteJobs,
       CreatePlatform, DeletePlatform, CommittedElsewhere
  <2> QED
    BY <1>2, <2>1
<1>7. ASSUME UNCHANGED vars PROVE FireApart
  BY <1>a, <1>7 DEF vars, tables, credVars
<1> QED
  BY <1>1, <1>3, <1>4, <1>5, <1>6, <1>7 DEF Next, FireActs

(* What is stored stays so for what others did not touch.                  *)
LEMMA HeldStays ==
  ASSUME session \in Session, SameObjects, TouchedOnly, HeldIsStored
  PROVE  HeldIsStored'
<1>1. /\ DOMAIN session.creds \subseteq Creds /\ DOMAIN session.devices \subseteq Devices
      /\ DOMAIN session.groups \subseteq Groups /\ DOMAIN session.jobs \subseteq Jobs
  BY SessionIs
<1>2. \A c \in DOMAIN session'.creds \ session'.touched : session'.creds[c] = cred'[c]
  BY <1>1 DEF SameObjects, TouchedOnly, HeldIsStored
<1>3. \A d \in DOMAIN session'.devices \ session'.touched : session'.devices[d] = device'[d]
  BY <1>1 DEF SameObjects, TouchedOnly, HeldIsStored
<1>4. \A j \in DOMAIN session'.jobs \ session'.touched : session'.jobs[j] = job'[j]
  BY <1>1 DEF SameObjects, TouchedOnly, HeldIsStored
<1>5. ASSUME NEW g \in DOMAIN session'.groups, g \notin session'.touched
      PROVE  /\ Exists(group'[g]) /\ session'.groups[g].cred = group'[g].cred
             /\ session'.groups[g].pool = group'[g].pool
  <2>1. g \in DOMAIN session.groups /\ g \in Groups /\ g \notin session.touched
        /\ group'[g] = group[g]
    BY <1>1, <1>5 DEF SameObjects, TouchedOnly
  <2> QED
    BY <2>1 DEF SameObjects, HeldIsStored
<1>6. ASSUME NEW g \in DOMAIN session'.groups, NEW d \in Devices \ session'.touched
      PROVE  d \in session'.groups[g].devices <=> Exists(device'[d]) /\ g \in device'[d].groups
  <2>1. g \in DOMAIN session.groups /\ d \in Devices \ session.touched /\ device'[d] = device[d]
    BY <1>6 DEF SameObjects, TouchedOnly
  <2> QED
    BY <2>1 DEF SameObjects, HeldIsStored
<1> QED
  BY <1>2, <1>3, <1>4, <1>5, <1>6 DEF HeldIsStored

LEMMA CallStays ==
  ASSUME fire \in Fire, Calling, TouchedOnly, CallIsStored,
         fire'.job = fire.job, fire'.default = fire.default, fire'.row = fire.row
  PROVE  CallIsStored'
<1>1. fire.job \in Jobs
  BY FireIs
<1>2. \A c \in Defaults' \ session'.touched : c \in Defaults \ session.touched
  BY DEF Defaults, DefaultsOf, Present, TouchedOnly
<1>3. \A c \in Defaults' \ session'.touched : fire'.default = c
  BY <1>2 DEF CallIsStored
<1>4. fire'.job \notin session'.touched => Exists(job'[fire'.job])
  BY <1>1 DEF CallIsStored, TouchedOnly
<1>5. fire'.default # None => fire'.default \in Creds /\ fire'.row \in CredRow
  BY DEF CallIsStored
<1>6. fire'.default \in Creds \ session'.touched =>
        fire'.row = cred'[fire'.default] /\ cred'[fire'.default].default
  BY DEF CallIsStored, TouchedOnly
<1> QED
  BY <1>3, <1>4, <1>5, <1>6 DEF CallIsStored

LEMMA TargetsStay ==
  ASSUME SameObjects, TargetsAreHeld, fire'.job = fire.job, fire'.via = fire.via
  PROVE  TargetsAreHeld'
<1>1. \A d : ViaGroups(d)' = ViaGroups(d)
  BY DEF SameObjects, ViaGroups
<1> QED
  BY <1>1 DEF SameObjects, TargetsAreHeld

(* A job published earlier still follows, whatever others touch.           *)
LEMMA FollowsStays ==
  ASSUME SpecsOK, NEW s \in specs, Follows(s), TouchedOnly, fire'.via = fire.via,
         fire'.default = fire.default, session'.devices = session.devices,
         session'.groups = session.groups
  PROVE  Follows(s)'
<1>1. Own(s.device)' = Own(s.device) /\ Shared(s.device)' = Shared(s.device)
      /\ PoolOf(s.device)' = PoolOf(s.device)
  BY DEF Own, Shared, PoolOf
<1>2. s.cred \notin session'.touched => s.material = cred'[s.cred]
  BY DEF SpecsOK, Follows, TouchedOnly
<1> QED
  BY <1>1, <1>2 DEF Follows, TouchedOnly

LEMMA UnservedStays ==
  ASSUME NEW d, Unserved(d), TouchedOnly, fire'.via = fire.via, fire'.default = fire.default,
         session'.devices = session.devices, session'.groups = session.groups
  PROVE  Unserved(d)'
<1>1. Own(d)' = Own(d) /\ Shared(d)' = Shared(d)
  BY DEF Own, Shared
<1> QED
  BY <1>1 DEF Unserved, TouchedOnly

LEMMA ApartOK == FireInv /\ FireApart => FireInv'
<1> SUFFICES ASSUME FireInv, FireApart PROVE FireInv'
  OBVIOUS
<1>1. /\ fire' = fire /\ specs' = specs /\ SameObjects /\ session' \in Session
      /\ Calling' = Calling
  BY DEF FireApart, Calling
<1>2. SessionOK'
  BY <1>1 DEF FireInv, SessionOK, FireApart, SameObjects, Closed
<1>3. SpecsOK'
  BY <1>1 DEF FireInv, SpecsOK
<1>4. CASE fire.at = "idle"
  <2>1. session' = NoSession
    BY <1>2, <1>4, <1>1 DEF SessionOK
  <2>2. HeldIsStored'
    BY <2>1 DEF HeldIsStored, NoSession, NoRows
  <2> QED
    BY <1>1, <1>2, <1>3, <1>4, <2>2 DEF FireInv, Calling
<1>5. CASE fire.at # "idle"
  <2>1. TouchedOnly /\ session \in Session /\ fire \in Fire
    BY <1>5 DEF FireApart, FireInv, SessionOK
  <2>2. HeldIsStored'
    BY <1>1, <2>1, HeldStays DEF FireInv
  <2>3. Calling => CallIsStored'
    BY <1>1, <2>1, CallStays DEF FireInv
  <2>4. fire.at \in {"collected", "sending"} => TargetsAreHeld'
    BY <1>1, TargetsStay DEF FireInv
  <2>5. ASSUME fire.at = "sending" PROVE SpecsFollow'
    <3>1. \A s \in specs : Follows(s)'
      BY <1>1, <2>1, <2>5, FollowsStays DEF FireInv, SpecsFollow, SameObjects
    <3>2. \A d : Unserved(d) => Unserved(d)'
      BY <1>1, <2>1, UnservedStays DEF SameObjects
    <3> QED
      BY <1>1, <2>5, <3>1, <3>2 DEF FireInv, SpecsFollow
  <2> QED
    BY <1>1, <1>2, <1>3, <2>2, <2>3, <2>4, <2>5 DEF FireInv
<1> QED
  BY <1>4, <1>5

-----------------------------------------------------------------------------
(* The order of the groups, what is loaded, and the credential chosen.     *)

LEMMA Less == IsWellFoundedOn({ss \in Nat \X Nat : ss[1] < ss[2]}, Nat)
BY NatLessThanWellFounded DEF OpToRel

LEMMA Smallest ==
  ASSUME NEW T \in SUBSET Nat, T # {}
  PROVE  \E i \in T : \A j \in T : i <= j
<1>1. PICK i \in T : \A j \in T : ~(<<j, i>> \in {ss \in Nat \X Nat : ss[1] < ss[2]})
  BY Less, WFMin
<1>2. ASSUME NEW j \in T PROVE i <= j
  <2>1. <<j, i>> \in Nat \X Nat /\ i \in Nat /\ j \in Nat
    OBVIOUS
  <2>2. ~(j < i)
    BY <1>1, <2>1
  <2> QED
    BY <2>1, <2>2
<1> QED
  BY <1>2

LEMMA OrderIsWhole ==
  ASSUME NEW S, IsFiniteSet(S), NEW f \in [1..Cardinality(S) -> S], IsInjective(f)
  PROVE  \A s \in S : \E i \in 1..Cardinality(S) : f[i] = s
<1>1. Cardinality(S) \in Nat
  BY FS_CardinalityType
<1>2. f \in Injection(1..Cardinality(S), S)
  BY DEF Injection, IsInjective
<1>3. Cardinality(1..Cardinality(S)) = Cardinality(S)
  BY <1>1, FS_Interval
<1>4. f \in Surjection(1..Cardinality(S), S)
  BY <1>2, <1>3, FS_Injection
<1> QED
  BY <1>4 DEF Surjection

(* Whatever the order, a device goes by one of the groups of the job that  *)
(* have it, and by none when there is none.                                *)
LEMMA TargetsAre ==
  ASSUME NEW S, IsFiniteSet(S), NEW order \in [1..Cardinality(S) -> S], IsInjective(order),
         NEW named, NEW groups, NEW devices, NEW via,
         via = Targets(order, named, groups, devices)
  PROVE  /\ \A d : d \in DOMAIN via <=>
               /\ d \in DOMAIN devices /\ devices[d].enabled
               /\ (Having(d, S, groups) # {} \/ d \in named)
         /\ \A d \in DOMAIN via : IF Having(d, S, groups) = {} THEN via[d] = None
                                ELSE via[d] \in Having(d, S, groups)
         /\ via \in [DOMAIN via -> {None} \cup S]
<1> DEFINE Has(d) == {i \in DOMAIN order : d \in groups[order[i]].devices}
           Via(d) == Having(d, S, groups)
           shown == {d \in DOMAIN devices : devices[d].enabled /\ (Has(d) # {} \/ d \in named)}
           first(d) == CHOOSE i \in Has(d) : \A j \in Has(d) : i <= j
<1>1. DOMAIN order = 1..Cardinality(S) /\ Cardinality(S) \in Nat
  BY FS_CardinalityType
<1>2. ASSUME NEW d PROVE Has(d) # {} <=> Via(d) # {}
  BY <1>1, OrderIsWhole DEF Having
<1>3. ASSUME NEW d, Has(d) # {} PROVE first(d) \in Has(d)
  <2>1. Has(d) \in SUBSET Nat
    BY <1>1
  <2>2. \E i \in Has(d) : \A j \in Has(d) : i <= j
    BY <1>3, <2>1, Smallest
  <2> QED
    BY <2>2
<1>4. via = [d \in shown |-> IF Has(d) = {} THEN None ELSE order[first(d)]]
  BY DEF Targets
<1>5. \A d : d \in shown <=> /\ d \in DOMAIN devices /\ devices[d].enabled
                           /\ (Via(d) # {} \/ d \in named)
  BY <1>2
<1>6. ASSUME NEW d \in shown, Via(d) = {} PROVE via[d] = None
  BY <1>2, <1>4, <1>6
<1>7. ASSUME NEW d \in shown, Via(d) # {} PROVE via[d] \in Via(d)
  <2>1. first(d) \in Has(d)
    BY <1>2, <1>3, <1>7
  <2>2. via[d] = order[first(d)]
    BY <1>2, <1>4, <1>7
  <2> HIDE DEF first
  <2> QED
    BY <1>1, <2>1, <2>2 DEF Having
<1>8. DOMAIN via = shown /\ via = [d \in shown |-> via[d]]
  BY <1>4
<1> HIDE DEF shown
<1>9. \A d \in shown : via[d] \in {None} \cup S
  BY <1>6, <1>7 DEF Having
<1>10. via \in [shown -> {None} \cup S]
  BY <1>8, <1>9
<1> QED
  BY <1>5, <1>6, <1>7, <1>8, <1>10

(* Loading keeps what is held and takes the rest from the table.           *)
LEMMA LoadingIsPartial ==
  ASSUME NEW All, NEW Rows, NEW held \in Partial(All, Rows), NEW table, NEW ids \in SUBSET All,
         \A id \in ids \ DOMAIN held : table[id] \in Rows
  PROVE  Loading(held, table, ids) \in Partial(All, Rows)
<1>1. held \in [DOMAIN held -> Rows] /\ DOMAIN held \subseteq All
  BY PartialIs
<1>2. Loading(held, table, ids) \in [DOMAIN held \cup ids -> Rows]
  BY <1>1 DEF Loading
<1>3. DOMAIN held \cup ids \in SUBSET All
  BY <1>1
<1> QED
  BY <1>2, <1>3, IsPartial

(* A candidate that can be used, and the first of the three.               *)
Usable(c) == c # None /\ Exists(Loaded(c))

LEMMA ChosenIs ==
  ASSUME NEW d
  PROVE  Chosen(d) = IF Usable(Own(d)) THEN Own(d)
                     ELSE IF Usable(Shared(d)) THEN Shared(d)
                     ELSE IF Usable(fire.default) THEN fire.default ELSE None
<1> DEFINE C == Candidates(d)
           found == {i \in 1..3 : Usable(C[i])}
           first == CHOOSE i \in found : \A j \in found : i <= j
<1>1. Chosen(d) = IF found = {} THEN None ELSE C[first]
  BY DEF Chosen, Usable
<1>2. C[1] = Own(d) /\ C[2] = Shared(d) /\ C[3] = fire.default
  BY DEF Candidates
<1> HIDE DEF C
<1>3. 1..3 = {1, 2, 3}
  OBVIOUS
<1>4. CASE Usable(C[1])
  <2>1. first = 1
    BY <1>3, <1>4
  <2>2. found # {}
    BY <1>3, <1>4
  <2> HIDE DEF first, found
  <2> QED
    BY <1>1, <1>2, <1>4, <2>1, <2>2
<1>5. CASE ~Usable(C[1]) /\ Usable(C[2])
  <2>1. first = 2
    BY <1>3, <1>5
  <2>2. found # {}
    BY <1>3, <1>5
  <2> HIDE DEF first, found
  <2> QED
    BY <1>1, <1>2, <1>5, <2>1, <2>2
<1>6. CASE ~Usable(C[1]) /\ ~Usable(C[2]) /\ Usable(C[3])
  <2>1. first = 3
    BY <1>3, <1>6
  <2>2. found # {}
    BY <1>3, <1>6
  <2> HIDE DEF first, found
  <2> QED
    BY <1>1, <1>2, <1>6, <2>1, <2>2
<1>7. CASE ~Usable(C[1]) /\ ~Usable(C[2]) /\ ~Usable(C[3])
  <2>1. found = {}
    BY <1>3, <1>7
  <2> HIDE DEF first, found
  <2> QED
    BY <1>1, <1>2, <1>7, <2>1
<1> QED
  BY <1>4, <1>5, <1>6, <1>7

(* The session's groups and rows as they bear on one target.               *)
LEMMA TargetIs ==
  ASSUME SessionOK, TargetsAreHeld, NEW d \in DOMAIN fire.via
  PROVE  /\ d \in Devices /\ d \in DOMAIN session.devices /\ session.devices[d] \in DeviceRow
         /\ Own(d) \in CredId /\ Shared(d) \in CredId
         /\ fire.via[d] # None =>
              /\ fire.via[d] \in ViaGroups(d) /\ fire.via[d] \in DOMAIN session.groups
              /\ fire.via[d] \in Groups /\ session.groups[fire.via[d]] \in Object
              /\ Shared(d) = session.groups[fire.via[d]].cred
         /\ fire.via[d] = None => ViaGroups(d) = {} /\ Shared(d) = None
<1>1. /\ session \in Session /\ d \in DOMAIN session.devices
      /\ IF ViaGroups(d) = {} THEN fire.via[d] = None ELSE fire.via[d] \in ViaGroups(d)
  BY DEF SessionOK, TargetsAreHeld
<1>2. d \in Devices /\ session.devices[d] \in DeviceRow
  BY <1>1, SessionIs
<1>3. \A g \in ViaGroups(d) : g \in DOMAIN session.groups /\ g \in Groups /\ session.groups[g] \in Object
  BY <1>1, SessionIs DEF SessionOK, Closed, TargetsAreHeld, ViaGroups, Having
<1>4. None \notin Groups
  BY InventoryAssumption
<1>5. Own(d) \in CredId
  BY <1>2 DEF Own, DeviceRow
<1>6. Shared(d) \in CredId
  BY <1>1, <1>3 DEF Shared, CredId, Object
<1> QED
  BY <1>1, <1>2, <1>3, <1>4, <1>5, <1>6 DEF Shared

-----------------------------------------------------------------------------
(* The steps of the dispatch.                                              *)

LEMMA HeldSame ==
  ASSUME session' = session, UNCHANGED <<cred, device, group, job>>, HeldIsStored
  PROVE  HeldIsStored'
BY DEF HeldIsStored

LEMMA BeginOK ==
  ASSUME StoredInv, FireInv, NEW j \in Jobs, FireBegin(j)
  PROVE  FireInv'
<1>1. PICK default \in (IF Defaults = {} THEN {None} ELSE Defaults) :
        fire' = [at |-> "started", job |-> j, default |-> default,
                 row |-> IF default = None THEN None
                         ELSE IF default \in DOMAIN session.creds THEN session.creds[default]
                         ELSE cred[default]]
  BY DEF FireBegin
<1>2. /\ session' = session /\ specs' = {} /\ UNCHANGED <<cred, device, group, job>>
      /\ Exists(job[j]) \/ j \in DOMAIN session.jobs
  BY DEF FireBegin, tables, credVars
<1>3. /\ cred \in [Creds -> CredCell] /\ \A c, d \in Defaults : c = d
      /\ session \in Session /\ HeldIsStored /\ None \notin Creds
  BY CredentialsAssumption DEF StoredInv, CredInv, FireInv, SessionOK
<1>4. Defaults' = Defaults
  BY <1>2 DEF Defaults
<1>5. \A c \in Defaults : c \in Creds /\ cred[c] \in CredRow /\ cred[c].default
  BY <1>3, ExistsIs DEF Defaults, DefaultsOf, Present
<1>6. default \in CredId /\ (default # None => default \in Defaults)
  BY <1>5 DEF CredId
<1>7. /\ fire'.at = "started" /\ fire'.job = j /\ fire'.default = default
      /\ default = None => fire'.row = None
      /\ default # None => fire'.row = IF default \in DOMAIN session.creds
                                         THEN session.creds[default] ELSE cred[default]
  BY <1>1
<1>8. default # None => fire'.row \in CredRow
  BY <1>3, <1>5, <1>6, <1>7, SessionIs
<1>9. fire' \in Fire
  <2>1. fire'.row \in Defined
    BY <1>7, <1>8 DEF Defined
  <2>2. fire' = [at |-> "started", job |-> j, default |-> default, row |-> fire'.row]
    BY <1>1
  <2> QED
    BY <1>6, <2>1, <2>2 DEF Fire
<1>10. SessionOK'
  BY <1>2, <1>7, <1>9 DEF FireInv, SessionOK, Closed
<1>11. j \notin session.touched => Exists(job[j])
  <2> SUFFICES ASSUME j \notin session.touched, j \in DOMAIN session.jobs PROVE Exists(job[j])
    BY <1>2
  <2>1. session.jobs[j] = job[j] /\ session.jobs[j] \in JobRow
    BY <1>3, SessionIs DEF HeldIsStored
  <2> QED
    BY <2>1, ExistsIs DEF JobCell
<1>12. default \in Creds \ session.touched => fire'.row = cred[default] /\ cred[default].default
  BY <1>3, <1>5, <1>6, <1>7 DEF HeldIsStored
<1>13. \A c \in Defaults : default = c
  BY <1>3, <1>5
<1>14. CallIsStored'
  BY <1>2, <1>4, <1>6, <1>7, <1>8, <1>5, <1>11, <1>12, <1>13 DEF CallIsStored
<1>15. HeldIsStored'
  BY <1>2, <1>3, HeldSame
<1> QED
  BY <1>2, <1>7, <1>10, <1>14, <1>15 DEF FireInv, SpecsOK

LEMMA DoneOK ==
  ASSUME FireInv, FireDone PROVE FireInv'
<1>1. fire'.at = "returned" /\ fire' \in Fire
  BY DEF FireDone, Returned, Fire
<1>2. session' = session /\ specs' = specs /\ UNCHANGED <<cred, device, group, job>>
  BY DEF FireDone, tables, credVars
<1>3. HeldIsStored'
  BY <1>2, HeldSame DEF FireInv
<1> QED
  BY <1>1, <1>2, <1>3 DEF FireInv, SessionOK, Closed, SpecsOK, Calling

LEMMA NoSessionOK == NoSession \in Session /\ Closed(NoSession)
<1>1. \A Rows, All : NoRows \in Partial(All, Rows)
  <2> TAKE Rows, All
  <2>1. NoRows \in [{} -> Rows]
    BY DEF NoRows
  <2> QED
    BY <2>1, IsPartial
<1>2. DOMAIN NoRows = {}
  BY DEF NoRows
<1> QED
  BY <1>1, <1>2 DEF Session, NoSession, Closed

LEMMA EndsOK ==
  ASSUME SpecsOK, fire' = NoFire, session' = NoSession, UNCHANGED <<cred, specs>>
  PROVE  FireInv'
<1>1. fire'.at = "idle" /\ fire' \in Fire
  BY DEF NoFire, Fire
<1>2. SessionOK'
  BY <1>1, NoSessionOK DEF SessionOK
<1>3. HeldIsStored'
  BY DEF HeldIsStored, NoSession, NoRows
<1> QED
  BY <1>1, <1>2, <1>3 DEF FireInv, SpecsOK, Calling

LEMMA FlushOK ==
  ASSUME StoredInv, FireInv, FireFlush PROVE FireInv'
<1>1. /\ fire.at = "collected" /\ specs' = specs /\ specs = {}
      /\ UNCHANGED <<cred, device, group, job>>
      /\ session \in Session /\ fire \in Fire /\ CallIsStored /\ TargetsAreHeld
  BY DEF FireFlush, FireInv, SessionOK, Calling, tables, credVars
<1>2. CASE fire' = NoFire /\ session' = NoSession
  BY <1>1, <1>2, EndsOK DEF FireInv
<1>3. ASSUME fire' = [at |-> "sending", job |-> fire.job, default |-> fire.default,
                      row |-> fire.row, via |-> fire.via, left |-> DOMAIN fire.via],
             session' = [session EXCEPT !.runs = @ \cup DOMAIN fire.via]
      PROVE  FireInv'
  <2>1. /\ fire'.at = "sending" /\ fire'.job = fire.job /\ fire'.default = fire.default
        /\ fire'.row = fire.row /\ fire'.via = fire.via /\ fire'.left = DOMAIN fire.via
    BY <1>3
  <2>2. DOMAIN fire.via \subseteq Devices
    BY <1>1, SessionIs DEF TargetsAreHeld
  <2>3. fire' \in Fire
    BY <1>1, <1>3, <2>2, FireIs DEF Fire, Calling
  <2>4. session.runs \cup DOMAIN fire.via \subseteq Devices
    BY <1>1, <2>2, SessionIs
  <2>5. /\ session' \in Session /\ SameObjects /\ session'.touched = session.touched
    BY <1>1, <1>3, <2>4 DEF Session, SameObjects
  <2>6. TouchedOnly /\ Calling
    BY <1>1, <2>5 DEF TouchedOnly, Calling, StoredInv, CredInv
  <2>7. SessionOK'
    BY <2>1, <2>3, <2>5 DEF FireInv, SessionOK, Closed, SameObjects
  <2>8. HeldIsStored' /\ CallIsStored' /\ TargetsAreHeld'
    BY <1>1, <2>1, <2>5, <2>6, HeldStays, CallStays, TargetsStay DEF FireInv
  <2>9. SpecsFollow'
    BY <1>1, <2>1 DEF SpecsFollow
  <2> QED
    BY <1>1, <2>1, <2>7, <2>8, <2>9 DEF FireInv, SpecsOK
<1> QED
  BY <1>2, <1>3 DEF FireFlush

(* What a job targets, its groups' devices and its own, once loaded.       *)
JobsLoaded   == Loading(session.jobs, [j \in Jobs |-> TargetsOf(j)], {fire.job})
GroupsOf(target) ==
  Loading(session.groups, [g \in target.groups |-> GroupObject(g)], target.groups)

LEMMA CollectIs ==
  ASSUME StoredInv, FireInv, FireCollect
  PROVE  \E target, jobs, groups, devices :
           /\ jobs = JobsLoaded
           /\ target = jobs[fire.job]
           /\ groups = GroupsOf(target)
           /\ devices = Loading(session.devices, device,
                                target.devices \cup UNION {groups[g].devices : g \in target.groups})
           /\ session' = [creds |-> session.creds, devices |-> devices, groups |-> groups,
                          jobs |-> jobs, platforms |-> session.platforms, runs |-> session.runs,
                          touched |-> session.touched]
           /\ \E order \in [1..Cardinality(target.groups) -> target.groups] :
                /\ IsInjective(order)
                /\ fire' = [at |-> "collected", job |-> fire.job, default |-> fire.default,
                            row |-> fire.row,
                            via |-> Targets(order, target.devices, groups, devices)]
BY DEF FireCollect, JobsLoaded, GroupsOf

(* What is not held yet and is loaded, is a row.                           *)
LEMMA CollectReads ==
  ASSUME StoredInv, FireInv, fire.at = "started", NEW jobs, NEW target, NEW groups,
         jobs = JobsLoaded,
         target = jobs[fire.job],
         groups = GroupsOf(target)
  PROVE  /\ fire.job \in Jobs /\ jobs \in Partial(Jobs, JobRow) /\ target \in JobRow
         /\ groups \in Partial(Groups, Object)
         /\ \A g \in target.groups \ DOMAIN session.groups :
              /\ group[g] \in GroupRow /\ groups[g] = GroupObject(g)
         /\ \A d \in target.devices \ DOMAIN session.devices : device[d] \in DeviceRow
         /\ \A g \in target.groups : \A d \in groups[g].devices \ DOMAIN session.devices :
              d \in Devices /\ device[d] \in DeviceRow
<1>1. /\ fire.job \in Jobs /\ session \in Session /\ Closed(session)
      /\ device \in [Devices -> DeviceCell] /\ group \in [Groups -> GroupCell]
      /\ job \in [Jobs -> JobCell]
      /\ References(device, group, job, cred, platform)
  BY FireIs DEF FireInv, SessionOK, Calling, StoredInv, RowsInv, TablesOK
<1>2. /\ \A d \in Present(device) : d \in Devices /\ device[d] \in DeviceRow
      /\ \A g \in Present(group) : g \in Groups /\ group[g] \in GroupRow
      /\ \A j \in Present(job) : job[j] \in JobRow
  BY <1>1, ExistsIs DEF Present
<1>3. /\ TargetsOf(fire.job) \in JobRow
      /\ TargetsOf(fire.job).groups \subseteq Present(group)
      /\ TargetsOf(fire.job).devices \subseteq Present(device)
  <2>1. CASE Exists(job[fire.job])
    <3>1. fire.job \in Present(job)
      BY <1>1, <2>1 DEF Present
    <3> QED
      BY <1>1, <1>2, <2>1, <3>1 DEF TargetsOf, References
  <2>2. CASE ~Exists(job[fire.job])
    <3>1. TargetsOf(fire.job) = [groups |-> {}, devices |-> {}]
      BY <2>2 DEF TargetsOf
    <3> QED
      BY <3>1 DEF JobRow
  <2> QED
    BY <2>1, <2>2
<1>4. /\ fire.job \in DOMAIN session.jobs => target = session.jobs[fire.job]
      /\ fire.job \notin DOMAIN session.jobs => target = TargetsOf(fire.job)
  BY <1>1 DEF Loading, JobsLoaded, GroupsOf
<1>5. jobs \in Partial(Jobs, JobRow) /\ target \in JobRow
  <2>1. session.jobs \in Partial(Jobs, JobRow)
    BY <1>1 DEF Session
  <2>2. \A id \in {fire.job} \ DOMAIN session.jobs :
          [j \in Jobs |-> TargetsOf(j)][id] \in JobRow
    BY <1>1, <1>3
  <2>3. jobs \in Partial(Jobs, JobRow)
    BY <1>1, <2>1, <2>2, LoadingIsPartial DEF JobsLoaded
  <2>4. target \in JobRow
    BY <1>1, <1>3, <1>4, SessionIs
  <2> QED
    BY <2>3, <2>4
<1>6. /\ target.groups \subseteq DOMAIN session.groups \cup Present(group)
      /\ target.devices \subseteq DOMAIN session.devices \cup Present(device)
  BY <1>1, <1>3, <1>4 DEF Closed
<1>7. \A g \in target.groups \ DOMAIN session.groups :
        g \in Groups /\ group[g] \in GroupRow /\ groups[g] = GroupObject(g)
  BY <1>2, <1>6 DEF Loading, JobsLoaded, GroupsOf
<1>8. \A g \in target.groups \ DOMAIN session.groups : GroupObject(g) \in Object
  <2> SUFFICES ASSUME NEW g \in target.groups \ DOMAIN session.groups
               PROVE  GroupObject(g) \in Object
    OBVIOUS
  <2>1. {d \in Present(device) : g \in device[d].groups} \subseteq Devices
    BY <1>2
  <2> QED
    BY <1>7, <2>1 DEF GroupObject, Object, GroupRow, CredId
<1>9. groups \in Partial(Groups, Object)
  <2>1. target.groups \in SUBSET Groups
    BY <1>5 DEF JobRow
  <2>2. session.groups \in Partial(Groups, Object)
    BY <1>1 DEF Session
  <2>3. \A id \in target.groups \ DOMAIN session.groups :
          [g \in target.groups |-> GroupObject(g)][id] \in Object
    BY <1>8
  <2> QED
    BY <2>1, <2>2, <2>3, LoadingIsPartial DEF GroupsOf
<1>10. \A d \in target.devices \ DOMAIN session.devices : device[d] \in DeviceRow
  BY <1>2, <1>6
<1>11. \A g \in target.groups : \A d \in groups[g].devices \ DOMAIN session.devices :
         d \in Devices /\ device[d] \in DeviceRow
  <2> SUFFICES ASSUME NEW g \in target.groups, NEW d \in groups[g].devices \ DOMAIN session.devices
               PROVE  d \in Present(device)
    BY <1>2
  <2>1. CASE g \in DOMAIN session.groups
    <3>1. groups[g] = session.groups[g]
      BY <2>1 DEF Loading, JobsLoaded, GroupsOf
    <3> QED
      BY <1>1, <2>1, <3>1 DEF Closed
  <2>2. CASE g \notin DOMAIN session.groups
    <3>1. groups[g] = GroupObject(g)
      BY <1>7, <2>2
    <3> QED
      BY <3>1 DEF GroupObject
  <2> QED
    BY <2>1, <2>2
<1> QED
  BY <1>1, <1>5, <1>7, <1>9, <1>10, <1>11

LEMMA CollectOK ==
  ASSUME StoredInv, FireInv, FireCollect PROVE FireInv'
<1>1. /\ fire.at = "started" /\ specs' = specs /\ specs = {}
      /\ UNCHANGED <<cred, device, group, job>>
      /\ session \in Session /\ Closed(session) /\ fire \in Fire /\ CallIsStored /\ Calling
      /\ HeldIsStored /\ device \in [Devices -> DeviceCell] /\ cred \in [Creds -> CredCell]
  BY DEF FireCollect, FireInv, SessionOK, Calling, tables, credVars, StoredInv, CredInv, RowsInv,
     TablesOK
<1>2. PICK target, jobs, groups, devices :
           /\ jobs = JobsLoaded
           /\ target = jobs[fire.job]
           /\ groups = GroupsOf(target)
           /\ devices = Loading(session.devices, device,
                                target.devices \cup UNION {groups[g].devices : g \in target.groups})
           /\ session' = [creds |-> session.creds, devices |-> devices, groups |-> groups,
                          jobs |-> jobs, platforms |-> session.platforms, runs |-> session.runs,
                          touched |-> session.touched]
           /\ \E order \in [1..Cardinality(target.groups) -> target.groups] :
                /\ IsInjective(order)
                /\ fire' = [at |-> "collected", job |-> fire.job, default |-> fire.default,
                            row |-> fire.row,
                            via |-> Targets(order, target.devices, groups, devices)]
  BY CollectIs
<1> DEFINE asked == target.devices \cup UNION {groups[g].devices : g \in target.groups}
<1>3. /\ fire.job \in Jobs /\ jobs \in Partial(Jobs, JobRow) /\ target \in JobRow
      /\ groups \in Partial(Groups, Object)
      /\ \A g \in target.groups \ DOMAIN session.groups :
           /\ group[g] \in GroupRow /\ groups[g] = GroupObject(g)
      /\ \A d \in asked \ DOMAIN session.devices : d \in Devices /\ device[d] \in DeviceRow
  <2>1. /\ jobs = JobsLoaded
        /\ target = jobs[fire.job]
        /\ groups = GroupsOf(target)
    BY <1>2
  <2> HIDE DEF asked
  <2>2. /\ fire.job \in Jobs /\ jobs \in Partial(Jobs, JobRow) /\ target \in JobRow
        /\ groups \in Partial(Groups, Object)
        /\ \A g \in target.groups \ DOMAIN session.groups :
             /\ group[g] \in GroupRow /\ groups[g] = GroupObject(g)
        /\ \A d \in target.devices \ DOMAIN session.devices : device[d] \in DeviceRow
        /\ \A g \in target.groups : \A d \in groups[g].devices \ DOMAIN session.devices :
              d \in Devices /\ device[d] \in DeviceRow
    BY <1>1, <2>1, CollectReads
  <2> QED
    BY <2>2 DEF asked, JobRow
<1>4. /\ DOMAIN jobs = DOMAIN session.jobs \cup {fire.job}
      /\ \A j \in DOMAIN session.jobs : jobs[j] = session.jobs[j]
      /\ fire.job \notin DOMAIN session.jobs => target = TargetsOf(fire.job)
  BY <1>2, <1>3 DEF Loading, JobsLoaded, GroupsOf
<1>g. /\ DOMAIN groups = DOMAIN session.groups \cup target.groups
      /\ \A g \in DOMAIN session.groups : groups[g] = session.groups[g]
  BY <1>2 DEF Loading, JobsLoaded, GroupsOf
<1>d. /\ DOMAIN devices = DOMAIN session.devices \cup asked
      /\ \A d \in DOMAIN session.devices : devices[d] = session.devices[d]
      /\ \A d \in asked \ DOMAIN session.devices : devices[d] = device[d]
  BY <1>2 DEF Loading, JobsLoaded, GroupsOf
<1>5. /\ session'.creds = session.creds /\ session'.devices = devices
      /\ session'.groups = groups /\ session'.jobs = jobs /\ session'.touched = session.touched
  BY <1>2
<1>6. session' \in Session
  <2>1. asked \in SUBSET Devices /\ session.devices \in Partial(Devices, DeviceRow)
    <3>1. DOMAIN session.devices \subseteq Devices
      BY <1>1, SessionIs
    <3> QED
      BY <1>1, <1>3, <3>1 DEF Session
  <2>2. devices \in Partial(Devices, DeviceRow)
    BY <1>2, <1>3, <2>1, LoadingIsPartial
  <2> QED
    BY <1>1, <1>2, <1>3, <2>2 DEF Session
<1>7. Closed(session')
  <2>1. \A j \in DOMAIN jobs : /\ jobs[j].groups \subseteq DOMAIN groups
                               /\ jobs[j].devices \subseteq DOMAIN devices
    BY <1>1, <1>2, <1>4, <1>g, <1>d DEF Closed
  <2>2. \A g \in DOMAIN groups : groups[g].devices \subseteq DOMAIN devices
    BY <1>1, <1>4, <1>g, <1>d DEF Closed
  <2> QED
    BY <1>5, <2>1, <2>2 DEF Closed
<1> HIDE DEF asked
<1>8. HeldIsStored'
  <2>1. \A c \in DOMAIN session'.creds \ session'.touched : session'.creds[c] = cred'[c]
    BY <1>1, <1>5 DEF HeldIsStored
  <2>2. \A d \in DOMAIN session'.devices \ session'.touched : session'.devices[d] = device'[d]
    BY <1>1, <1>4, <1>g, <1>d, <1>5 DEF HeldIsStored
  <2>3. \A j \in DOMAIN session'.jobs \ session'.touched : session'.jobs[j] = job'[j]
    <3>1. fire.job \notin session.touched => TargetsOf(fire.job) = job[fire.job]
      BY <1>1 DEF CallIsStored, TargetsOf
    <3> QED
      BY <1>1, <1>2, <1>4, <1>5, <3>1 DEF HeldIsStored
  <2>4. ASSUME NEW g \in DOMAIN groups, g \notin session.touched
        PROVE  /\ Exists(group[g]) /\ groups[g].cred = group[g].cred
               /\ groups[g].pool = group[g].pool
    <3>1. CASE g \in DOMAIN session.groups
      BY <1>1, <1>4, <1>g, <1>d, <2>4, <3>1 DEF HeldIsStored
    <3>2. CASE g \notin DOMAIN session.groups
      <4>1. group[g] \in GroupRow /\ groups[g] = GroupObject(g)
        BY <1>3, <1>g, <3>2
      <4> QED
        BY <4>1, ExistsIs DEF GroupObject, GroupCell
    <3> QED
      BY <3>1, <3>2
  <2>5. ASSUME NEW g \in DOMAIN groups, NEW d \in Devices \ session.touched
        PROVE  d \in groups[g].devices <=> Exists(device[d]) /\ g \in device[d].groups
    <3>1. CASE g \in DOMAIN session.groups
      BY <1>1, <1>4, <1>g, <1>d, <2>5, <3>1 DEF HeldIsStored
    <3>2. CASE g \notin DOMAIN session.groups
      <4>1. groups[g] = GroupObject(g)
        BY <1>3, <1>g, <3>2
      <4>2. groups[g].devices = {e \in Present(device) : g \in device[e].groups}
        BY <4>1 DEF GroupObject
      <4> QED
        BY <1>1, <4>2 DEF Present
    <3> QED
      BY <3>1, <3>2
  <2> QED
    BY <1>1, <1>5, <2>1, <2>2, <2>3, <2>4, <2>5 DEF HeldIsStored
<1>9. PICK order \in [1..Cardinality(target.groups) -> target.groups] :
        /\ IsInjective(order)
        /\ fire' = [at |-> "collected", job |-> fire.job, default |-> fire.default,
                    row |-> fire.row, via |-> Targets(order, target.devices, groups, devices)]
  BY <1>2
<1> DEFINE via == Targets(order, target.devices, groups, devices)
<1>10. /\ \A d : d \in DOMAIN via <=>
             /\ d \in DOMAIN devices /\ devices[d].enabled
             /\ (Having(d, target.groups, groups) # {} \/ d \in target.devices)
       /\ \A d \in DOMAIN via : IF Having(d, target.groups, groups) = {} THEN via[d] = None
                              ELSE via[d] \in Having(d, target.groups, groups)
       /\ via \in [DOMAIN via -> {None} \cup target.groups]
  <2>1. IsFiniteSet(target.groups)
    BY <1>3, InventoryAssumption, FS_Subset DEF JobRow
  <2>2. via = Targets(order, target.devices, groups, devices)
    OBVIOUS
  <2> HIDE DEF via
  <2> QED
    BY <1>9, <2>1, <2>2, TargetsAre
<1> HIDE DEF via
<1>11. /\ fire'.at = "collected" /\ fire'.job = fire.job /\ fire'.default = fire.default
       /\ fire'.row = fire.row /\ fire'.via = via
       /\ fire' = [at |-> "collected", job |-> fire.job, default |-> fire.default,
                   row |-> fire.row, via |-> via]
  BY <1>9 DEF via
<1>12. via \in Vias
  <2>1. DOMAIN via \in SUBSET Devices
    BY <1>5, <1>6, <1>10, SessionIs DEF Session, Partial
  <2>2. via \in [DOMAIN via -> {None} \cup Groups]
    BY <1>3, <1>10 DEF JobRow
  <2> QED
    BY <2>1, <2>2, IsPartial DEF Vias
<1>13. SessionOK'
  <2>1. fire' \in Fire
    BY <1>1, <1>11, <1>12, FireIs DEF Fire
  <2> QED
    BY <1>6, <1>7, <1>11, <2>1 DEF SessionOK
<1>14. CallIsStored'
  <2>1. TouchedOnly
    BY <1>1, <1>5 DEF TouchedOnly
  <2> QED
    BY <1>1, <1>11, <2>1, CallStays
<1>15. TargetsAreHeld'
  <2>1. \A d : ViaGroups(d)' = Having(d, target.groups, groups)
    BY <1>2, <1>5, <1>11 DEF ViaGroups
  <2> QED
    BY <1>2, <1>4, <1>g, <1>d, <1>5, <1>10, <1>11, <2>1 DEF TargetsAreHeld
<1> QED
  BY <1>1, <1>8, <1>11, <1>13, <1>14, <1>15 DEF FireInv, SpecsOK

(* A credential is loaded as it is stored, unless others touched it.       *)
LEMMA LoadedIs ==
  ASSUME StoredInv, FireInv, fire.at = "sending", NEW c \in Creds
  PROVE  /\ Loaded(c) \in CredCell
         /\ c \in Present(cred) \/ c = fire.default => Loaded(c) \in CredRow
         /\ c \notin session.touched => Loaded(c) = cred[c]
<1>1. /\ session \in Session /\ HeldIsStored /\ CallIsStored /\ cred \in [Creds -> CredCell]
      /\ None \notin Creds
  BY CredentialsAssumption DEF FireInv, SessionOK, Calling, StoredInv, CredInv
<1>2. CASE c \in DOMAIN session.creds
  BY <1>1, <1>2, SessionIs DEF Loaded, HeldIsStored, CredCell
<1>3. CASE c \notin DOMAIN session.creds /\ c = fire.default
  BY <1>1, <1>3 DEF Loaded, CallIsStored, CredCell
<1>4. CASE c \notin DOMAIN session.creds /\ c # fire.default
  BY <1>1, <1>4, ExistsIs DEF Loaded, Present
<1> QED
  BY <1>2, <1>3, <1>4

(* So a credential can be missing only where others touched what names it. *)
LEMMA UsableIs ==
  ASSUME StoredInv, FireInv, fire.at = "sending", NEW d \in DOMAIN fire.via
  PROVE  /\ Own(d) # None /\ d \notin session.touched => Usable(Own(d))
         /\ Shared(d) # None /\ fire.via[d] \notin session.touched => Usable(Shared(d))
         /\ fire.default # None => Usable(fire.default)
         /\ ~Usable(None)
<1>1. /\ SessionOK /\ session \in Session /\ HeldIsStored /\ TargetsAreHeld /\ CallIsStored
      /\ References(device, group, job, cred, platform)
      /\ device \in [Devices -> DeviceCell] /\ group \in [Groups -> GroupCell]
  BY DEF FireInv, SessionOK, Calling, StoredInv, RowsInv, TablesOK
<1>2. \A c \in Present(cred) : c \in Creds /\ Loaded(c) \in CredRow
  <2>1. \A c \in Present(cred) : c \in Creds
    BY DEF StoredInv, CredInv, Present
  <2> QED
    BY <2>1, LoadedIs
<1>3. \A c \in Creds : Loaded(c) \in CredRow => Usable(c)
  BY CredentialsAssumption, ExistsIs DEF Usable, CredCell
<1>4. ASSUME Own(d) # None, d \notin session.touched PROVE Usable(Own(d))
  <2>1. d \in Devices /\ session.devices[d] = device[d] /\ device[d] \in DeviceRow
    BY <1>1, <1>4, TargetIs DEF HeldIsStored
  <2>2. d \in Present(device)
    BY <1>1, <2>1, ExistsIs DEF Present, DeviceCell
  <2>3. Own(d) \in Present(cred)
    BY <1>1, <1>4, <2>1, <2>2 DEF Own, References
  <2> QED
    BY <1>2, <1>3, <2>3
<1>5. ASSUME Shared(d) # None, fire.via[d] \notin session.touched PROVE Usable(Shared(d))
  <2>1. /\ fire.via[d] \in Groups /\ fire.via[d] \in DOMAIN session.groups
        /\ Shared(d) = session.groups[fire.via[d]].cred
    BY <1>1, <1>5, TargetIs
  <2>2. Exists(group[fire.via[d]]) /\ Shared(d) = group[fire.via[d]].cred
    BY <1>1, <1>5, <2>1 DEF HeldIsStored
  <2>3. Shared(d) \in Present(cred)
    BY <1>1, <1>5, <2>1, <2>2 DEF References, Present
  <2> QED
    BY <1>2, <1>3, <2>3
<1>6. ASSUME fire.default # None PROVE Usable(fire.default)
  <2>1. fire.default \in Creds
    BY <1>1, <1>6 DEF CallIsStored
  <2> QED
    BY <1>3, <2>1, LoadedIs
<1> QED
  BY <1>4, <1>5, <1>6 DEF Usable

(* Loading the credential of a target keeps the session as it should be.   *)
LEMMA HoldingOK ==
  ASSUME StoredInv, FireInv, fire.at = "sending", NEW d \in DOMAIN fire.via,
         Chosen(d) # None, NEW loaded \in SUBSET Platforms, session' = Holding(d, loaded),
         UNCHANGED <<cred, device, group, job>>
  PROVE  /\ Chosen(d) \in Creds /\ Loaded(Chosen(d)) \in CredRow
         /\ session' \in Session /\ Closed(session') /\ HeldIsStored'
         /\ session'.devices = session.devices /\ session'.groups = session.groups
         /\ session'.jobs = session.jobs /\ session'.touched = session.touched
<1>1. /\ SessionOK /\ session \in Session /\ Closed(session) /\ HeldIsStored /\ TargetsAreHeld
      /\ CallIsStored
  BY DEF FireInv, SessionOK, Calling
<1>2. Chosen(d) \in Creds /\ Loaded(Chosen(d)) \in CredRow
  <2>1. Usable(Chosen(d)) /\ Chosen(d) \in {Own(d), Shared(d), fire.default}
    BY UsableIs, ChosenIs
  <2>2. Chosen(d) \in Creds
    BY <1>1, <2>1, TargetIs DEF CredId, CallIsStored
  <2> QED
    BY <2>1, <2>2, LoadedIs, ExistsIs DEF Usable
<1> DEFINE table == [c \in {Chosen(d)} |-> Loaded(c)]
           ids == {Chosen(d)} \cap {Own(d), Shared(d)}
<1>3. session' = [creds |-> Loading(session.creds, table, ids),
                  devices |-> session.devices, groups |-> session.groups,
                  jobs |-> session.jobs, platforms |-> session.platforms \cup loaded,
                  runs |-> session.runs, touched |-> session.touched]
  BY DEF Holding
<1>4. ids \in SUBSET Creds /\ \A c \in ids : table[c] = Loaded(c) /\ table[c] \in CredRow
  BY <1>2
<1> HIDE DEF table, ids
<1>5. session' \in Session
  <2>1. Loading(session.creds, table, ids) \in Partial(Creds, CredRow)
    BY <1>1, <1>4, LoadingIsPartial DEF Session
  <2>2. session.platforms \cup loaded \subseteq Platforms
    BY <1>1, SessionIs
  <2> QED
    BY <1>1, <1>3, <2>1, <2>2 DEF Session
<1>6. /\ session'.creds = Loading(session.creds, table, ids)
      /\ session'.devices = session.devices /\ session'.groups = session.groups
      /\ session'.jobs = session.jobs /\ session'.touched = session.touched
  BY <1>3
<1>7. Closed(session')
  BY <1>1, <1>6 DEF Closed
<1>8. HeldIsStored'
  <2>1. /\ DOMAIN session'.creds = DOMAIN session.creds \cup ids
        /\ \A c \in DOMAIN session.creds : session'.creds[c] = session.creds[c]
        /\ \A c \in ids \ DOMAIN session.creds : session'.creds[c] = Loaded(c)
    BY <1>4, <1>6 DEF Loading
  <2>2. \A c \in ids \ session.touched : Loaded(c) = cred[c]
    BY <1>4, LoadedIs
  <2>3. \A c \in DOMAIN session'.creds \ session'.touched : session'.creds[c] = cred'[c]
    BY <1>1, <1>6, <2>1, <2>2 DEF HeldIsStored
  <2> QED
    BY <1>1, <1>6, <2>3 DEF HeldIsStored
<1> QED
  BY <1>2, <1>5, <1>6, <1>7, <1>8

(* What a turn of the loop publishes follows.                              *)
LEMMA PublishedFollows ==
  ASSUME StoredInv, FireInv, fire.at = "sending", NEW d \in DOMAIN fire.via,
         Chosen(d) # None, Chosen(d) \in Creds, NEW s, s = SpecFor(d, Chosen(d))
  PROVE  /\ Follows(s) /\ s.device = d /\ s.cred = Chosen(d) /\ s.material = Loaded(Chosen(d))
<1>1. /\ s.device = d /\ s.cred = Chosen(d) /\ s.material = Loaded(Chosen(d))
      /\ s.pool = IF session.devices[d].pool # None \/ fire.via[d] = None
                    THEN session.devices[d].pool ELSE session.groups[fire.via[d]].pool
  BY DEF SpecFor
<1>2. s.pool = PoolOf(d)
  BY <1>1 DEF PoolOf, Given
<1>3. s.cred \notin session.touched => s.material = cred[s.cred]
  BY <1>1, LoadedIs
<1>4. Own(d) # None /\ d \notin session.touched => s.cred = Own(d)
  BY <1>1, UsableIs, ChosenIs
<1>5. Own(d) = None /\ Shared(d) # None /\ fire.via[d] \notin session.touched => s.cred = Shared(d)
  BY <1>1, UsableIs, ChosenIs
<1>6. Own(d) = None /\ Shared(d) = None => s.cred = fire.default
  BY <1>1, UsableIs, ChosenIs
<1> QED
  BY <1>1, <1>2, <1>3, <1>4, <1>5, <1>6 DEF Follows

LEMMA SpecOK ==
  ASSUME StoredInv, FireInv, NEW d \in Devices, FireSpec(d) PROVE FireInv'
<1>1. /\ fire.at = "sending" /\ d \in fire.left /\ UNCHANGED <<cred, device, group, job>>
      /\ fire \in Fire /\ session \in Session /\ Closed(session) /\ HeldIsStored
      /\ SpecsOK /\ CallIsStored /\ TargetsAreHeld /\ SpecsFollow
      /\ cred \in [Creds -> CredCell]
  BY DEF FireSpec, FireInv, SessionOK, Calling, tables, credVars, StoredInv, CredInv
<1>2. d \in DOMAIN fire.via /\ d \in DOMAIN session.devices /\ session.devices[d] \in DeviceRow
  BY <1>1, TargetIs DEF SpecsFollow, FireInv
<1>3. ASSUME fire' = Sent(d), SessionOK', HeldIsStored', SpecsOK',
             session'.devices = session.devices, session'.groups = session.groups,
             session'.jobs = session.jobs, session'.touched = session.touched,
             \A s \in specs : s \in specs',
             \A s \in specs' : s \in specs \/ (Follows(s) /\ s.device = d),
             Unserved(d) \/ \E s \in specs' : s.device = d
      PROVE  FireInv'
  <2>1. /\ fire'.at = "sending" /\ fire'.job = fire.job /\ fire'.default = fire.default
        /\ fire'.row = fire.row /\ fire'.via = fire.via /\ fire'.left = fire.left \ {d}
    BY <1>3 DEF Sent
  <2>2. TouchedOnly /\ Calling
    BY <1>1, <1>3 DEF TouchedOnly, Calling
  <2>3. CallIsStored'
    BY <1>1, <2>1, <2>2, CallStays
  <2>4. TargetsAreHeld'
    <3>1. \A e : ViaGroups(e)' = ViaGroups(e)
      BY <1>3, <2>1 DEF ViaGroups
    <3> QED
      BY <1>1, <1>3, <2>1, <3>1 DEF TargetsAreHeld
  <2>5. \A s \in specs' : Follows(s)'
    <3>1. \A e : Own(e)' = Own(e) /\ Shared(e)' = Shared(e) /\ PoolOf(e)' = PoolOf(e)
      BY <1>3, <2>1 DEF Own, Shared, PoolOf
    <3>2. \A s : Follows(s) => Follows(s)'
      BY <1>1, <1>3, <2>1, <3>1 DEF Follows
    <3> QED
      BY <1>1, <1>3, <3>2 DEF SpecsFollow
  <2>6. \A e : Unserved(e) => Unserved(e)'
    BY <1>3, <2>1, <2>2, UnservedStays
  <2>7. SpecsFollow'
    BY <1>1, <1>3, <2>1, <2>5, <2>6 DEF SpecsFollow
  <2> QED
    BY <1>3, <2>1, <2>3, <2>4, <2>7 DEF FireInv
<1>4. fire' = Sent(d) => fire' \in Fire /\ fire'.at = "sending"
  <2>1. fire.left \ {d} \subseteq Devices
    BY <1>1, FireIs
  <2> QED
    BY <1>1, <2>1, FireIs DEF Sent, Fire, Calling
<1>5. CASE Chosen(d) = None /\ fire' = Sent(d) /\ UNCHANGED <<session, specs>>
  <2>1. Unserved(d)
    BY <1>1, <1>2, <1>5, UsableIs, ChosenIs DEF Unserved
  <2>2. SessionOK' /\ SpecsOK' /\ HeldIsStored'
    BY <1>1, <1>4, <1>5, HeldSame DEF SessionOK, Closed, SpecsOK
  <2> QED
    BY <1>3, <1>5, <2>1, <2>2
<1>6. CASE /\ Chosen(d) # None /\ fire' = Sent(d)
           /\ session' = Holding(d, CustomOf(session.devices[d]))
           /\ specs' = specs \cup {SpecFor(d, Chosen(d))}
  <2>1. CustomOf(session.devices[d]) \in SUBSET Platforms
    BY <1>1, <1>2, SessionIs DEF CustomOf, Present, StoredInv, RowsInv, TablesOK
  <2>2. /\ Chosen(d) \in Creds /\ Loaded(Chosen(d)) \in CredRow
        /\ session' \in Session /\ Closed(session') /\ HeldIsStored'
        /\ session'.devices = session.devices /\ session'.groups = session.groups
        /\ session'.jobs = session.jobs /\ session'.touched = session.touched
    BY <1>1, <1>2, <1>6, <2>1, HoldingOK
  <2> DEFINE s == SpecFor(d, Chosen(d))
  <2>3. Follows(s) /\ s.device = d /\ s.cred = Chosen(d) /\ s.material = Loaded(Chosen(d))
    BY <1>1, <1>2, <1>6, <2>2, PublishedFollows
  <2>4. specs' = specs \cup {s}
    BY <1>6
  <2> HIDE DEF s
  <2>5. SessionOK' /\ SpecsOK'
    BY <1>1, <1>4, <1>6, <2>2, <2>3, <2>4 DEF SessionOK, Closed, SpecsOK
  <2> QED
    BY <1>3, <1>6, <2>2, <2>3, <2>4, <2>5
<1>7. CASE /\ Chosen(d) # None /\ fire' = Returned /\ session' = Holding(d, {}) /\ specs' = specs
  <2>1. session' \in Session /\ Closed(session') /\ HeldIsStored'
    BY <1>1, <1>2, <1>7, HoldingOK
  <2>2. fire' \in Fire /\ fire'.at = "returned"
    BY <1>7 DEF Returned, Fire
  <2> QED
    BY <1>1, <1>7, <2>1, <2>2 DEF FireInv, SessionOK, Closed, SpecsOK, Calling
<1> QED
  BY <1>5, <1>6, <1>7 DEF FireSpec

LEMMA FireInvStep == StoredInv /\ StoredInv' /\ FireInv /\ [Next]_vars => FireInv'
<1> SUFFICES ASSUME StoredInv, StoredInv', FireInv, [Next]_vars PROVE FireInv'
  OBVIOUS
<1>1. FireActs \/ FireApart
  BY FireStep DEF StoredInv, FireInv, SessionOK
<1>2. ASSUME SessionEnds PROVE FireInv'
  BY <1>2, EndsOK DEF SessionEnds, FireInv, tables, credVars
<1> QED
  BY <1>1, <1>2, BeginOK, CollectOK, FlushOK, SpecOK, DoneOK, ApartOK DEF FireActs

-----------------------------------------------------------------------------
(* A slot has one request at a time, and the dispatch and what it has      *)
(* published are well formed.                                              *)

SlotsInv ==
  /\ used \in 0..MaxRequests
  /\ \A w \in Slots : CredIdle(w) \/ req[w].kind = "idle"

LEMMA KindsStay ==
  ASSUME ReqInv, SlotsInv, used' \in 0..MaxRequests, credreq' = credreq,
         \/ req' = req \/ CommittedElsewhere
         \/ \E w \in Slots : Committed(w) \/ req' = [req EXCEPT ![w] = Idle]
  PROVE  SlotsInv'
<1>1. ASSUME NEW w \in Slots, NEW reqs \in [Slots -> Req],
             \A v \in Slots : reqs[v].kind \in {req[v].kind, "idle"}, Disturb(reqs)
      PROVE  \A v \in Slots : req'[v].kind \in {req[v].kind, "idle"}
  BY <1>1, DisturbIs DEF SameReq
<1>2. \A v \in Slots : req'[v].kind \in {req[v].kind, "idle"}
  <2>1. ASSUME NEW w \in Slots
        PROVE  /\ [req EXCEPT ![w] = Idle] \in [Slots -> Req]
               /\ \A v \in Slots : [req EXCEPT ![w] = Idle][v].kind \in {req[v].kind, "idle"}
    BY IdleIs DEF ReqInv
  <2>2. CASE CommittedElsewhere
    BY <1>1, <2>2 DEF CommittedElsewhere, ReqInv
  <2>3. ASSUME NEW w \in Slots, Committed(w)
        PROVE  \A v \in Slots : req'[v].kind \in {req[v].kind, "idle"}
    BY <1>1, <2>1, <2>3 DEF Committed
  <2> QED
    BY <2>1, <2>2, <2>3
<1> QED
  BY <1>2 DEF SlotsInv, CredIdle

LEMMA SlotsInvStep == ReqInv /\ CredInv /\ SlotsInv /\ [Next]_vars => SlotsInv'
<1> SUFFICES ASSUME ReqInv, CredInv, SlotsInv, [Next]_vars PROVE SlotsInv'
  OBVIOUS
<1>1. Spend => used' \in 0..MaxRequests
  BY InventoryAssumption DEF Spend, SlotsInv
<1>2. used \in 0..MaxRequests
  BY DEF SlotsInv
<1>3. ASSUME NEW w \in Slots, NEW kind, NEW seen, NEW want, NEW inserts, NEW what,
             Begin(w, kind, seen, want, inserts, what)
      PROVE  SlotsInv'
  <2>1. credreq' = credreq /\ CredIdle(w) /\ used' \in 0..MaxRequests
    BY <1>1, <1>3 DEF Begin, Free, tables, credVars
  <2>2. \A v \in Slots : v # w => req'[v] = req[v]
    BY <1>3 DEF Begin, ReqInv
  <2> QED
    BY <2>1, <2>2 DEF SlotsInv, CredIdle
<1>4. ASSUME NEW w \in Slots,
             \/ \E form \in DeviceForms : CreateDevice(w, form)
             \/ \E d \in Devices, form \in DeviceForms : UpdateDevice(w, d, form)
             \/ \E ids \in SUBSET Devices, form \in BulkForms : ids # {} /\ BulkEdit(w, ids, form)
             \/ \E file \in ImportFiles : Import(w, file)
             \/ \E g \in Groups, form \in GroupForms : UpdateGroup(w, g, form)
             \/ \E j \in Jobs, form \in JobForms : UpdateJob(w, j, form)
      PROVE  SlotsInv'
  BY <1>3, <1>4 DEF CreateDevice, UpdateDevice, BulkEdit, Import, UpdateGroup, UpdateJob
<1>5. ASSUME NEW w \in Slots, DeviceCommit(w) \/ GroupCommit(w) \/ JobCommit(w) \/ RequestFails(w)
      PROVE  SlotsInv'
  <2>1. credreq' = credreq /\ used' = used
    BY <1>5 DEF DeviceCommit, GroupCommit, JobCommit, RequestFails, tables, credVars
  <2>2. Committed(w) \/ req' = [req EXCEPT ![w] = Idle]
    BY <1>5 DEF DeviceCommit, GroupCommit, JobCommit, RequestFails
  <2> QED
    BY <1>2, <2>1, <2>2, KindsStay
<1>6. ASSUME NEW w \in Slots, EditCred(w) PROVE SlotsInv'
  <2>1. /\ req[w].kind = "idle" /\ req' = req /\ used' \in 0..MaxRequests
        /\ \A v \in Slots : v # w => credreq'[v] = credreq[v]
    BY <1>1, <1>6 DEF EditCred, Free, CreateCred, UpdateCred, CredWrites, CredInv
  <2> QED
    BY <2>1 DEF SlotsInv, CredIdle
<1>7. ASSUME NEW w \in Slots, SaveCred(w) PROVE SlotsInv'
  <2>1. ~CredIdle(w) /\ used' = used
    BY <1>7 DEF SaveCred, ClearDefaults, CredRollback, CredCommit, CredIdle
  <2>2. \A v \in Slots : v # w => credreq'[v] = credreq[v]
    BY <1>7 DEF SaveCred, ClearDefaults, CredRollback, CredCommit, CredInv
  <2>3. req[w].kind = "idle"
    BY <2>1 DEF SlotsInv
  <2>4. \A v \in Slots : req'[v].kind = req[v].kind
    <3>1. CASE CommittedElsewhere
      BY <3>1, DisturbIs DEF CommittedElsewhere, ReqInv, SameReq
    <3> QED
      BY <1>7, <3>1 DEF SaveCred
  <2> QED
    BY <1>2, <2>1, <2>2, <2>3, <2>4 DEF SlotsInv, CredIdle
<1>8. ASSUME \/ \E g \in Groups, form \in GroupForms : CreateGroup(g, form)
             \/ \E ids \in SUBSET Devices : DeleteDevices(ids)
             \/ \E ids \in SUBSET Groups : DeleteGroups(ids)
             \/ \E c \in Creds : RemoveCred(c)
             \/ \E j \in Jobs, form \in JobForms : CreateJob(j, form)
             \/ \E ids \in SUBSET Jobs : DeleteJobs(ids)
             \/ \E p \in Platforms : CreatePlatform(p) \/ DeletePlatform(p)
      PROVE  SlotsInv'
  <2>1. Spend /\ CommittedElsewhere /\ credreq' = credreq
    BY <1>8 DEF CreateGroup, DeleteDevices, DeleteGroups, RemoveCred, DeleteCred, CreateJob,
       DeleteJobs, CreatePlatform, DeletePlatform, credVars
  <2> QED
    BY <1>1, <2>1, KindsStay
<1>9. ASSUME FireActs \/ UNCHANGED vars PROVE SlotsInv'
  <2>1. req' = req /\ credreq' = credreq /\ (used' = used \/ Spend)
    BY <1>9 DEF FireActs, FireBegin, FireCollect, FireFlush, FireDone, FireSpec, SessionEnds, vars, tables, credVars
  <2> QED
    BY <1>1, <1>2, <2>1, KindsStay
<1> QED
  BY <1>4, <1>5, <1>6, <1>7, <1>8, <1>9 DEF Next, FireActs

DispatchInv == StoredInv /\ SlotsInv /\ FireInv

LEMMA DispatchInvHolds == Spec => []DispatchInv
<1>1. Init => DispatchInv
  <2> SUFFICES ASSUME Init PROVE DispatchInv
    OBVIOUS
  <2>1. SlotsInv
    BY InventoryAssumption DEF Init, CredInit, SlotsInv, CredIdle, NoCredReq
  <2>2. SessionOK
    BY NoSessionOK DEF Init, SessionOK, NoFire, Fire
  <2>3. FireInv
    BY <2>2 DEF Init, FireInv, HeldIsStored, SpecsOK, Calling, NoFire, NoSession, NoRows
  <2> QED
    BY <2>1, <2>3, InitStoredInv DEF DispatchInv
<1>2. DispatchInv /\ [Next]_vars => DispatchInv'
  BY StoredInvStep, SlotsInvStep, FireInvStep DEF DispatchInv, StoredInv
<1> QED
  BY <1>1, <1>2, PTL DEF Spec

(* Every table holds rows of its columns, a browser has one request under  *)
(* way in a slot, and what a dispatch publishes carries a stored           *)
(* credential.                                                             *)
THEOREM TypeCorrect == Spec => []TypeOK
<1>1. DispatchInv => TypeOK
  BY DEF DispatchInv, StoredInv, CredInv, RowsInv, TablesOK, SlotsInv, FireInv, SpecsOK, TypeOK,
     CredCell, DeviceCell, GroupCell, JobCell
<1> QED
  BY <1>1, DispatchInvHolds, PTL

-----------------------------------------------------------------------------
(* What nobody touched since the session began is in it as it is stored.   *)

LEMMA UntouchedIs ==
  ASSUME StoredInv, FireInv, fire.at = "sending", fire.job \notin session.touched,
         NEW d \in Devices \ session.touched
  PROVE  /\ fire.job \in DOMAIN session.jobs /\ session.jobs[fire.job] = job[fire.job]
         /\ Exists(device[d]) => ViaGroups(d) = device[d].groups \cap job[fire.job].groups
         /\ d \in DOMAIN session.devices => session.devices[d] = device[d] /\ Exists(device[d])
<1>1. /\ session \in Session /\ Closed(session) /\ HeldIsStored /\ TargetsAreHeld
  BY DEF FireInv, SessionOK
<1>2. fire.job \in DOMAIN session.jobs /\ session.jobs[fire.job] = job[fire.job]
  BY <1>1 DEF HeldIsStored, TargetsAreHeld
<1>3. \A g \in job[fire.job].groups :
        d \in session.groups[g].devices <=> Exists(device[d]) /\ g \in device[d].groups
  BY <1>1, <1>2 DEF HeldIsStored, Closed
<1>4. Exists(device[d]) => ViaGroups(d) = device[d].groups \cap job[fire.job].groups
  BY <1>2, <1>3 DEF ViaGroups, Having
<1>5. d \in DOMAIN session.devices => session.devices[d] = device[d] /\ Exists(device[d])
  <2> SUFFICES ASSUME d \in DOMAIN session.devices
               PROVE  session.devices[d] = device[d] /\ Exists(device[d])
    OBVIOUS
  <2>1. session.devices[d] = device[d] /\ session.devices[d] \in DeviceRow
    BY <1>1, SessionIs DEF HeldIsStored
  <2> QED
    BY <2>1, ExistsIs DEF DeviceCell
<1> QED
  BY <1>2, <1>4, <1>5

(* Whatever is committed while a session makes its dispatches: a credential*)
(* nobody touched goes out as it is stored, and for a job and a device that*)
(* nobody touched, the device gets a job only if the job targets it, with  *)
(* its own credential and pool or those of one group that nobody touched   *)
(* (or of one that somebody did); and it gets one if the job targets it    *)
(* and a credential is set on it, on all its groups, or as the default.    *)
THEOREM DispatchUsesWhatIsAssigned == Spec => []JobsUseWhatIsAssigned
<1>1. DispatchInv => JobsUseWhatIsAssigned
  <2> SUFFICES ASSUME DispatchInv, fire.at = "sending" PROVE JobsUseWhatIsAssigned
    BY DEF JobsUseWhatIsAssigned
  <2> DEFINE touched == session.touched
             via(d)  == device[d].groups \cap job[fire.job].groups
             targeted(d) == device[d].enabled /\ (via(d) # {} \/ d \in job[fire.job].devices)
             Takes(s, c, pool) ==
               /\ s.pool = Given(device[s.device].pool, pool)
               /\ LET first == Given(device[s.device].cred, c) IN
                  \/ s.cred = first
                  \/ first = None /\ (s.cred \in touched \/ cred[s.cred].default)
  <2>1. /\ StoredInv /\ FireInv /\ SessionOK /\ Closed(session) /\ session \in Session
        /\ HeldIsStored /\ SpecsOK /\ CallIsStored /\ TargetsAreHeld /\ SpecsFollow
        /\ None \notin Creds
    BY CredentialsAssumption DEF DispatchInv, FireInv, SessionOK, Calling
  <2>2. \A s \in specs : s.cred \notin touched => s.material = cred[s.cred]
    BY <2>1 DEF SpecsFollow, Follows
  <2>3. ASSUME fire.job \notin touched, NEW s \in specs, s.device \notin touched
        PROVE  /\ targeted(s.device)
               /\ device[s.device].cred # None => s.cred = device[s.device].cred
               /\ IF via(s.device) = {} THEN Takes(s, None, None)
                  ELSE \E g \in via(s.device) :
                         g \in touched \/ Takes(s, group[g].cred, group[g].pool)
    <3>1. PICK d : d = s.device
      OBVIOUS
    <3>2. d \in DOMAIN fire.via /\ Follows(s)
      BY <2>1, <3>1 DEF SpecsFollow, Follows
    <3>3. /\ d \in Devices /\ d \notin touched /\ d \in DOMAIN session.devices
      BY <2>1, <2>3, <3>1, <3>2, TargetIs
    <3>4. /\ session.jobs[fire.job] = job[fire.job] /\ ViaGroups(d) = via(d)
          /\ session.devices[d] = device[d]
      BY <2>1, <2>3, <3>3, UntouchedIs
    <3>5. targeted(d)
      BY <2>1, <3>2, <3>4 DEF TargetsAreHeld
    <3>6. Own(d) = device[d].cred
      BY <3>4 DEF Own
    <3>7. device[d].cred # None => s.cred = device[d].cred
      BY <3>1, <3>2, <3>3, <3>6 DEF Follows
    <3>8. s.cred = fire.default => s.cred \in touched \/ cred[s.cred].default
      BY <2>1 DEF SpecsOK, CallIsStored
    <3>9. s.pool = Given(device[d].pool, IF fire.via[d] = None THEN None
                                         ELSE session.groups[fire.via[d]].pool)
      BY <3>1, <3>2, <3>4 DEF Follows, PoolOf
    <3>10. device[d].cred = None /\ Shared(d) = None => s.cred = fire.default
      BY <3>1, <3>2, <3>6 DEF Follows
    <3>11. CASE via(d) = {}
      <4>1. fire.via[d] = None /\ Shared(d) = None
        BY <2>1, <3>2, <3>4, <3>11 DEF TargetsAreHeld, Shared
      <4>2. s.pool = Given(device[d].pool, None)
        BY <3>9, <4>1
      <4>3. Given(device[d].cred, None) = device[d].cred
        BY DEF Given
      <4> QED
        BY <3>1, <3>5, <3>7, <3>8, <3>10, <3>11, <4>1, <4>2, <4>3
    <3>12. CASE via(d) # {}
      <4>1. fire.via[d] \in via(d)
        BY <2>1, <3>2, <3>4, <3>12 DEF TargetsAreHeld
      <4>2. PICK g : g = fire.via[d]
        OBVIOUS
      <4>3. g # None /\ g \in DOMAIN session.groups /\ Shared(d) = session.groups[g].cred
        <5>1. None \notin Groups /\ (fire.via[d] = None => ViaGroups(d) = {})
          BY <2>1, <3>2, InventoryAssumption, TargetIs
        <5> QED
          BY <2>1, <3>2, <3>4, <3>12, <4>2, <5>1, TargetIs
      <4>4. CASE g \in touched
        BY <3>1, <3>5, <3>7, <3>12, <4>1, <4>2, <4>4
      <4>5. CASE g \notin touched
        <5>1. session.groups[g].cred = group[g].cred /\ session.groups[g].pool = group[g].pool
          BY <2>1, <4>3, <4>5 DEF HeldIsStored
        <5>2. s.pool = Given(device[d].pool, group[g].pool)
          BY <3>9, <4>2, <4>3, <5>1
        <5>3. device[d].cred = None /\ group[g].cred # None => s.cred = group[g].cred
          BY <3>1, <3>2, <3>6, <4>2, <4>3, <4>5, <5>1 DEF Follows
        <5>4. Given(device[d].cred, group[g].cred) =
                IF device[d].cred = None THEN group[g].cred ELSE device[d].cred
          BY DEF Given
        <5>5. Takes(s, group[g].cred, group[g].pool)
          BY <3>1, <3>7, <3>8, <3>10, <4>3, <5>1, <5>2, <5>3, <5>4
        <5> QED
          BY <3>1, <3>5, <3>7, <3>12, <4>1, <4>2, <5>5
      <4> QED
        BY <4>4, <4>5
    <3> QED
      BY <3>11, <3>12
  <2>4. ASSUME fire.job \notin touched, fire.left = {}, NEW d \in Present(device) \ touched,
               targeted(d),
               \/ device[d].cred # None \/ Defaults \ touched # {}
               \/ via(d) # {} /\ \A g \in via(d) : g \notin touched /\ group[g].cred # None
        PROVE  \E s \in specs : s.device = d
    <3>1. d \in Devices /\ d \notin touched /\ Exists(device[d])
      BY <2>1, <2>4 DEF Present, StoredInv, RowsInv, TablesOK
    <3>2. /\ fire.job \in DOMAIN session.jobs /\ session.jobs[fire.job] = job[fire.job]
          /\ ViaGroups(d) = via(d)
          /\ d \in DOMAIN session.devices => session.devices[d] = device[d]
      BY <2>1, <2>4, <3>1, UntouchedIs
    <3>3. d \in DOMAIN session.devices
      BY <2>1, <2>4, <3>2 DEF Closed, ViaGroups, Having
    <3>4. d \in DOMAIN fire.via
      BY <2>1, <2>4, <3>2, <3>3 DEF TargetsAreHeld
    <3>5. Own(d) = device[d].cred
      BY <3>2, <3>3 DEF Own
    <3> SUFFICES ASSUME Unserved(d) PROVE FALSE
      BY <2>1, <2>4, <3>4 DEF SpecsFollow
    <3>6. device[d].cred = None
      BY <3>1, <3>5 DEF Unserved
    <3>7. Defaults \ touched = {}
      <4>1. \A c \in Defaults \ touched : fire.default = c /\ c \in Creds
        BY <2>1 DEF CallIsStored, Defaults, DefaultsOf, Present, StoredInv, CredInv
      <4> QED
        BY <2>1, <4>1 DEF Unserved
    <3>8. via(d) # {} /\ \A g \in via(d) : g \notin touched /\ group[g].cred # None
      BY <2>4, <3>6, <3>7
    <3>9. fire.via[d] \in via(d)
      BY <2>1, <3>2, <3>4, <3>8 DEF TargetsAreHeld
    <3>10. /\ fire.via[d] \in DOMAIN session.groups
           /\ Shared(d) = session.groups[fire.via[d]].cred
      BY <2>1, <3>2, <3>4, <3>8, TargetIs
    <3>11. Shared(d) = group[fire.via[d]].cred
      BY <2>1, <3>8, <3>9, <3>10 DEF HeldIsStored
    <3> QED
      BY <3>8, <3>9, <3>11 DEF Unserved
  <2> HIDE DEF targeted, via, Takes
  <2> QED
    BY <2>2, <2>3, <2>4 DEF JobsUseWhatIsAssigned, targeted, via, Takes
<1> QED
  BY <1>1, DispatchInvHolds, PTL
=============================================================================
