------------------------------ MODULE Inventory ------------------------------
(***************************************************************************)
(* Devices, groups, jobs, and what fire_job makes of them.                 *)
(*                                                                         *)
(* Administrators edit devices one by one, in bulk or by CSV import, edit  *)
(* groups, jobs and credentials, and delete any of them, in several web    *)
(* processes; meanwhile jobs are dispatched, several in one session when   *)
(* the scheduler finds them due in one tick, and their rows are read one   *)
(* query at a time.  A handler reads, computes and commits: the columns    *)
(* that differ from what it read are written, memberships are inserted and *)
(* deleted one by one, and PostgreSQL refuses a duplicate name, a          *)
(* duplicate membership and a reference to nothing.                        *)
(*                                                                         *)
(* worker_pool stands for the columns that may be blank (port, make, role  *)
(* ...), which follow its rule except in a bulk edit, where a blank leaves *)
(* them as they are.  A group is known by its name.                        *)
(***************************************************************************)
EXTENDS Credentials, Sequences, Functions

CONSTANTS
  Devices, Groups, Jobs, Platforms,                    \* ids, never used twice
  Names,                                               \* names of devices
  DeviceTable, GroupTable, JobTable, PlatformTable,    \* the rows the model starts from
  DeviceForms, BulkForms, ImportFiles, GroupForms, JobForms,  \* what administrators send
  Keep,         \* "(no change)"
  MaxRequests   \* bound: requests and dispatches

VARIABLES
  device,   \* devices and their memberships, as committed
  group,    \* device_groups, as committed
  job,      \* jobs and what they target, as committed
  platform, \* the custom platforms, as committed
  req,      \* the device or group request in each slot
  fire,     \* the fire_job call in progress
  session,  \* the objects its session holds, and the runs it has inserted
  specs,    \* the jobs the call has published
  used      \* how much of MaxRequests has been used

tables == <<credVars, device, group, job, platform>>
vars == <<tables, req, fire, session, specs, used>>

Pool      == {None, "pool"}
CredId    == {None} \cup Creds
DeviceRow == [name : Names, pool : Pool, builtin : {None, "ios"},
              custom : {None} \cup Platforms, cred : CredId,
              enabled : BOOLEAN, groups : SUBSET Groups]
GroupRow  == [cred : CredId, pool : Pool]
JobRow    == [groups : SUBSET Groups, devices : SUBSET Devices]

\* What the select of a form offers, and the fields of a form or of a line.
Pick       == {None} \cup [kind : {"builtin"}, name : {"ios"}]
              \cup [kind : {"custom"}, name : Platforms]
DeviceForm == [name : Names, pool : Pool, platform : Pick, cred : CredId,
               enabled : BOOLEAN, groups : SUBSET Groups]
BulkForm   == [pool : {Keep} \cup Pool, cred : {Keep} \cup CredId, enabled : {Keep} \cup BOOLEAN,
               group : {None} \cup Groups, platform : {Keep} \cup Pick]
ImportLine == [name : Names, pool : Pool, platform : {None, "ios"}, cred : CredId,
               enabled : {Keep} \cup BOOLEAN, groups : SUBSET Groups, parses : BOOLEAN]

UniqueNames(table) ==
  \A d, e \in Present(table) : table[d].name = table[e].name => d = e

\* What the foreign keys say: a row refers to rows that are there.
References(devices, groups, jobs, creds, platforms) ==
  /\ \A d \in Present(devices) : /\ devices[d].groups \subseteq Present(groups)
                                 /\ devices[d].cred \in {None} \cup Present(creds)
                                 /\ devices[d].custom \in {None} \cup Present(platforms)
  /\ \A g \in Present(groups) : groups[g].cred \in {None} \cup Present(creds)
  /\ \A j \in Present(jobs) : /\ jobs[j].groups \subseteq Present(groups)
                              /\ jobs[j].devices \subseteq Present(devices)

\* The rows the model starts from, and what a browser can send.
ASSUME InventoryAssumption ==
  /\ MaxRequests \in Nat
  /\ IsFiniteSet(Groups) /\ None \notin Groups
  /\ \A absent \in {Fresh, Gone} : /\ absent \notin DeviceRow /\ absent \notin GroupRow
                                   /\ absent \notin JobRow /\ absent # "defined"
  /\ DeviceTable \in [Devices -> DeviceRow \cup {Fresh, Gone}]
  /\ GroupTable \in [Groups -> GroupRow \cup {Fresh, Gone}]
  /\ JobTable \in [Jobs -> JobRow \cup {Fresh, Gone}]
  /\ PlatformTable \in [Platforms -> {"defined", Fresh, Gone}]
  /\ UniqueNames(DeviceTable)
  /\ References(DeviceTable, GroupTable, JobTable, CredTable, PlatformTable)
  /\ DeviceForms \subseteq DeviceForm /\ BulkForms \subseteq BulkForm
  /\ GroupForms \subseteq GroupRow /\ JobForms \subseteq JobRow
  /\ ImportFiles \subseteq Seq(ImportLine)

NoRows          == [d \in {} |-> None]
Row(id, row)    == [d \in {id} |-> row]

Idle   == [kind |-> "idle", quiet |-> TRUE]
NoFire == [at |-> "idle"]

\* runs: the devices whose run rows are inserted and not committed; touched:
\* the rows that others have committed since the session began.
NoSession == [creds |-> NoRows, devices |-> NoRows, groups |-> NoRows, jobs |-> NoRows,
              platforms |-> {}, runs |-> {}, touched |-> {}]

Init ==
  /\ CredInit
  /\ device = DeviceTable
  /\ group = GroupTable
  /\ job = JobTable
  /\ platform = PlatformTable
  /\ req = [w \in Slots |-> Idle]
  /\ fire = NoFire
  /\ session = NoSession
  /\ specs = {}
  /\ used = 0

Free(w) == req[w].kind = "idle" /\ CredIdle(w)
Spend   == used < MaxRequests /\ used' = used + 1

Changed ==
  {d \in Devices : device'[d] # device[d]} \cup {g \in Groups : group'[g] # group[g]}
  \cup {j \in Jobs : job'[j] # job[j]} \cup {c \in Creds : cred'[c] # cred[c]}

\* Somebody else commits while these requests and this session are under way.
Disturb(reqs) ==
  /\ req' = [w \in Slots |-> [reqs[w] EXCEPT !.quiet = reqs[w].kind = "idle"]]
  /\ fire' = fire
  /\ session' = IF fire.at = "idle" THEN session
                ELSE [session EXCEPT !.touched = @ \cup Changed]
Committed(w)       == Disturb([req EXCEPT ![w] = Idle])
CommittedElsewhere == Disturb(req)

-----------------------------------------------------------------------------
(* The rows that the handlers compute.                                     *)

\* A mutant of ApplyPlatform: picking a built-in platform leaves the custom one.
ApplyPlatformLeavesCustom(row, pick) ==
  [row EXCEPT
     !.builtin = IF pick # None /\ pick.kind = "builtin" THEN pick.name ELSE None,
     !.custom  = IF pick # None /\ pick.kind = "builtin" THEN @
                 ELSE IF pick # None THEN pick.name ELSE None]

ApplyPlatform(row, pick) ==
  [name |-> row.name, pool |-> row.pool,
   builtin |-> IF pick # None /\ pick.kind = "builtin" THEN pick.name ELSE None,
   custom |-> IF pick # None /\ pick.kind = "custom" THEN pick.name ELSE None,
   cred |-> row.cred, enabled |-> row.enabled, groups |-> row.groups]

\* A row that has not been stored yet.
Unset == [builtin |-> None, cred |-> None, custom |-> None]

\* create_device and update_device: every field of the form is written.
FormRow(row, form) ==
  ApplyPlatform([name |-> form.name, pool |-> form.pool, builtin |-> row.builtin,
                 custom |-> row.custom, cred |-> form.cred, enabled |-> form.enabled,
                 groups |-> form.groups \cap Present(group)], form.platform)

Kept(cell, old)  == IF cell = Keep THEN old ELSE cell
Given(cell, old) == IF cell = None THEN old ELSE cell

BulkRow(row, form) ==
  LET edited ==
        [name |-> row.name, pool |-> Kept(form.pool, row.pool),
         builtin |-> row.builtin, custom |-> row.custom,
         cred |-> Kept(form.cred, row.cred), enabled |-> Kept(form.enabled, row.enabled),
         groups |-> row.groups \cup ({form.group} \cap Present(group))]
  IN IF form.platform = Keep THEN edited ELSE ApplyPlatform(edited, form.platform)

\* A mutant of ImportedRow: a blank cell clears the column.
ImportedRowOverwrites(row, line) ==
  [row EXCEPT !.pool = line.pool, !.builtin = Given(line.platform, @),
              !.cred = line.cred, !.enabled = Kept(line.enabled, @),
              !.groups = @ \cup line.groups]

\* A mutant of NewRow: a blank cell is stored as it is.
NewRowBlank(line) ==
  [name |-> line.name, pool |-> line.pool, builtin |-> line.platform, custom |-> None,
   cred |-> line.cred, enabled |-> line.enabled, groups |-> line.groups]

\* The update branch of import_csv.  It does not touch custom_platform_id.
ImportedRow(row, line) ==
  [name |-> row.name, pool |-> Given(line.pool, row.pool),
   builtin |-> Given(line.platform, row.builtin), custom |-> row.custom,
   cred |-> Given(line.cred, row.cred), enabled |-> Kept(line.enabled, row.enabled),
   groups |-> row.groups \cup line.groups]

NewRow(line) ==
  [name |-> line.name, pool |-> line.pool, builtin |-> line.platform, custom |-> None,
   cred |-> line.cred, enabled |-> Kept(line.enabled, TRUE), groups |-> line.groups]

\* A line is refused for a duplicate name in the file, no group, an unknown
\* group or credential, or a cell that does not parse.
LineOK(file, i) ==
  LET line == file[i] IN
  /\ line.parses
  /\ \A j \in 1..(i - 1) : file[j].name # line.name
  /\ line.groups # {} /\ line.groups \subseteq Present(group)
  /\ line.cred \in {None} \cup Present(cred)

-----------------------------------------------------------------------------
(* The requests.  seen: the rows read; want: the same rows as edited;      *)
(* inserts: the rows to be inserted.                                       *)

\* _apply_job_data: what it targets; the rest of the row goes into the message.
JobRowOf(form) == [groups |-> form.groups \cap Present(group),
                   devices |-> form.devices \cap Present(device)]

Begin(w, kind, seen, want, inserts, what) ==
  /\ Free(w)
  /\ Spend
  /\ req' = [req EXCEPT ![w] = [kind |-> kind, seen |-> seen, want |-> want,
                                inserts |-> inserts, what |-> what, quiet |-> TRUE]]
  /\ UNCHANGED <<tables, fire, session, specs>>

CreateDevice(w, form) ==
  Begin(w, "create", NoRows, NoRows, {FormRow(Unset, form)}, form)

UpdateDevice(w, d, form) ==
  /\ Exists(device[d])
  /\ Begin(w, "update", Row(d, device[d]), Row(d, FormRow(device[d], form)), {}, form)

BulkEdit(w, ids, form) ==
  LET found == ids \cap Present(device) IN
  Begin(w, "bulk", Restrict(device, found),
        [d \in found |-> BulkRow(device[d], form)], {}, form)

\* A mutant of Accepted: the good lines of a file are imported without the bad.
AcceptedLines(file) == {i \in DOMAIN file : LineOK(file, i)}

\* The lines imported: all of them, or none.
Accepted(file) ==
  IF \A i \in DOMAIN file : LineOK(file, i) THEN DOMAIN file ELSE {}

\* import_csv reads the three tables, then edits what it found by name.
Import(w, file) ==
  LET lines   == {file[i] : i \in Accepted(file)}
      named   == {d \in Present(device) : \E line \in lines : line.name = device[d].name}
      LineFor(d) == CHOOSE line \in lines : line.name = device[d].name
  IN /\ lines # {}
     /\ Begin(w, "import", Restrict(device, named),
           [d \in named |-> ImportedRow(device[d], LineFor(d))],
              {NewRow(line) : line \in {l \in lines : \A d \in named : device[d].name # l.name}},
              file)

UpdateGroup(w, g, form) ==
  /\ Exists(group[g])
  /\ Begin(w, "group", Row(g, group[g]), Row(g, form), {}, form)

UpdateJob(w, j, form) ==
  /\ Exists(job[j])
  /\ Begin(w, "job", Row(j, job[j]), Row(j, JobRowOf(form)), {}, form)

-----------------------------------------------------------------------------
(* Their commits.                                                          *)

\* The rows of an association are inserted and deleted one by one.
LinkConflict(seen, want, now, present) ==
  \/ (want \ seen) \cap now # {} \/ ~(seen \ want \subseteq now)
  \/ ~(want \ seen \subseteq present)
Linked(seen, want, now) == (now \cup (want \ seen)) \ (seen \ want)

MergedDevice(r, d) ==
  [Merged(device[d], r.seen[d], r.want[d]) EXCEPT
     !.groups = Linked(r.seen[d].groups, r.want[d].groups, device[d].groups)]

\* The rows after the commit, the inserted ones under new ids.
DevicesAfter(r, idOf) ==
  [d \in Devices |->
     IF d \in DOMAIN r.want /\ Exists(device[d]) THEN MergedDevice(r, d)
     ELSE IF \E row \in r.inserts : idOf[row] = d
       THEN CHOOSE row \in r.inserts : idOf[row] = d
     ELSE device[d]]

\* An UPDATE finds its row gone, or a membership is not as it was read.
LostRow(r, d) ==
  IF Exists(device[d])
    THEN LinkConflict(r.seen[d].groups, r.want[d].groups, device[d].groups, Present(group))
    ELSE r.want[d] # r.seen[d]

Dangling(row, old) ==
  \/ row.cred # old.cred /\ row.cred \notin {None} \cup Present(cred)
  \/ row.custom # old.custom /\ row.custom \notin {None} \cup Present(platform)

\* A mutant of DeviceConflict: nothing says that a name is used once.
DeviceConflictTwoNames(r, idOf) ==
  \/ \E d \in DOMAIN r.want : LostRow(r, d) \/ Dangling(r.want[d], r.seen[d])
  \/ \E row \in r.inserts : ~(row.groups \subseteq Present(group)) \/ Dangling(row, Unset)

DeviceConflict(r, idOf) ==
  \/ \E d \in DOMAIN r.want : LostRow(r, d) \/ Dangling(r.want[d], r.seen[d])
  \/ \E row \in r.inserts : ~(row.groups \subseteq Present(group)) \/ Dangling(row, Unset)
  \/ ~UniqueNames(DevicesAfter(r, idOf))

NewIds(r) ==
  {f \in [r.inserts -> {d \in Devices : device[d] = Fresh}] : IsInjective(f)}

DeviceKinds == {"create", "update", "bulk", "import"}

DeviceCommit(w) ==
  /\ req[w].kind \in DeviceKinds
  /\ \E idOf \in NewIds(req[w]) : /\ ~DeviceConflict(req[w], idOf)
                                  /\ device' = DevicesAfter(req[w], idOf)
  /\ UNCHANGED <<credVars, group, job, platform, specs, used>>
  /\ Committed(w)

GroupConflict(r, g) ==
  \/ ~Exists(group[g]) /\ r.want[g] # r.seen[g]
  \/ r.want[g].cred # r.seen[g].cred /\ r.want[g].cred \notin {None} \cup Present(cred)

GroupCommit(w) ==
  /\ req[w].kind = "group"
  /\ \E g \in DOMAIN req[w].want :
       /\ ~GroupConflict(req[w], g)
       /\ group' = IF Exists(group[g])
                     THEN [group EXCEPT ![g] = Merged(@, req[w].seen[g], req[w].want[g])]
                     ELSE group
  /\ UNCHANGED <<credVars, device, job, platform, specs, used>>
  /\ Committed(w)

JobConflict(r, j) ==
  IF Exists(job[j])
    THEN \/ LinkConflict(r.seen[j].groups, r.want[j].groups, job[j].groups, Present(group))
         \/ LinkConflict(r.seen[j].devices, r.want[j].devices, job[j].devices, Present(device))
    ELSE r.want[j] # r.seen[j]

JobCommit(w) ==
  /\ req[w].kind = "job"
  /\ \E j \in DOMAIN req[w].want :
       LET seen == req[w].seen[j]
           want == req[w].want[j]
       IN /\ ~JobConflict(req[w], j)
          /\ job' = IF Exists(job[j])
               THEN [job EXCEPT ![j] = [groups |-> Linked(seen.groups, want.groups, @.groups),
                                        devices |-> Linked(seen.devices, want.devices, @.devices)]]
               ELSE job
  /\ UNCHANGED <<credVars, device, group, platform, specs, used>>
  /\ Committed(w)

\* The commit raises; the transaction is rolled back.
RequestFails(w) ==
  /\ \/ /\ req[w].kind \in DeviceKinds
        /\ \E idOf \in NewIds(req[w]) : DeviceConflict(req[w], idOf)
     \/ /\ req[w].kind = "group"
        /\ \E g \in DOMAIN req[w].want : GroupConflict(req[w], g)
     \/ /\ req[w].kind = "job"
        /\ \E j \in DOMAIN req[w].want : JobConflict(req[w], j)
  /\ req' = [req EXCEPT ![w] = Idle]
  /\ UNCHANGED <<tables, fire, session, specs, used>>

-----------------------------------------------------------------------------
(* Handlers that carry nothing from a read to their write.                 *)

CreateGroup(g, form) ==
  /\ group[g] = Fresh
  /\ Spend
  /\ form.cred \in {None} \cup Present(cred)
  /\ group' = [group EXCEPT ![g] = form]
  /\ UNCHANGED <<credVars, device, job, platform, specs>>
  /\ CommittedElsewhere

\* The run rows of a session hold their devices until it commits.
DeleteDevices(ids) ==
  /\ ids # {} /\ ids \subseteq Present(device) \ session.runs
  /\ Spend
  /\ device' = [d \in Devices |-> IF d \in ids THEN Gone ELSE device[d]]
  /\ job' = [j \in Jobs |-> IF Exists(job[j]) THEN [job[j] EXCEPT !.devices = @ \ ids] ELSE job[j]]
  /\ UNCHANGED <<credVars, group, platform, specs>>
  /\ CommittedElsewhere

\* ON DELETE CASCADE of the memberships.
DeleteGroups(ids) ==
  /\ ids # {} /\ ids \subseteq Present(group)
  /\ Spend
  /\ group' = [g \in Groups |-> IF g \in ids THEN Gone ELSE group[g]]
  /\ device' = [d \in Devices |-> IF Exists(device[d])
                                    THEN [device[d] EXCEPT !.groups = @ \ ids] ELSE device[d]]
  /\ job' = [j \in Jobs |-> IF Exists(job[j]) THEN [job[j] EXCEPT !.groups = @ \ ids] ELSE job[j]]
  /\ UNCHANGED <<credVars, platform, specs>>
  /\ CommittedElsewhere

CreateJob(j, form) ==
  /\ job[j] = Fresh
  /\ Spend
  /\ job' = [job EXCEPT ![j] = JobRowOf(form)]
  /\ UNCHANGED <<credVars, device, group, platform, specs>>
  /\ CommittedElsewhere

DeleteJobs(ids) ==
  /\ ids # {} /\ ids \subseteq Present(job)
  /\ Spend
  /\ job' = [j \in Jobs |-> IF j \in ids THEN Gone ELSE job[j]]
  /\ UNCHANGED <<credVars, device, group, platform, specs>>
  /\ CommittedElsewhere

CreatePlatform(p) ==
  /\ platform[p] = Fresh
  /\ Spend
  /\ platform' = [platform EXCEPT ![p] = "defined"]
  /\ UNCHANGED <<credVars, device, group, job, specs>>
  /\ CommittedElsewhere

\* ON DELETE SET NULL of custom_platform_id.
DeletePlatform(p) ==
  /\ Exists(platform[p])
  /\ Spend
  /\ platform' = [platform EXCEPT ![p] = Gone]
  /\ device' = [d \in Devices |-> IF Exists(device[d]) /\ device[d].custom = p
                                    THEN [device[d] EXCEPT !.custom = None] ELSE device[d]]
  /\ UNCHANGED <<credVars, group, job, specs>>
  /\ CommittedElsewhere

\* ON DELETE SET NULL of credential_id and default_credential_id.
Unassigned(table, c) ==
  [id \in DOMAIN table |-> IF Exists(table[id]) /\ table[id].cred = c
                             THEN [table[id] EXCEPT !.cred = None] ELSE table[id]]

RemoveCred(c) ==
  /\ Spend
  /\ DeleteCred(c)
  /\ device' = Unassigned(device, c)
  /\ group' = Unassigned(group, c)
  /\ UNCHANGED <<job, platform, specs>>
  /\ CommittedElsewhere

SaveCred(w) ==
  /\ \/ ClearDefaults(w) \/ CredRollback(w)
     \/ CredCommit(w)
  /\ UNCHANGED <<device, group, job, platform, specs, used>>
  /\ IF cred' = cred THEN UNCHANGED <<req, fire, session>> ELSE CommittedElsewhere

EditCred(w) ==
  /\ Free(w)
  /\ Spend
  /\ \E c \in Creds, form \in CredForms : CreateCred(w, c, form) \/ UpdateCred(w, c, form)
  /\ UNCHANGED <<device, group, job, platform, req, fire, session, specs>>

-----------------------------------------------------------------------------
(* fire_job: it reads the default credential, then the targets, inserts    *)
(* the runs, and loads each credential when it builds the job that needs   *)
(* it.  An object once loaded is not read again, by the calls that follow  *)
(* in the session either: a tick of the scheduler makes several.           *)

Loading(held, table, ids) ==
  [id \in DOMAIN held \cup ids |-> IF id \in DOMAIN held THEN held[id] ELSE table[id]]

\* The first call of a session, or another one, of the schedules due in a tick.
FireBegin(j) ==
  /\ fire.at \in {"idle", "returned"}
  /\ Exists(job[j]) \/ j \in DOMAIN session.jobs
  /\ Spend
  /\ \E default \in (IF Defaults = {} THEN {None} ELSE Defaults) :
       fire' = [at |-> "started", job |-> j, default |-> default,
                row |-> IF default = None THEN None
                        ELSE IF default \in DOMAIN session.creds THEN session.creds[default]
                        ELSE cred[default]]
  /\ specs' = {}
  /\ UNCHANGED <<tables, req, session>>

\* A job deleted since has no target left.
TargetsOf(j) == IF Exists(job[j]) THEN job[j] ELSE [groups |-> {}, devices |-> {}]

\* A group as job.device_groups loads it, with its collection of devices.
GroupObject(g) == [cred |-> group[g].cred, pool |-> group[g].pool,
                   devices |-> {d \in Present(device) : g \in device[d].groups}]

\* The group a device is targeted through is the first that has it, in an
\* order the database chooses; None for a device the job names itself.
Targets(order, named, groups, devices) ==
  LET Has(d)   == {i \in DOMAIN order : d \in groups[order[i]].devices}
      targeted == {d \in DOMAIN devices : devices[d].enabled /\ (Has(d) # {} \/ d \in named)}
  IN [d \in targeted |->
        IF Has(d) = {} THEN None
        ELSE order[CHOOSE i \in Has(d) : \A j \in Has(d) : i <= j]]

FireCollect ==
  LET jobs    == Loading(session.jobs, [j \in Jobs |-> TargetsOf(j)], {fire.job})
      target  == jobs[fire.job]
      groups  == Loading(session.groups, [g \in target.groups |-> GroupObject(g)], target.groups)
      devices == Loading(session.devices, device,
                         target.devices \cup UNION {groups[g].devices : g \in target.groups})
  IN /\ fire.at = "started"
     /\ \E order \in {f \in [1..Cardinality(target.groups) -> target.groups] : IsInjective(f)} :
          fire' = [at |-> "collected", job |-> fire.job, default |-> fire.default,
                   row |-> fire.row, via |-> Targets(order, target.devices, groups, devices)]
     /\ session' = [creds |-> session.creds, devices |-> devices, groups |-> groups,
                    jobs |-> jobs, platforms |-> session.platforms, runs |-> session.runs,
                    touched |-> session.touched]
     /\ UNCHANGED <<tables, req, specs, used>>

\* The runs are flushed; a device deleted meanwhile makes the INSERT fail, and
\* then nothing more can be done in the session.
FireFlush ==
  /\ fire.at = "collected"
  /\ IF DOMAIN fire.via \subseteq Present(device)
       THEN /\ fire' = [at |-> "sending", job |-> fire.job, default |-> fire.default,
                        row |-> fire.row, via |-> fire.via, left |-> DOMAIN fire.via]
            /\ session' = [session EXCEPT !.runs = @ \cup DOMAIN fire.via]
       ELSE fire' = NoFire /\ session' = NoSession
  /\ UNCHANGED <<tables, req, specs, used>>

\* The default's object is held by the call, the others by the devices and
\* groups that have loaded them.
Loaded(c) ==
  IF c \in DOMAIN session.creds THEN session.creds[c]
  ELSE IF c = fire.default THEN fire.row ELSE cred[c]

Own(d)    == session.devices[d].cred
Shared(d) == IF fire.via[d] = None THEN None ELSE session.groups[fire.via[d]].cred

\* device.credential, group.default_credential, default_cred; a credential
\* deleted since its id was read loads as None.
Candidates(d) == <<Own(d), Shared(d), fire.default>>

\* A mutant of Chosen: the group's credential before the device's own.
ChosenGroupFirst(d) ==
  LET found == {i \in 1..3 : Candidates(d)[i] # None /\ Exists(Loaded(Candidates(d)[i]))}
      order == <<2, 1, 3>>
      sorted == {i \in 1..3 : order[i] \in found}
  IN IF found = {} THEN None
     ELSE Candidates(d)[order[CHOOSE i \in sorted : \A j \in sorted : i <= j]]

Chosen(d) ==
  LET found == {i \in 1..3 : Candidates(d)[i] # None /\ Exists(Loaded(Candidates(d)[i]))}
  IN IF found = {} THEN None ELSE Candidates(d)[CHOOSE i \in found : \A j \in found : i <= j]

\* The custom platform of a row, if it is loaded or can still be.
CustomOf(row) == {row.custom} \cap (session.platforms \cup Present(platform))

SpecFor(d, c) ==
  LET row == session.devices[d]
      via == fire.via[d]
  IN [device |-> d, cred |-> c, material |-> Loaded(c),
      pool |-> IF row.pool # None \/ via = None THEN row.pool ELSE session.groups[via].pool,
      platform |-> IF CustomOf(row) # {} THEN row.custom ELSE row.builtin]

Sent(d) ==
  [at |-> "sending", job |-> fire.job, default |-> fire.default, row |-> fire.row,
   via |-> fire.via, left |-> fire.left \ {d}]

\* The session once the credential of d is loaded, and these platforms.
Holding(d, platforms) ==
  [creds |-> Loading(session.creds, [c \in {Chosen(d)} |-> Loaded(c)],
                     {Chosen(d)} \cap {Own(d), Shared(d)}),
   devices |-> session.devices, groups |-> session.groups, jobs |-> session.jobs,
   platforms |-> session.platforms \cup platforms, runs |-> session.runs,
   touched |-> session.touched]

Returned == [at |-> "returned"]

\* One turn of the loop of fire_job; without a credential the run fails, and
\* one that cannot be resolved ends the call.
FireSpec(d) ==
  LET c == Chosen(d) IN
  /\ fire.at = "sending" /\ d \in fire.left
  /\ \/ /\ c = None
        /\ fire' = Sent(d)
        /\ UNCHANGED <<session, specs>>
     \/ /\ c # None /\ TRUE \in Resolves(Loaded(c))
        /\ fire' = Sent(d)
        /\ session' = Holding(d, CustomOf(session.devices[d]))
        /\ specs' = specs \cup {SpecFor(d, c)}
     \/ /\ c # None /\ FALSE \in Resolves(Loaded(c))
        /\ fire' = Returned
        /\ session' = Holding(d, {})
        /\ specs' = specs
  /\ UNCHANGED <<tables, req, used>>

FireDone ==
  /\ fire.at = "sending" /\ fire.left = {}
  /\ fire' = Returned
  /\ UNCHANGED <<tables, req, session, specs, used>>

\* The tick, or the request, commits and closes its session.
SessionEnds ==
  /\ fire.at = "returned"
  /\ fire' = NoFire
  /\ session' = NoSession
  /\ UNCHANGED <<tables, req, specs, used>>

-----------------------------------------------------------------------------
Next ==
  \/ \E w \in Slots :
       \/ \E form \in DeviceForms : CreateDevice(w, form)
       \/ \E d \in Devices, form \in DeviceForms : UpdateDevice(w, d, form)
       \/ \E ids \in SUBSET Devices, form \in BulkForms : ids # {} /\ BulkEdit(w, ids, form)
       \/ \E file \in ImportFiles : Import(w, file)
       \/ \E g \in Groups, form \in GroupForms : UpdateGroup(w, g, form)
       \/ \E j \in Jobs, form \in JobForms : UpdateJob(w, j, form)
       \/ DeviceCommit(w) \/ GroupCommit(w) \/ JobCommit(w) \/ RequestFails(w)
       \/ EditCred(w) \/ SaveCred(w)
  \/ \E g \in Groups, form \in GroupForms : CreateGroup(g, form)
  \/ \E ids \in SUBSET Devices : DeleteDevices(ids)
  \/ \E ids \in SUBSET Groups : DeleteGroups(ids)
  \/ \E c \in Creds : RemoveCred(c)
  \/ \E j \in Jobs, form \in JobForms : CreateJob(j, form)
  \/ \E ids \in SUBSET Jobs : DeleteJobs(ids)
  \/ \E p \in Platforms : CreatePlatform(p) \/ DeletePlatform(p)
  \/ \E j \in Jobs : FireBegin(j)
  \/ FireCollect \/ FireFlush \/ FireDone \/ SessionEnds
  \/ \E d \in Devices : FireSpec(d)

Spec == Init /\ [][Next]_vars

-----------------------------------------------------------------------------
(* Properties.                                                             *)

TypeOK ==
  /\ cred \in [Creds -> CredRow \cup {Fresh, Gone}]
  /\ device \in [Devices -> DeviceRow \cup {Fresh, Gone}]
  /\ group \in [Groups -> GroupRow \cup {Fresh, Gone}]
  /\ job \in [Jobs -> JobRow \cup {Fresh, Gone}]
  /\ platform \in [Platforms -> {"defined", Fresh, Gone}]
  /\ used \in 0..MaxRequests
  /\ \A w \in Slots : CredIdle(w) \/ req[w].kind = "idle"
  /\ \A s \in specs : s.cred \in Creds /\ s.material \in CredRow

\* Whatever overlaps, a device name is one device's, one credential at most is
\* the default, and no device, group or job refers to a row that was deleted,
\* even while the request that refers to it was under way.
RowsAreConsistent ==
  /\ AtMostOneDefault
  /\ UniqueNames(device)
  /\ References(device, group, job, cred, platform)

\* The request of slot w commits something in this step.
Commits(w, kind) == req[w].kind = kind /\ req'[w].kind = "idle" /\ device' # device

\* Each column is as it was or, where that is not blank, as in the line.
OnlyAdds(old, new, line) ==
  /\ new.name = old.name /\ new.custom = old.custom
  /\ old.groups \subseteq new.groups /\ new.groups \subseteq old.groups \cup line.groups
  /\ new.pool \in {old.pool, Given(line.pool, old.pool)}
  /\ new.builtin \in {old.builtin, Given(line.platform, old.builtin)}
  /\ new.cred \in {old.cred, Given(line.cred, old.cred)}
  /\ new.enabled \in {old.enabled, Kept(line.enabled, old.enabled)}

\* "Only non-blank cells overwrite existing values", groups are added and none
\* is removed, and devices that are not in the file are left alone, whatever
\* was committed since the import read them.
ImportTakesNothingAway ==
  [][\A w \in Slots : Commits(w, "import") =>
       \A d \in Present(device) :
         \/ device'[d] = device[d]
         \/ /\ d \in DOMAIN req[w].seen
            /\ \E i \in DOMAIN req[w].what :
                 /\ req[w].what[i].name = req[w].seen[d].name
                 /\ OnlyAdds(device[d], device'[d], req[w].what[i])]_vars

\* "The whole import runs in a single transaction": if nothing else was
\* committed meanwhile, every line of the file is stored, or none is.
ImportIsWhole ==
  [][\A w \in Slots : Commits(w, "import") /\ req[w].quiet =>
       \A i \in DOMAIN req[w].what :
         LET line == req[w].what[i] IN
         \E d \in Devices :
           /\ Exists(device'[d])
           /\ device'[d].name = line.name /\ line.groups \subseteq device'[d].groups
           /\ device'[d].pool = line.pool \/ line.pool = None
           /\ device'[d].cred = line.cred \/ line.cred = None]_vars

Mixed(row) == Exists(row) /\ row.builtin # None /\ row.custom # None

\* A device has a built-in and a custom platform at once only after an import
\* gave it the one without clearing the other, or two overlapping saves.
PlatformsMixOnlyByImportOrOverlap ==
  [][\A d \in Devices : Mixed(device'[d]) /\ ~Mixed(device[d]) =>
       \E w \in Slots : Commits(w, "import")
                        \/ (req[w].kind \in DeviceKinds /\ req'[w].kind = "idle" /\ ~req[w].quiet)]_vars

\* "Device override, group default, system default, using the first one it
\* finds", "against every enabled device".  Whatever is committed while the
\* session lasts, in this dispatch or in one before it: a credential nobody
\* touched is sent as stored; a device is sent a job if the job targets it and
\* it has a credential of its own, of its groups or of the system, only if the
\* job targets it, and with its own credential and pool, or both from one of
\* its groups, as far as nobody touched the device, the job and that group.
JobsUseWhatIsAssigned ==
  fire.at = "sending" =>
    LET touched     == session.touched
        via(d)      == device[d].groups \cap job[fire.job].groups
        targeted(d) == device[d].enabled /\ (via(d) # {} \/ d \in job[fire.job].devices)
        Takes(s, c, pool) ==
          /\ s.pool = Given(device[s.device].pool, pool)
          /\ LET first == Given(device[s.device].cred, c) IN
             \/ s.cred = first
             \/ first = None /\ (s.cred \in touched \/ cred[s.cred].default)
    IN /\ \A s \in specs : s.cred \notin touched => s.material = cred[s.cred]
       /\ fire.job \notin touched =>
            /\ \A s \in specs : s.device \notin touched =>
                 /\ targeted(s.device)
                 /\ device[s.device].cred # None => s.cred = device[s.device].cred
                 /\ IF via(s.device) = {} THEN Takes(s, None, None)
                    ELSE \E g \in via(s.device) :
                           g \in touched \/ Takes(s, group[g].cred, group[g].pool)
            /\ fire.left = {} => \A d \in Present(device) \ touched :
                 (/\ targeted(d)
                  /\ \/ device[d].cred # None \/ Defaults \ touched # {}
                     \/ via(d) # {} /\ \A g \in via(d) : g \notin touched /\ group[g].cred # None)
                 => \E s \in specs : s.device = d
=============================================================================
