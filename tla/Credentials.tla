----------------------------- MODULE Credentials -----------------------------
(***************************************************************************)
(* The credentials table and the handlers that write it, with what         *)
(* resolve_credential makes of a row at dispatch.                          *)
(*                                                                         *)
(* A handler reads a row, computes in Python and writes at its commit the  *)
(* columns that differ from what it read.  Making a credential the default *)
(* clears the flag of every row in an UPDATE of its own, which keeps those *)
(* rows locked until the commit and does not see the rows inserted since   *)
(* it began; a partial unique index has the last word.  The name, the      *)
(* description, ref and the username column decide nothing here and are    *)
(* left out.  Inventory composes this module with what refers to it.       *)
(***************************************************************************)
EXTENDS Integers, FiniteSets

CONSTANTS
  Creds,       \* credentials ids; an id is never used twice
  Secrets,     \* passwords and enable passwords
  Slots,       \* the requests the web processes can have in progress
  CredForms,   \* the forms administrators send
  CredTable,   \* the credentials the model starts from
  None,        \* NULL, or a blank field of a form
  Fresh, Gone  \* the row of an id not yet inserted, and of one deleted

VARIABLES
  cred,     \* the committed rows
  credreq   \* the request that writes a credential in each slot

credVars == <<cred, credreq>>

Exists(row)   == row \notin {Fresh, Gone}
Present(rows) == {id \in DOMAIN rows : Exists(rows[id])}

Provider == {"local", "vault", "bitwarden"}
Secret   == {None} \cup Secrets
Payload  == {None} \cup [password : Secret, enable : Secret]
CredRow  == [provider : Provider, payload : Payload, default : BOOLEAN]
CredForm == [provider : Provider, password : Secret, enable : Secret, default : BOOLEAN]

DefaultsOf(table) == {c \in Present(table) : table[c].default}

\* NULL is no id, a row is not the mark of its absence, and what the model
\* starts from is what the table may hold.
ASSUME CredentialsAssumption ==
  /\ None \notin Creds
  /\ Fresh # Gone /\ Fresh \notin CredRow /\ Gone \notin CredRow
  /\ CredForms \subseteq CredForm
  /\ CredTable \in [Creds -> CredRow \cup {Fresh, Gone}]
  /\ \A c, d \in DefaultsOf(CredTable) : c = d

NoCredReq == [at |-> "idle"]

CredInit ==
  /\ cred = CredTable
  /\ credreq = [w \in Slots |-> NoCredReq]

\* What the commit of a unit of work leaves of a row: the columns the handler
\* changed are written, the others keep what is committed meanwhile.
Merged(now, seen, want) ==
  [column \in DOMAIN want |->
     IF want[column] # seen[column] THEN want[column] ELSE now[column]]

-----------------------------------------------------------------------------
(* The form.                                                               *)

EntersSecret(form) == form.password # None \/ form.enable # None

BuildPayload(form) ==
  IF form.provider = "local"
    THEN [password |-> form.password, enable |-> form.enable] ELSE None

Created(form) ==
  [provider |-> form.provider, payload |-> BuildPayload(form), default |-> form.default]

Edited(row, form) ==
  [provider |-> form.provider, default |-> form.default,
   payload |-> IF EntersSecret(form) THEN BuildPayload(form) ELSE row.payload]

\* Whether resolve_credential returns material: a local row needs a payload,
\* a vault path needs an answer, and bitwarden is not implemented.
Resolves(row) ==
  CASE row.provider = "local" -> {row.payload # None}
    [] row.provider = "vault" -> BOOLEAN
    [] row.provider = "bitwarden" -> {FALSE}

-----------------------------------------------------------------------------
(* create_cred and update_cred.                                            *)

CredIdle(w) == credreq[w].at = "idle"

\* The slots whose UPDATE has cleared the default flags and holds the rows.
Holders   == {w \in Slots : credreq[w].at = "ready" /\ credreq[w].want.default}
Locked(c) == \E w \in Holders : c \in credreq[w].sees

\* sees: the rows the clearing UPDATE would find now; its snapshot is taken
\* before it waits for a lock.
CredWrites(w, c, seen, want, form) ==
  credreq' = [credreq EXCEPT ![w] =
    [at |-> IF want.default THEN "clearing" ELSE "ready", id |-> c, seen |-> seen,
     want |-> want, form |-> form, sees |-> Present(cred)]]

CreateCred(w, c, form) ==
  /\ CredIdle(w)
  /\ cred[c] = Fresh
  /\ c \notin {credreq[v].id : v \in {v \in Slots : ~CredIdle(v)}}
  /\ CredWrites(w, c, Fresh, Created(form), form)
  /\ cred' = cred

UpdateCred(w, c, form) ==
  /\ CredIdle(w)
  /\ Exists(cred[c])
  /\ CredWrites(w, c, cred[c], Edited(cred[c], form), form)
  /\ cred' = cred

\* The clearing UPDATE of _apply_default gets its locks.
ClearDefaults(w) ==
  /\ credreq[w].at = "clearing"
  /\ Holders = {}
  /\ \E sees \in {credreq[w].sees, Present(cred)} :
       credreq' = [credreq EXCEPT ![w] =
         [at |-> "ready", id |-> credreq[w].id, seen |-> credreq[w].seen,
          want |-> credreq[w].want, form |-> credreq[w].form, sees |-> sees]]
  /\ cred' = cred

\* The row is gone, or the unique index finds a default the UPDATE missed.
CredConflict(req) ==
  \/ /\ req.seen # Fresh /\ ~Exists(cred[req.id])
     /\ req.want # req.seen \/ req.want.default \/ EntersSecret(req.form)
  \/ /\ req.want.default
     /\ \E c \in Present(cred) \ (req.sees \cup {req.id}) : cred[c].default

\* The row of an edit: a payload is encrypted anew, so it is always written,
\* and the clearing UPDATE makes the session write the flag again.
CredWritten(now, req) ==
  LET row == Merged(now, req.seen, req.want)
  IN [provider |-> row.provider,
      payload |-> IF EntersSecret(req.form) THEN req.want.payload ELSE row.payload,
      default |-> row.default \/ req.want.default]

CredSaved(req) ==
  [c \in Creds |->
     IF c = req.id /\ req.seen = Fresh THEN req.want
     ELSE IF ~Exists(cred[c]) THEN cred[c]
     ELSE IF c = req.id THEN CredWritten(cred[c], req)
     ELSE IF req.want.default /\ c \in req.sees
       THEN [cred[c] EXCEPT !.default = FALSE]
     ELSE cred[c]]

CredCommit(w) ==
  LET req == credreq[w] IN
  /\ req.at = "ready"
  /\ w \in Holders \/ ~Locked(req.id)
  /\ ~CredConflict(req)
  /\ cred' = CredSaved(req)
  /\ credreq' = [credreq EXCEPT ![w] = NoCredReq]

\* A mutant of CredRollback: the clearing UPDATE was a transaction of its own.
CredRollbackCleared(w) ==
  LET req == credreq[w] IN
  /\ req.at = "ready"
  /\ w \in Holders \/ ~Locked(req.id)
  /\ CredConflict(req)
  /\ cred' = [c \in Creds |-> IF Exists(cred[c]) /\ req.want.default /\ c \in req.sees
                                THEN [cred[c] EXCEPT !.default = FALSE] ELSE cred[c]]
  /\ credreq' = [credreq EXCEPT ![w] = NoCredReq]

\* The commit raises: the browser gets a 500, and the flags are as before.
CredRollback(w) ==
  LET req == credreq[w] IN
  /\ req.at = "ready"
  /\ w \in Holders \/ ~Locked(req.id)
  /\ CredConflict(req)
  /\ cred' = cred
  /\ credreq' = [credreq EXCEPT ![w] = NoCredReq]

\* delete_cred, and bulk_creds for one id.  What refers to the row is set to
\* NULL by the foreign keys: Inventory says so.
DeleteCred(c) ==
  /\ Exists(cred[c])
  /\ ~Locked(c)
  /\ cred' = [cred EXCEPT ![c] = Gone]
  /\ credreq' = credreq

-----------------------------------------------------------------------------
(* Properties.                                                             *)

Defaults == DefaultsOf(cred)

\* "At most one credential can be marked as the default at a time", although
\* two administrators check the box at once on rows the other cannot see.
AtMostOneDefault == Cardinality(Defaults) <= 1

\* Nobody loses the fallback by trying to replace it: there is none only after
\* the default itself was deleted or saved with the box unchecked.
DefaultIsReplacedNeverLost ==
  [][Defaults # {} /\ Defaults' = {} =>
       \A c \in Defaults :
         \/ ~Exists(cred'[c])
         \/ \E w \in Slots : /\ ~CredIdle(w) /\ credreq'[w].at = "idle"
                             /\ credreq[w].id = c /\ ~credreq[w].form.default]_credVars

\* "Leave blank to keep current" is what the form says of the password and of
\* the enable password: a saved blank keeps the value of a local credential.
BlankKeepsSecret ==
  [][\A w \in Slots :
       LET req == credreq[w] IN
       (/\ ~CredIdle(w) /\ credreq'[w].at = "idle" /\ Exists(req.seen)
        /\ cred # cred' /\ req.form.provider = "local" /\ req.seen.payload # None)
       => \A secret \in {"password", "enable"} :
            req.form[secret] = None =>
              cred'[req.id].payload[secret] = req.seen.payload[secret]]_credVars
=============================================================================
