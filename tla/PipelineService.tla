--------------------------- MODULE PipelineService ---------------------------
(***************************************************************************)
(* Console saves in git-first mode: the row is written, the repository is  *)
(* converged on the request path, and a failed converge is compensated by  *)
(* writing the row back.  RestorePipelineVersion ends in UpdatePipeline    *)
(* with the values of an old version and no credentials.                   *)
(***************************************************************************)
EXTENDS PipelineMirror

CONSTANTS MaxOps  \* bound: saves started

ASSUME OpsAssumption == MaxOps \in Nat

VARIABLES req,  \* the save of a request: [kind, id, old, new, touched]
          ops   \* saves started so far

serviceVars == <<req, ops>>

Req(k, i, o, n, t) == [kind |-> k, id |-> i, old |-> o, new |-> n, touched |-> t]
NoReq == Req("none", 0, None, None, FALSE)

Begin(s) == pc[s] = "idle" /\ ops < MaxOps /\ ops' = ops + 1

\* The insert; validation and a name already in use end the request first.
CreatePipeline(s) ==
  /\ Begin(s)
  /\ \E i \in IDs, n \in Names, c \in Cfgs, k \in Creds \cup {NoCreds} :
       /\ \A j \in IDs \ used : i <= j
       /\ CreateRow(i, Row(n, c, k, FALSE))
       /\ req' = [req EXCEPT ![s] = Req("create", i, None, Row(n, c, k, FALSE), FALSE)]
  /\ Goto(s, "list")
  /\ UNCHANGED <<repoVars, faults, conv>>

\* UpdatePipeline up to resolveUpdateCredentials: credentials are given,
\* cleared, or kept as they were when the row was read.
UpdatePipeline(s, i) ==
  /\ Begin(s)
  /\ row[i] # None
  /\ \E n \in Names, c \in Cfgs :
       \/ \E k \in Creds \cup {NoCreds} :
            req' = [req EXCEPT ![s] = Req("update", i, row[i], Row(n, c, k, FALSE), TRUE)]
       \/ req' = [req EXCEPT ![s] = Req("update", i, row[i], Row(n, c, row[i].creds, FALSE), FALSE)]
  /\ Goto(s, "write")
  /\ UNCHANGED <<storeVars, repoVars, faults, conv>>

DeletePipeline(s, i) ==
  /\ Begin(s)
  /\ row[i] # None
  /\ req' = [req EXCEPT ![s] = Req("delete", i, row[i], None, FALSE)]
  /\ Goto(s, "write")
  /\ UNCHANGED <<storeVars, repoVars, faults, conv>>

\* The row write; when the row is gone or the name taken the save ends.
WriteRow(s) ==
  LET r == req[s] IN
  /\ pc[s] = "write"
  /\ \/ /\ r.kind = "update"
        /\ UpdateRow(r.id, r.new)
        /\ Goto(s, IF r.touched /\ r.old.ext THEN "reclaim" ELSE "list")
     \/ r.kind = "delete" /\ DeleteRow(r.id) /\ Goto(s, "list")
     \/ /\ \/ r.kind = "update" /\ ~CanUpdate(r.id, r.new.name)
           \/ r.kind = "delete" /\ row[r.id] = None
        /\ UNCHANGED storeVars
        /\ Goto(s, "refused")
  /\ UNCHANGED <<repoVars, faults, conv, serviceVars>>

\* reclaimCredentials, two best-effort statements.
ReclaimFlag(s) ==
  /\ pc[s] = "reclaim"
  /\ \/ SetPipelineCredentialsExternal(req[s].id, FALSE) /\ Count(FALSE) /\ Goto(s, "unrender")
     \/ row[req[s].id] = None /\ UNCHANGED storeVars /\ Count(FALSE) /\ Goto(s, "list")
     \/ MayFail /\ UNCHANGED storeVars /\ Count(TRUE) /\ Goto(s, "list")
  /\ UNCHANGED <<repoVars, conv, serviceVars>>

ReclaimRender(s) ==
  /\ pc[s] = "unrender"
  /\ \/ DeletePipelineCredentialRender(req[s].id) /\ Count(FALSE)
     \/ MayFail /\ UNCHANGED storeVars /\ Count(TRUE)
  /\ Goto(s, "list")
  /\ UNCHANGED <<repoVars, conv, serviceVars>>

\* commitOrCompensate: a create is deleted, an update written back, a delete
\* re-inserted under a new id.  A compensation that fails is only logged.
Undo(s) ==
  LET r == req[s] IN
  \/ r.kind = "create" /\ DeleteRow(r.id)
  \/ r.kind = "update" /\ UpdateRow(r.id, r.old)
  \/ r.kind = "delete" /\ \E i \in IDs : CreateRow(i, r.old) /\ \A j \in IDs \ used : i <= j

CanUndo(s) ==
  LET r == req[s] IN
  \/ r.kind = "create" /\ row[r.id] # None
  \/ r.kind = "update" /\ CanUpdate(r.id, r.old.name)
  \/ r.kind = "delete" /\ ~NameTaken(r.old.name, 0)

Compensate(s) ==
  /\ pc[s] = "compensate"
  /\ \/ Undo(s) /\ Count(FALSE) /\ Goto(s, "failed")
     \/ ~CanUndo(s) /\ UNCHANGED storeVars /\ Count(FALSE) /\ Goto(s, "stranded")
     \/ MayFail /\ UNCHANGED storeVars /\ Count(TRUE) /\ Goto(s, "stranded")
  /\ UNCHANGED <<repoVars, conv, serviceVars>>

Finished == {"done", "failed", "stranded", "refused"}

Return(s) ==
  /\ pc[s] \in Finished
  /\ Goto(s, "idle")
  /\ Keep(s, NoConv)
  /\ req' = [req EXCEPT ![s] = NoReq]
  /\ UNCHANGED <<storeVars, repoVars, faults, ops>>

\* The process restarts: the request is gone and nothing is compensated.
Crash(s) ==
  /\ pc[s] \notin {"idle"} \cup Finished
  /\ MayFail
  /\ Count(TRUE)
  /\ Goto(s, "idle")
  /\ Keep(s, NoConv)
  /\ req' = [req EXCEPT ![s] = NoReq]
  /\ UNCHANGED <<storeVars, repoVars, ops>>

\* The steps of a save once begun.
Save(s) ==
  \/ WriteRow(s) \/ ReclaimFlag(s) \/ ReclaimRender(s)
  \/ (SyncCustomer(s) /\ UNCHANGED serviceVars)
  \/ Compensate(s) \/ Return(s)

=============================================================================
