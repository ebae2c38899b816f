-------------------------- MODULE Transformations --------------------------
(***************************************************************************)
(* The transformations plane as a whole: the Console's requests            *)
(* (TransformationService), the box worker that polls configs and reports  *)
(* runs, the sweep, commits made on the box, and the pipelines plane       *)
(* deleting the pipelines transformations are chained to.                  *)
(***************************************************************************)
EXTENDS TransformationMirror

VARIABLE job  \* run id -> what the worker is reporting about it

vars == <<storeVars, mirrorVars, job, events>>

NoJob == [pc |-> "none", of |-> 0, status |-> "none"]

Init ==
  /\ save = Idle /\ sweep = NoPass /\ events = 0
  /\ run = [r \in RunIDs |-> NoRun] /\ job = [r \in RunIDs |-> NoJob]
  /\ \E t \in Pipelines, fresh \in BOOLEAN :
       LET n == CHOOSE x \in Names : TRUE
           rs == [NoRows EXCEPT ![1] = Row(n, TRUE, t, TRUE)]
           p == FilePath(rs, 1)
           f == RenderTransformationFile(rs, 1) IN
       /\ t \in Foreign => fresh
       /\ used = {1} /\ repo = [NoFiles EXCEPT ![p] = f]
       \* Saved once; or a new database beside repositories that have history.
       /\ row = IF fresh THEN NoRows ELSE rs
       /\ render = IF fresh THEN NoRows ELSE [NoRows EXCEPT ![1] = Render(p, f, None)]
       /\ pipes = IF fresh THEN Foreign ELSE Pipelines
       /\ unread = IF fresh THEN Pipelines \ Foreign ELSE {}

-----------------------------------------------------------------------------
(* TransformationService: create, update, delete *)

\* The pipeline exists and belongs to the caller's workspace.
ValidateTrigger(t) == t = None \/ t \in pipes \ Foreign

Begin(op, i, old, new) ==
  /\ save.pc = "idle" /\ Tick
  /\ save' = [save EXCEPT !.pc = "write", !.op = op, !.id = i, !.old = old, !.new = new]
  /\ UNCHANGED <<storeVars, repo, unread, sweep, job>>

\* A new transformation is always enabled.
CreateRequest(n, t) == ValidateTrigger(t) /\ Begin("create", 0, None, Row(n, TRUE, t, FALSE))
\* The form sends no credentials, so the stored ones are kept.
UpdateRequest(i, n, e, t) ==
  /\ row[i] # None /\ ValidateTrigger(t)
  /\ Begin("update", i, row[i], Row(n, e, t, row[i].creds))
DeleteRequest(i) == row[i] # None /\ Begin("delete", i, row[i], None)

\* The row is written before the file.
Written(op) ==
  /\ save.pc = "write" /\ save.op = op /\ Calm
  /\ UNCHANGED <<repo, unread, sweep, job>>

CreateWrites ==
  /\ Written("create")
  /\ \E i \in IDs : CreateTransformation(i, save.new) /\ save' = [save EXCEPT !.pc = "list", !.id = i]
UpdateWrites == Written("update") /\ UpdateTransformation(save.id, save.new) /\ Goto("list")
DeleteWrites == Written("delete") /\ DeleteRow(save.id) /\ Goto("list")

\* The row is gone, the name taken, or the trigger deleted since.
WriteRefused ==
  /\ \/ Written("create") /\ (used = IDs \/ ~Fits(0, save.new))
     \/ Written("update") /\ (row[save.id] = None \/ ~Fits(save.id, save.new))
     \/ Written("delete") /\ row[save.id] = None
  /\ save' = Idle /\ UNCHANGED storeVars

\* A deleted config comes back under a new id; a failed compensation is logged.
Compensate ==
  /\ save.pc = "compensate" /\ save' = Idle
  /\ \/ save.op = "create" /\ DeleteRow(save.id) /\ Calm
     \/ save.op = "update" /\ UpdateTransformation(save.id, save.old) /\ Calm
     \/ save.op = "delete" /\ (\E i \in IDs : CreateTransformation(i, save.old)) /\ Calm
     \/ /\ UNCHANGED storeVars
        /\ \/ Tick
           \/ /\ Calm
              /\ \/ save.op # "delete" /\ row[save.id] = None
                 \/ save.op = "update" /\ ~Fits(save.id, save.old)
                 \/ save.op = "delete" /\ (used = IDs \/ ~Fits(0, save.old))
  /\ UNCHANGED <<repo, unread, sweep, job>>

Done ==
  /\ save.pc = "done" /\ save' = Idle /\ Calm
  /\ UNCHANGED <<storeVars, repo, unread, sweep, job>>

\* commitOrCompensate.
Save ==
  \/ CreateWrites \/ UpdateWrites \/ DeleteWrites \/ WriteRefused
  \/ (SyncCustomer /\ UNCHANGED job) \/ Compensate \/ Done

-----------------------------------------------------------------------------
(* Runs *)

\* No check for a run that is queued or running already.
TriggerTransformation(i) ==
  /\ Tick
  /\ \E r \in RunIDs : /\ \A q \in RunIDs : q < r => run[q] # NoRun \/ job[q] # NoJob
                       /\ job[r] = NoJob /\ CreateTransformationRun(r, i, "pending")
  /\ UNCHANGED <<mirrorVars, job>>

Report(r, i, s) == job' = [job EXCEPT ![r] = [pc |-> "check", of |-> i, status |-> s]]

\* GetTransformationConfigs: the oldest queued run rides along with its config.
GetTransformationConfigs(i) ==
  /\ i \in GetEnabledTransformations /\ Calm
  /\ \E r \in OldestPending(i) : job[r] = NoJob /\ Report(r, i, "running")
  /\ UNCHANGED <<storeVars, mirrorVars>>

\* A schedule or a finished pipeline: the worker minted the run's id, or
\* reports the finished run without one.
WorkerRun(i, s) ==
  /\ i \in GetEnabledTransformations /\ Tick
  /\ \E r \in RunIDs : /\ \A q \in RunIDs : q < r => run[q] # NoRun \/ job[q] # NoJob
                       /\ run[r] = NoRun /\ job[r] = NoJob /\ Report(r, i, s)
  /\ UNCHANGED <<storeVars, mirrorVars>>

\* ReportTransformationRun: the transformation is looked up first.
ReportChecked(r) ==
  /\ job[r].pc = "check" /\ Calm
  /\ job' = [job EXCEPT ![r] = IF row[@.of] = None THEN NoJob ELSE [@ EXCEPT !.pc = "record"]]
  /\ UNCHANGED <<storeVars, mirrorVars>>

\* An upsert on the run's id; the insert finds the transformation gone, or not.
\* After "running" comes the outcome.
ReportTransformationRun(r) ==
  LET j == job[r] IN
  /\ j.pc = "record" /\ Calm
  /\ \/ UpdateTransformationRun(r, j.of, j.status)
     \/ CreateTransformationRun(r, j.of, j.status)
     \/ row[j.of] = None /\ UNCHANGED storeVars
  /\ \/ j.status = "running" /\ \E s \in {"success", "failed"} : Report(r, j.of, s)
     \/ j.status # "running" /\ job' = [job EXCEPT ![r] = NoJob]
  /\ UNCHANGED mirrorVars

\* The worker restarts, or gives up on a report that did not get through.
WorkerLost(r) ==
  /\ job[r] # NoJob /\ Tick
  /\ job' = [job EXCEPT ![r] = NoJob]
  /\ UNCHANGED <<storeVars, mirrorVars>>

Worker(r) == ReportChecked(r) \/ ReportTransformationRun(r)

-----------------------------------------------------------------------------
PipelineDeleted(p) == Tick /\ DeletePipeline(p) /\ UNCHANGED <<mirrorVars, job>>

Next ==
  \/ \E n \in Names, t \in Triggers : CreateRequest(n, t)
  \/ \E i \in IDs, n \in Names, e \in BOOLEAN, t \in Triggers : UpdateRequest(i, n, e, t)
  \/ \E i \in IDs : DeleteRequest(i) \/ TriggerTransformation(i) \/ GetTransformationConfigs(i)
  \/ \E i \in IDs, s \in {"running", "success"} : WorkerRun(i, s)
  \/ Save
  \/ AdoptCustomer /\ UNCHANGED job
  \/ \E r \in RunIDs : Worker(r) \/ WorkerLost(r)
  \/ \E p \in Pipelines : PipelineDeleted(p)
  \/ \E p \in Paths : BoxCommit(p) /\ UNCHANGED job

Spec == Init /\ [][Next]_vars

Fairness ==
  /\ WF_vars(AdoptCustomer /\ UNCHANGED job)
  /\ WF_vars(Save)
FairSpec == Spec /\ Fairness

-----------------------------------------------------------------------------

\* A transformation is never chained to another workspace's pipeline or to one
\* that is gone, although the trigger is checked in one statement and stored
\* in a later one, by saves, compensations, imports and adoptions.
TriggerOwned == \A i \in Live(row) : row[i].trig \in (pipes \ Foreign) \cup {None}

\* When a converge reports success and nobody committed since it read the tree,
\* the repository holds exactly the renders of the rows it listed, and no other
\* rendered file (SyncCustomer).
SaveConverges ==
  save.pc = "done" /\ events = save.seen =>
    /\ \A i \in Live(save.rows) :
         repo[FilePath(save.rows, i)] = RenderTransformationFile(save.rows, i)
    /\ \A p \in Paths \ Desired(save.rows) : repo[p] # None => ~repo[p].hdr

\* The tracked file was changed on the box and nobody has acted on it yet.
Unsettled(i) ==
  /\ row[i] # None /\ render[i] # None
  /\ repo[render[i].path] \notin {None, render[i].sha, render[i].refused}
\* Adopting a file would break a constraint, which aborts the whole pass.
Blocked ==
  \E i \in IDs : /\ Unsettled(i)
                 /\ \E j \in Live(row) \ {i} : row[j].name = repo[render[i].path].name

\* A file could be imported now.
Importing(i) ==
  /\ row[i] = None
  /\ \E p \in Paths :
       /\ repo[p] # None /\ repo[p].id = i
       /\ TriggerOK(repo[p].trig) \/ repo[p].trig \in unread
       /\ \A j \in IDs : /\ row[j] # None => row[j].name # repo[p].name
                         /\ render[j] # None => render[j].path # p
\* Liveness: a config committed beside the pipeline it is chained to becomes a
\* row of an empty database, whatever order the sweep's planes succeed in
\* (importUnrendered, AdoptSweeper.sweep).
Hydrates == \A i \in IDs : Importing(i) ~> ~Importing(i) \/ Blocked

=============================================================================
