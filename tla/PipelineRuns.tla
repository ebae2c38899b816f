---------------------------- MODULE PipelineRuns ----------------------------
(***************************************************************************)
(* The life of a pipeline run: a Console user triggers it, the box's       *)
(* dlt-worker polls it, executes it and reports on it, the stuck-run sweep *)
(* fails what a dead worker left behind, and deleting the pipeline removes *)
(* it.  Every SQL statement is one step, so two requests, the worker and   *)
(* the sweep interleave between the statements of a handler exactly where  *)
(* the Go code releases the connection.                                    *)
(*                                                                         *)
(* The dlt-worker is not part of the repository: the Worker... actions say *)
(* what the handlers rely on.  It executes a run at most once at a time,   *)
(* reports "running" before a terminal status, and has one report of a run *)
(* in flight at a time; it may crash, give up on a report, or repeat it.   *)
(***************************************************************************)
EXTENDS Integers

CONSTANTS Pipelines,   \* pipeline ids of one workspace
          FileUploads, \* those whose source type is file_upload
          Users,       \* Console users acting concurrently
          NoPipeline,  \* no request, or no row
          MaxRuns,     \* bound: run rows ever created
          MaxFaults    \* bound: worker crashes and failed reports

ASSUME PipelinesAssumption == FileUploads \subseteq Pipelines /\ NoPipeline \notin Pipelines
ASSUME BoundsAssumption == MaxRuns \in Nat /\ MaxFaults \in Nat

RunIDs == 1..MaxRuns
Terminal == {"success", "failed"}
\* "none" is the absence of a row.
Statuses == {"none", "pending", "running"} \cup Terminal

VARIABLES
  pipelines,  \* rows of table pipelines
  enabled,    \* pipelines.enabled
  files,      \* file_upload pipelines with an uploaded file in provisioned storage
  run,        \* table pipeline_runs: id -> [pipeline, status]
  old,        \* runs with COALESCE(started_at, created_at) before the cutoff
  lastID,     \* ids handed out so far; ids grow with created_at
  trigger,    \* TriggerPipeline requests past the pending check
  report,     \* ReportPipelineRun request in flight for a run
  job,        \* what the worker does with a run, and for which pipeline
  told,       \* terminal status of a run acknowledged to a live worker
  faults

vars == <<pipelines, enabled, files, run, old, lastID, trigger, report, job, told, faults>>
pipelineVars == <<pipelines, enabled, files>>
workerVars == <<job, told, faults>>

Row(p, s) == [pipeline |-> p, status |-> s]
NoRow == Row(NoPipeline, "none")
Report(pc, s) == [pc |-> pc, status |-> s]
Idle == Report("idle", "none")
Job(p, s) == [pipeline |-> p, state |-> s]

\* GetPendingRun, and the pending_run_id of GetEnabledPipelines: ORDER BY
\* created_at ASC LIMIT 1.
PendingRuns(p) == {r \in RunIDs : run[r].status = "pending" /\ run[r].pipeline = p}
OldestPending(p) == {r \in PendingRuns(p) : \A q \in PendingRuns(p) : r <= q}

Init ==
  /\ pipelines = Pipelines
  /\ enabled \in SUBSET Pipelines
  /\ files = {}
  /\ run = [r \in RunIDs |-> NoRow]
  /\ old = {}
  /\ lastID = 0
  /\ trigger = [u \in Users |-> NoPipeline]
  /\ report = [r \in RunIDs |-> Idle]
  /\ job = [r \in RunIDs |-> Job(NoPipeline, "idle")]
  /\ told = [r \in RunIDs |-> "none"]
  /\ faults = 0

-----------------------------------------------------------------------------
(* Console *)

\* TriggerPipeline up to its early returns: an unknown pipeline and a run
\* already queued end the request with nothing changed.
TriggerPipeline(u, p) ==
  /\ trigger[u] = NoPipeline
  /\ p \in pipelines
  /\ PendingRuns(p) = {}
  /\ trigger' = [trigger EXCEPT ![u] = p]
  /\ UNCHANGED <<pipelineVars, run, old, lastID, report, workerVars>>

\* CreatePipelineRun for the trigger; the foreign key refuses the insert when
\* the pipeline was deleted since the check.
CreatePipelineRun(u) ==
  /\ trigger[u] # NoPipeline
  /\ trigger' = [trigger EXCEPT ![u] = NoPipeline]
  /\ \/ /\ trigger[u] \in pipelines
        /\ lastID < MaxRuns
        /\ lastID' = lastID + 1
        /\ run' = [run EXCEPT ![lastID + 1] = Row(trigger[u], "pending")]
     \/ trigger[u] \notin pipelines /\ UNCHANGED <<run, lastID>>
  /\ UNCHANGED <<pipelineVars, old, report, workerVars>>

\* UpdatePipeline as far as a run sees it: pause or resume.
UpdatePipeline(p) ==
  /\ p \in pipelines
  /\ enabled' = IF p \in enabled THEN enabled \ {p} ELSE enabled \cup {p}
  /\ UNCHANGED <<pipelines, files, run, old, lastID, trigger, report, workerVars>>

\* FileDropService.Upload and Delete as far as a poll sees them, and the
\* workspace's storage being provisioned or withdrawn.
UpdateFiles(p) ==
  /\ p \in pipelines \cap FileUploads
  /\ files' = IF p \in files THEN files \ {p} ELSE files \cup {p}
  /\ UNCHANGED <<pipelines, enabled, run, old, lastID, trigger, report, workerVars>>

\* The row goes, and ON DELETE CASCADE takes its runs.
DeletePipeline(p) ==
  /\ p \in pipelines
  /\ pipelines' = pipelines \ {p}
  /\ enabled' = enabled \ {p}
  /\ files' = files \ {p}
  /\ run' = [r \in RunIDs |-> IF run[r].pipeline = p THEN NoRow ELSE run[r]]
  /\ old' = {r \in old : run[r].pipeline # p}
  /\ UNCHANGED <<lastID, trigger, report, workerVars>>

-----------------------------------------------------------------------------
(* Sweep and time *)

\* The start of an unfinished run passes the cutoff.
Age(r) ==
  /\ run[r].status \in {"pending", "running"}
  /\ r \notin old
  /\ old' = old \cup {r}
  /\ UNCHANGED <<pipelineVars, run, lastID, trigger, report, workerVars>>

\* Mutants: the sweep ignores the status; it spares paused pipelines.
StuckAnyStatus == {r \in old : run[r].status # "none"}
StuckEnabled == {r \in old : run[r].status = "running" /\ run[r].pipeline \in enabled}
Stuck == {r \in old : run[r].status = "running" /\ run[r].pipeline \in pipelines}

\* One UPDATE statement over every stuck row.
FailStuckRunningRuns ==
  /\ Stuck # {}
  /\ run' = [r \in RunIDs |-> IF r \in Stuck THEN Row(run[r].pipeline, "failed") ELSE run[r]]
  /\ UNCHANGED <<pipelineVars, old, lastID, trigger, report, workerVars>>

-----------------------------------------------------------------------------
(* Worker: poll, schedule, crash *)

\* Mutant: a paused pipeline is left out whatever is queued for it.
ServedEnabled(p) ==
  /\ p \in enabled
  /\ p \in FileUploads => p \in files

\* What GetEnabledPipelines serves: enabled, or paused with a queued run; a
\* file_upload pipeline only once it has files, in storage with a bucket.  One
\* credential that cannot be decrypted, or a storage lookup that fails, fails
\* the whole poll: it hands out nothing, and changes nothing either.
Served(p) ==
  /\ p \in pipelines
  /\ p \in enabled \/ PendingRuns(p) # {}
  /\ p \in FileUploads => p \in files

Assign(r, p) ==
  /\ job' = [job EXCEPT ![r] = Job(p, "assigned")]
  /\ told' = [told EXCEPT ![r] = "none"]
  /\ UNCHANGED faults

\* The poll hands out the oldest queued run.  A worker that restarted asks
\* again only after its earlier report of the run was handled.
GetEnabledPipelines(p) ==
  /\ Served(p)
  /\ \E r \in OldestPending(p) :
       /\ job[r].state \in {"idle", "dead"}
       /\ report[r] = Idle
       /\ Assign(r, p)
  /\ UNCHANGED <<pipelineVars, run, old, lastID, trigger, report>>

\* A scheduled run of an enabled pipeline: the worker mints its id.  On a box
\* it also records the row in the same database, unless that write fails.
WorkerSchedule(p) ==
  /\ Served(p)
  /\ p \in enabled
  /\ lastID < MaxRuns
  /\ lastID' = lastID + 1
  /\ Assign(lastID + 1, p)
  /\ \/ run' = [run EXCEPT ![lastID + 1] = Row(p, "running")]
     \/ UNCHANGED run
  /\ UNCHANGED <<pipelineVars, old, trigger, report>>

WorkerCrash(r) ==
  /\ job[r].state \in {"assigned", "working"}
  /\ faults < MaxFaults
  /\ faults' = faults + 1
  /\ job' = [job EXCEPT ![r] = Job(job[r].pipeline, "dead")]
  /\ UNCHANGED <<pipelineVars, run, old, lastID, trigger, report, told>>

-----------------------------------------------------------------------------
(* ReportPipelineRun *)

\* The worker sends a report and the handler checks the pipeline's tenant.
\* "running" is sent until it is acknowledged or given up.
ReportPipelineRun(r, s) ==
  /\ report[r] = Idle
  /\ \/ s = "running" /\ job[r].state = "assigned"
     \/ s \in Terminal /\ job[r].state \in {"assigned", "working"}
  /\ \/ /\ job[r].pipeline \in pipelines
        /\ report' = [report EXCEPT ![r] = Report("update", s)]
        /\ UNCHANGED job
     \/ /\ job[r].pipeline \notin pipelines    \* ErrPipelineNotFound: the run is dropped
        /\ job' = [job EXCEPT ![r] = Job(job[r].pipeline, "dead")]
        /\ UNCHANGED report
  /\ UNCHANGED <<pipelineVars, run, old, lastID, trigger, told, faults>>

\* A report without a run id, from a worker that mints none: the insert under
\* the id of the column default, refused when the pipeline has gone since.
ReportWithoutID(p, s) ==
  /\ p \in pipelines
  /\ s = "running" \/ s \in Terminal
  /\ lastID < MaxRuns
  /\ lastID' = lastID + 1
  /\ run' = [run EXCEPT ![lastID + 1] = Row(p, s)]
  /\ UNCHANGED <<pipelineVars, old, trigger, report, workerVars>>

\* A report that carries started_at resets the age of the run.
Stamp(r) == \/ old' = old \ {r}
            \/ UNCHANGED old

\* UpdatePipelineRun writes the reported status whatever the row's status is;
\* no row with this id and pipeline sends the handler to the insert.
UpdatePipelineRun(r) ==
  /\ report[r].pc = "update"
  /\ \/ /\ run[r].status # "none" /\ run[r].pipeline = job[r].pipeline
        /\ run' = [run EXCEPT ![r] = Row(run[r].pipeline, report[r].status)]
        /\ Stamp(r)
        /\ report' = [report EXCEPT ![r] = Report("notify", report[r].status)]
     \/ /\ run[r].status = "none" \/ run[r].pipeline # job[r].pipeline
        /\ report' = [report EXCEPT ![r] = Report("create", report[r].status)]
        /\ UNCHANGED <<run, old>>
  /\ UNCHANGED <<pipelineVars, lastID, trigger, workerVars>>

\* CreatePipelineRun under the reported id: primary key and foreign key.
ReportCreate(r) ==
  /\ report[r].pc = "create"
  /\ \/ /\ run[r].status = "none" /\ job[r].pipeline \in pipelines
        /\ run' = [run EXCEPT ![r] = Row(job[r].pipeline, report[r].status)]
        /\ old' = old \ {r}
        /\ report' = [report EXCEPT ![r] = Report("notify", report[r].status)]
     \/ /\ run[r].status # "none" \/ job[r].pipeline \notin pipelines
        /\ report' = [report EXCEPT ![r] = Idle]
        /\ UNCHANGED <<run, old>>
  /\ UNCHANGED <<pipelineVars, lastID, trigger, workerVars>>

\* The response reaches the worker, if it is still there.
ReportDone(r) ==
  /\ report[r].pc = "notify"
  /\ report' = [report EXCEPT ![r] = Idle]
  /\ \/ /\ job[r].state \in {"assigned", "working"}
        /\ \/ /\ report[r].status \in Terminal
              /\ job' = [job EXCEPT ![r] = Job(job[r].pipeline, "done")]
              /\ told' = [told EXCEPT ![r] = report[r].status]
           \/ /\ report[r].status = "running"
              /\ job' = [job EXCEPT ![r] = Job(job[r].pipeline, "working")]
              /\ UNCHANGED told
     \/ job[r].state = "dead" /\ UNCHANGED <<job, told>>
  /\ UNCHANGED <<pipelineVars, run, old, lastID, trigger, faults>>

\* A database error, or a response lost on its way: the worker may report
\* the same status again.
ReportError(r) ==
  /\ report[r] # Idle
  /\ faults < MaxFaults
  /\ faults' = faults + 1
  /\ report' = [report EXCEPT ![r] = Idle]
  /\ UNCHANGED <<pipelineVars, run, old, lastID, trigger, job, told>>

-----------------------------------------------------------------------------
Handle(r) == UpdatePipelineRun(r) \/ ReportCreate(r) \/ ReportDone(r)

Next ==
  \/ \E u \in Users : CreatePipelineRun(u) \/ \E p \in Pipelines : TriggerPipeline(u, p)
  \/ \E p \in Pipelines : \/ UpdatePipeline(p) \/ UpdateFiles(p) \/ DeletePipeline(p)
                          \/ GetEnabledPipelines(p) \/ WorkerSchedule(p)
                          \/ \E s \in Statuses : ReportWithoutID(p, s)
  \/ \E r \in RunIDs : \/ Age(r) \/ WorkerCrash(r) \/ Handle(r) \/ ReportError(r)
                       \/ \E s \in Statuses : ReportPipelineRun(r, s)
  \/ FailStuckRunningRuns

Spec == Init /\ [][Next]_vars

\* The ticker of StuckRunSweeper.Run, the passing of time, the handlers
\* finishing, and a worker that keeps polling and reporting.  A poll is taken
\* to succeed in the end: the credentials it decrypts stay readable, which is
\* what Keyring is about.
Fairness ==
  /\ WF_vars(FailStuckRunningRuns)
  /\ \A p \in Pipelines : WF_vars(GetEnabledPipelines(p))
  /\ \A r \in RunIDs : /\ WF_vars(Age(r))
                       /\ WF_vars(Handle(r))
                       /\ WF_vars(ReportPipelineRun(r, "running"))

FairSpec == Spec /\ Fairness

-----------------------------------------------------------------------------
Rows == [pipeline : Pipelines \cup {NoPipeline}, status : Statuses]
Reports == [pc : {"idle", "update", "create", "notify"}, status : {"none", "running"} \cup Terminal]
Jobs == [pipeline : Pipelines \cup {NoPipeline},
         state : {"idle", "assigned", "working", "done", "dead"}]

TypeOK ==
  /\ pipelines \subseteq Pipelines
  /\ enabled \subseteq pipelines
  /\ files \subseteq pipelines
  /\ run \in [RunIDs -> Rows]
  /\ old \subseteq RunIDs
  /\ lastID \in 0..MaxRuns
  /\ trigger \in [Users -> Pipelines \cup {NoPipeline}]
  /\ report \in [RunIDs -> Reports]
  /\ job \in [RunIDs -> Jobs]
  /\ told \in [RunIDs -> {"none"} \cup Terminal]
  /\ faults \in 0..MaxFaults

\* Safety: a run row always has its pipeline, although the row is inserted by
\* a trigger or a report whose pipeline check is an earlier statement, with a
\* delete free to land in between (foreign key and cascade of pipeline_runs).
RunHasPipeline ==
  \A r \in RunIDs : run[r].status # "none" => run[r].pipeline \in pipelines

\* Safety: once the handler has acknowledged a terminal report, the row keeps
\* that outcome for as long as it exists.  UpdatePipelineRun has no guard on
\* the stored status, so this rests on the sweep's own guard and on no report
\* of the run being left in flight.
OutcomeKept ==
  \A r \in RunIDs : told[r] # "none" /\ run[r].status # "none" => run[r].status = told[r]

\* Liveness: a run whose worker died is not "running" forever; the sweep fails
\* it (StuckRunSweeper: "a run that goes zombie mid-uptime still heals").
StuckRunsHeal ==
  \A r \in RunIDs : run[r].status = "running" ~> run[r].status # "running"

\* Liveness: a queued run is picked up, on a paused pipeline too, unless its
\* file_upload pipeline has no files: the poll leaves those out.
PendingServed ==
  \A r \in RunIDs : run[r].status = "pending" ~>
    \/ run[r].status # "pending"
    \/ run[r].pipeline \in FileUploads \ files

=============================================================================
