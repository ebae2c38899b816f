----------------------------- MODULE RunsProofs -----------------------------
(***************************************************************************)
(* Pipeline runs and service accounts, for any number of pipelines, users, *)
(* accounts, warehouses, requests and faults.                              *)
(*                                                                         *)
(* A run row always has its pipeline, and an acknowledged outcome is kept. *)
(* Neither is inductive alone: RunOK also says what a report between its   *)
(* statements may assume.  A service account has the role it was given.    *)
(***************************************************************************)
EXTENDS PipelineRuns, Catalog, TLAPS

\* What is true of run r with the row x, the report q in flight, the job j and
\* the acknowledged outcome t, when the pipelines are ps and n ids are handed
\* out: an acknowledged outcome leaves no report that could write the row, a
\* report past its write finds the terminal status it wrote, and an id not yet
\* handed out is untouched.
RunOK(ps, n, r, x, q, j, t) ==
  /\ x.status # "none" => x.pipeline \in ps
  /\ t # "none" /\ x.status # "none" => x.status = t
  /\ t # "none" => j.state = "done" /\ q = Idle
  /\ q.pc = "idle" => q = Idle
  /\ q.pc = "notify" /\ q.status \in Terminal /\ x.status # "none" => x.status = q.status
  /\ r > n => x.status = "none" /\ q = Idle /\ j.state = "idle" /\ t = "none"

IInv ==
  /\ TypeOK
  /\ \A r \in RunIDs : RunOK(pipelines, lastID, r, run[r], report[r], job[r], told[r])

\* The initial state: an empty run table and no request in flight.
LEMMA InitIInv == Init => IInv
<1>. SUFFICES ASSUME Init PROVE IInv
  OBVIOUS
<1>1. TypeOK
  BY PipelinesAssumption, BoundsAssumption
  DEF Init, TypeOK, RunIDs, Row, NoRow, Report, Idle, Job, Rows, Reports, Jobs, Statuses, Terminal
<1>2. ASSUME NEW r \in RunIDs
      PROVE  RunOK(pipelines, lastID, r, run[r], report[r], job[r], told[r])
  <2>1. run[r].status = "none" /\ report[r] = Idle /\ job[r].state = "idle" /\ told[r] = "none"
    BY DEF Init, NoRow, Row, Job
  <2>2. Idle.pc = "idle"
    BY DEF Idle, Report
  <2>. QED
    BY <2>1, <2>2 DEF RunOK
<1>. QED
  BY <1>1, <1>2 DEF IInv

\* What the record constructors build and the fields hold.
LEMMA RowTypes ==
  /\ \A p \in Pipelines \cup {NoPipeline}, s \in Statuses : Row(p, s) \in Rows
  /\ \A x \in Rows : x.pipeline \in Pipelines \cup {NoPipeline} /\ x.status \in Statuses
  /\ NoRow \in Rows
  BY DEF Row, Rows, NoRow, Statuses

\* The same of a report in flight; its status is never "pending".
LEMMA ReportTypes ==
  /\ \A c \in {"idle", "update", "create", "notify"}, s \in {"none", "running"} \cup Terminal :
       Report(c, s) \in Reports
  /\ \A x \in Reports : x.status \in {"none", "running"} \cup Terminal
  /\ Idle \in Reports
  BY DEF Report, Reports, Idle

\* The same of the worker's job.
LEMMA JobTypes ==
  /\ \A p \in Pipelines \cup {NoPipeline}, s \in {"idle", "assigned", "working", "done", "dead"} :
       Job(p, s) \in Jobs
  /\ \A x \in Jobs : x.pipeline \in Pipelines \cup {NoPipeline}
  BY DEF Job, Jobs

\* Type correctness is inductive alone.
LEMMA NextTypeOK == TypeOK /\ [Next]_vars => TypeOK'
<1> SUFFICES ASSUME TypeOK, [Next]_vars PROVE TypeOK'
  OBVIOUS
<1> USE PipelinesAssumption, BoundsAssumption
    DEF TypeOK, RunIDs, pipelineVars, workerVars
<1>1. ASSUME NEW u \in Users, CreatePipelineRun(u) PROVE TypeOK'
  <2>1. trigger[u] # NoPipeline => Row(trigger[u], "pending") \in Rows
    BY RowTypes DEF Statuses
  <2> QED
    BY <1>1, <2>1 DEF CreatePipelineRun
<1>2. ASSUME NEW u \in Users, NEW p \in Pipelines, TriggerPipeline(u, p) PROVE TypeOK'
  BY <1>2 DEF TriggerPipeline
<1>3. ASSUME NEW p \in Pipelines, UpdatePipeline(p) PROVE TypeOK'
  BY <1>3 DEF UpdatePipeline
<1>4. ASSUME NEW p \in Pipelines, UpdateFiles(p) PROVE TypeOK'
  BY <1>4 DEF UpdateFiles
<1>5. ASSUME NEW p \in Pipelines, DeletePipeline(p) PROVE TypeOK'
  BY <1>5, RowTypes, Zenon DEF DeletePipeline
<1>6. ASSUME NEW p \in Pipelines, GetEnabledPipelines(p) PROVE TypeOK'
  <2>1. Job(p, "assigned") \in Jobs
    BY JobTypes
  <2> QED
    BY <1>6, <2>1 DEF GetEnabledPipelines, OldestPending, PendingRuns, Assign
<1>7. ASSUME NEW p \in Pipelines, WorkerSchedule(p) PROVE TypeOK'
  <2>1. Job(p, "assigned") \in Jobs /\ Row(p, "running") \in Rows
    BY JobTypes, RowTypes DEF Statuses
  <2> QED
    BY <1>7, <2>1 DEF WorkerSchedule, Assign
<1>8. ASSUME NEW r \in RunIDs, Age(r) PROVE TypeOK'
  BY <1>8 DEF Age
<1>9. ASSUME NEW r \in RunIDs, WorkerCrash(r) PROVE TypeOK'
  <2>1. Job(job[r].pipeline, "dead") \in Jobs
    BY JobTypes
  <2> QED
    BY <1>9, <2>1 DEF WorkerCrash
<1>10. ASSUME NEW r \in RunIDs, UpdatePipelineRun(r) PROVE TypeOK'
  <2>1. /\ Row(run[r].pipeline, report[r].status) \in Rows
        /\ Report("notify", report[r].status) \in Reports
        /\ Report("create", report[r].status) \in Reports
    BY RowTypes, ReportTypes, Zenon DEF Statuses
  <2>2. run' \in [RunIDs -> Rows]
    BY <1>10, <2>1, Zenon DEF UpdatePipelineRun
  <2>3. report' \in [RunIDs -> Reports]
    BY <1>10, <2>1, Zenon DEF UpdatePipelineRun
  <2> QED
    BY <1>10, <2>2, <2>3, Zenon DEF UpdatePipelineRun, Stamp
<1>11. ASSUME NEW r \in RunIDs, ReportCreate(r) PROVE TypeOK'
  <2>1. /\ Row(job[r].pipeline, report[r].status) \in Rows
        /\ Report("notify", report[r].status) \in Reports
        /\ Idle \in Reports
    BY RowTypes, ReportTypes, JobTypes, Zenon DEF Statuses
  <2>2. run' \in [RunIDs -> Rows]
    BY <1>11, <2>1, Zenon DEF ReportCreate
  <2>3. report' \in [RunIDs -> Reports]
    BY <1>11, <2>1, Zenon DEF ReportCreate
  <2> QED
    BY <1>11, <2>2, <2>3, Zenon DEF ReportCreate
<1>12. ASSUME NEW r \in RunIDs, ReportDone(r) PROVE TypeOK'
  <2>1. /\ Job(job[r].pipeline, "done") \in Jobs
        /\ Job(job[r].pipeline, "working") \in Jobs
        /\ Idle \in Reports
    BY ReportTypes, JobTypes
  <2> QED
    BY <1>12, <2>1 DEF ReportDone
<1>13. ASSUME NEW r \in RunIDs, ReportError(r) PROVE TypeOK'
  BY <1>13, ReportTypes DEF ReportError
<1>14. ASSUME NEW r \in RunIDs, NEW s \in Statuses, ReportPipelineRun(r, s) PROVE TypeOK'
  <2>1. /\ s = "running" \/ s \in Terminal => Report("update", s) \in Reports
        /\ Job(job[r].pipeline, "dead") \in Jobs
    BY ReportTypes, JobTypes, Zenon
  <2>2. report' \in [RunIDs -> Reports]
    BY <1>14, <2>1, Zenon DEF ReportPipelineRun
  <2>3. job' \in [RunIDs -> Jobs]
    BY <1>14, <2>1, Zenon DEF ReportPipelineRun
  <2> QED
    BY <1>14, <2>2, <2>3 DEF ReportPipelineRun
<1>15. ASSUME FailStuckRunningRuns PROVE TypeOK'
  <2>1. \A r \in RunIDs : Row(run[r].pipeline, "failed") \in Rows
    BY RowTypes DEF Statuses, Terminal
  <2> QED
    BY <1>15, <2>1 DEF FailStuckRunningRuns
<1>16. ASSUME NEW p \in Pipelines, NEW s \in Statuses, ReportWithoutID(p, s) PROVE TypeOK'
  <2>1. Row(p, s) \in Rows
    BY RowTypes
  <2> QED
    BY <1>16, <2>1 DEF ReportWithoutID
<1>17. CASE UNCHANGED vars
  BY <1>17 DEF vars
<1> QED
  BY <1>1, <1>2, <1>3, <1>4, <1>5, <1>6, <1>7, <1>8, <1>9, <1>10, <1>11, <1>12, <1>13, <1>14, <1>15, <1>16, <1>17, Zenon DEF Next, Handle

\* A step of one run: what the others have stays true of them, also when an id
\* is handed out.
LEMMA Others ==
  ASSUME IInv, TypeOK', NEW r \in RunIDs, pipelines' = pipelines, lastID' >= lastID,
         \A s \in RunIDs \ {r} :
           run'[s] = run[s] /\ report'[s] = report[s] /\ job'[s] = job[s] /\ told'[s] = told[s],
         RunOK(pipelines, lastID', r, run'[r], report'[r], job'[r], told'[r])
  PROVE  IInv'
<1>. DEFINE Now(s) == RunOK(pipelines, lastID', s, run'[s], report'[s], job'[s], told'[s])
<1>1. ASSUME NEW s \in RunIDs \ {r} PROVE Now(s)
  <2>1. RunOK(pipelines, lastID, s, run[s], report[s], job[s], told[s])
    BY DEF IInv
  <2>2. RunOK(pipelines, lastID, s, run'[s], report'[s], job'[s], told'[s])
    BY <2>1
  <2>3. s > lastID' => s > lastID
    BY BoundsAssumption DEF IInv, TypeOK, RunIDs
  <2>. QED
    BY <2>2, <2>3 DEF RunOK
<1>2. \A s \in RunIDs : Now(s)
  BY <1>1
<1>3. \A s \in RunIDs : RunOK(pipelines', lastID', s, run'[s], report'[s], job'[s], told'[s])
  BY <1>2
<1>. HIDE DEF Now
<1>. QED
  BY <1>3 DEF IInv

\* What the fields of the record constructors are.
LEMMA Fields ==
  /\ \A p, s : Row(p, s).pipeline = p /\ Row(p, s).status = s
  /\ \A c, s : Report(c, s).pc = c /\ Report(c, s).status = s
  /\ \A p, s : Job(p, s).pipeline = p /\ Job(p, s).state = s
  /\ NoRow.status = "none" /\ Idle.pc = "idle" /\ Idle.status = "none"
  BY DEF Row, Report, Job, NoRow, Idle

\* What the invariant and the types say of one run.
LEMMA OneRun ==
  ASSUME IInv, NEW r \in RunIDs
  PROVE  /\ RunOK(pipelines, lastID, r, run[r], report[r], job[r], told[r])
         /\ run[r] \in Rows /\ report[r] \in Reports /\ job[r] \in Jobs
         /\ DOMAIN run = RunIDs /\ DOMAIN report = RunIDs /\ DOMAIN job = RunIDs /\ DOMAIN told = RunIDs
         /\ lastID \in Nat /\ r \in Nat /\ told[r] \in {"none"} \cup Terminal
  BY BoundsAssumption DEF IInv, TypeOK, RunIDs

\* A run with a report in flight, or with a worker at it, is not yet
\* acknowledged.
LEMMA RunUnderway ==
  ASSUME IInv, NEW r \in RunIDs, report[r] # Idle \/ job[r].state \in {"assigned", "working"}
  PROVE  told[r] = "none" /\ ~(r > lastID)
<1>1. RunOK(pipelines, lastID, r, run[r], report[r], job[r], told[r])
  BY OneRun
<1>. QED
  BY <1>1 DEF RunOK

\* How a step may change a run whose outcome is not acknowledged: the report
\* ends, begins, goes on to the insert, or has written its status.
RowKept(r) ==
  \/ /\ run'[r].status = report[r].status /\ run'[r].pipeline \in pipelines
     /\ report'[r] = Report("notify", report[r].status)
  \/ run'[r] = run[r] /\ (report'[r] \in {Idle, report[r]} \/ report'[r].pc \in {"update", "create"})

\* Every step keeps the invariant.
LEMMA NextIInv == IInv /\ [Next]_vars => IInv'
<1>. SUFFICES ASSUME IInv, [Next]_vars PROVE IInv'
  OBVIOUS
<1>0. TypeOK'
  BY NextTypeOK DEF IInv
<1>. DEFINE Still(s) == run'[s] = run[s] /\ report'[s] = report[s] /\ job'[s] = job[s] /\ told'[s] = told[s]
            Now(r) == RunOK(pipelines, lastID', r, run'[r], report'[r], job'[r], told'[r])
<1>a. ASSUME NEW r \in RunIDs, pipelines' = pipelines, lastID' >= lastID,
             \A s \in RunIDs \ {r} : Still(s), Now(r)
      PROVE  IInv'
  BY <1>0, <1>a, Others
<1>b. ASSUME pipelines' = pipelines, lastID' = lastID, \A s \in RunIDs : Still(s) PROVE IInv'
  <2>1. ASSUME NEW r \in RunIDs PROVE RunOK(pipelines', lastID', r, run'[r], report'[r], job'[r], told'[r])
    BY <1>b, OneRun
  <2>. QED
    BY <1>0, <2>1 DEF IInv
<1>c. ASSUME NEW r \in RunIDs, UNCHANGED <<pipelines, lastID>>, \A s \in RunIDs \ {r} : Still(s),
             told[r] = "none", told'[r] = told[r], ~(r > lastID), RowKept(r)
      PROVE  IInv'
  <2>1. Now(r)
    BY <1>c, OneRun, Fields DEF RunOK, RowKept
  <2>. HIDE DEF Now
  <2>. QED
    BY <1>a, <1>c, <2>1, OneRun
<1>1. ASSUME NEW u \in Users, CreatePipelineRun(u) PROVE IInv'
  <2>1. CASE UNCHANGED <<run, lastID>>
    BY <1>1, <1>b, <2>1 DEF CreatePipelineRun, pipelineVars, workerVars
  <2>2. CASE ~UNCHANGED <<run, lastID>>
    <3>1. /\ trigger[u] \in pipelines /\ lastID < MaxRuns /\ lastID' = lastID + 1
          /\ run' = [run EXCEPT ![lastID + 1] = Row(trigger[u], "pending")]
          /\ UNCHANGED <<pipelines, report, job, told>>
      BY <1>1, <2>2, Zenon DEF CreatePipelineRun, pipelineVars, workerVars
    <3>2. lastID + 1 \in RunIDs /\ lastID' >= lastID
      BY <3>1, BoundsAssumption DEF IInv, TypeOK, RunIDs
    <3>. DEFINE r == lastID + 1
    <3>3. RunOK(pipelines, lastID, r, run[r], report[r], job[r], told[r]) /\ r > lastID /\ DOMAIN run = RunIDs
      BY <3>2, OneRun
    <3>4. run'[r] = Row(trigger[u], "pending") /\ \A s \in RunIDs \ {r} : Still(s)
      BY <3>1, <3>2, <3>3
    <3>5. Now(r)
      BY <3>1, <3>2, <3>3, <3>4, Fields DEF RunOK, Terminal
    <3>. HIDE DEF Now
    <3>. QED
      BY <1>a, <3>1, <3>2, <3>4, <3>5
  <2>. QED
    BY <2>1, <2>2
<1>2. ASSUME NEW u \in Users, NEW p \in Pipelines, TriggerPipeline(u, p) PROVE IInv'
  BY <1>2, <1>b DEF TriggerPipeline, pipelineVars, workerVars
<1>3. ASSUME NEW p \in Pipelines, UpdatePipeline(p) \/ UpdateFiles(p) PROVE IInv'
  BY <1>3, <1>b DEF UpdatePipeline, UpdateFiles, workerVars
<1>4. ASSUME NEW p \in Pipelines, DeletePipeline(p) PROVE IInv'
  <2>1. ASSUME NEW r \in RunIDs PROVE RunOK(pipelines', lastID', r, run'[r], report'[r], job'[r], told'[r])
    <3>1. /\ run'[r] = IF run[r].pipeline = p THEN NoRow ELSE run[r]
          /\ pipelines' = pipelines \ {p} /\ UNCHANGED <<lastID, report, job, told>>
      BY <1>4 DEF DeletePipeline, workerVars
    <3>. QED
      BY <3>1, OneRun, Fields DEF RunOK
  <2>. QED
    BY <1>0, <2>1 DEF IInv
<1>5. ASSUME NEW p \in Pipelines, GetEnabledPipelines(p) PROVE IInv'
  <2>1. PICK r \in RunIDs : run[r].status = "pending" /\ job[r].state \in {"idle", "dead"} /\ report[r] = Idle /\ Assign(r, p)
    BY <1>5 DEF GetEnabledPipelines, OldestPending, PendingRuns
  <2>2. UNCHANGED <<pipelines, lastID, run, report>>
    BY <1>5 DEF GetEnabledPipelines, pipelineVars
  <2>3. job'[r] = Job(p, "assigned") /\ told'[r] = "none" /\ \A s \in RunIDs \ {r} : Still(s)
    BY <2>1, <2>2, OneRun DEF Assign
  <2>4. Now(r)
    BY <2>1, <2>2, <2>3, OneRun, Fields DEF RunOK
  <2>. HIDE DEF Now
  <2>. QED
    BY <1>a, <2>2, <2>3, <2>4, OneRun
<1>6. ASSUME NEW p \in Pipelines, WorkerSchedule(p) PROVE IInv'
  <2>1. /\ p \in pipelines /\ lastID < MaxRuns /\ lastID' = lastID + 1 /\ Assign(lastID + 1, p)
        /\ run' = [run EXCEPT ![lastID + 1] = Row(p, "running")] \/ run' = run
        /\ UNCHANGED <<pipelines, report>>
    BY <1>6, Zenon DEF WorkerSchedule, Served, pipelineVars
  <2>2. lastID + 1 \in RunIDs /\ lastID' >= lastID
    BY <2>1, BoundsAssumption DEF IInv, TypeOK, RunIDs
  <2>. DEFINE r == lastID + 1
  <2>3. RunOK(pipelines, lastID, r, run[r], report[r], job[r], told[r]) /\ r > lastID
    BY <2>2, OneRun
  <2>4. /\ run'[r] \in {run[r], Row(p, "running")} /\ job'[r] = Job(p, "assigned") /\ told'[r] = "none"
        /\ report'[r] = report[r] /\ \A s \in RunIDs \ {r} : Still(s)
    BY <2>1, <2>2, OneRun DEF Assign
  <2>5. run[r].status = "none" /\ report'[r] = Idle /\ ~(r > lastID') /\ Idle.pc = "idle"
    BY <2>1, <2>2, <2>3, <2>4, OneRun, Fields DEF RunOK
  <2>6. run'[r].status # "none" => run'[r].pipeline \in pipelines
    BY <2>1, <2>4, <2>5, Fields
  <2>7. Now(r)
    BY <2>4, <2>5, <2>6 DEF RunOK
  <2>. HIDE DEF Now
  <2>. QED
    BY <1>a, <2>1, <2>2, <2>4, <2>7
<1>7. ASSUME NEW r \in RunIDs, Age(r) PROVE IInv'
  BY <1>7, <1>b DEF Age, pipelineVars, workerVars
<1>8. ASSUME NEW r \in RunIDs, WorkerCrash(r) \/ ReportError(r) PROVE IInv'
  <2>1. /\ UNCHANGED <<pipelines, lastID, run, told>> /\ \A s \in RunIDs \ {r} : Still(s)
        /\ \/ report[r] # Idle /\ report'[r] = Idle /\ job'[r] = job[r]
           \/ job[r].state \in {"assigned", "working"} /\ report'[r] = report[r]
    <3>1. CASE WorkerCrash(r)
      BY <3>1, OneRun DEF WorkerCrash, pipelineVars
    <3>2. CASE ReportError(r)
      BY <3>2, OneRun DEF ReportError, pipelineVars
    <3>. QED
      BY <1>8, <3>1, <3>2
  <2>2. told[r] = "none" /\ ~(r > lastID)
    BY <2>1, RunUnderway
  <2>3. RowKept(r)
    BY <2>1 DEF RowKept
  <2>. QED
    BY <1>c, <2>1, <2>2, <2>3
<1>9. ASSUME NEW r \in RunIDs, UpdatePipelineRun(r) \/ ReportCreate(r) PROVE IInv'
  <2>1. /\ UNCHANGED <<pipelines, lastID, job, told>> /\ \A s \in RunIDs \ {r} : Still(s)
        /\ report[r].pc \in {"update", "create"} /\ RowKept(r)
    <3>1. CASE UpdatePipelineRun(r)
      <4>1. run[r].status # "none" => run[r].pipeline \in pipelines
        BY OneRun DEF RunOK
      <4>. QED
        BY <3>1, <4>1, OneRun, Fields DEF UpdatePipelineRun, RowKept, pipelineVars, workerVars
    <3>2. CASE ReportCreate(r)
      BY <3>2, OneRun, Fields DEF ReportCreate, RowKept, pipelineVars, workerVars
    <3>. QED
      BY <1>9, <3>1, <3>2
  <2>2. told[r] = "none" /\ ~(r > lastID)
    BY <2>1, RunUnderway, Fields
  <2>. QED
    BY <1>c, <2>1, <2>2
<1>10. ASSUME NEW r \in RunIDs, ReportDone(r) PROVE IInv'
  <2>1. /\ UNCHANGED <<pipelines, lastID, run>> /\ \A s \in RunIDs \ {r} : Still(s)
        /\ report[r].pc = "notify" /\ report'[r] = Idle
        /\ \/ /\ report[r].status \in Terminal /\ job'[r] = Job(job[r].pipeline, "done")
              /\ told'[r] = report[r].status
           \/ told'[r] = told[r]
    BY <1>10, OneRun DEF ReportDone, pipelineVars
  <2>2. told[r] = "none" /\ ~(r > lastID)
    BY <2>1, RunUnderway, Fields
  <2>3. CASE told'[r] = told[r]
    <3>1. RowKept(r)
      BY <2>1 DEF RowKept
    <3>. QED
      BY <1>c, <2>1, <2>2, <2>3, <3>1
  <2>4. CASE told'[r] # told[r]
    <3>1. /\ run[r].status # "none" => run[r].status = told'[r] /\ run[r].pipeline \in pipelines
          /\ job'[r].state = "done" /\ run'[r] = run[r]
      BY <2>1, <2>4, OneRun, Fields DEF RunOK
    <3>2. Now(r)
      BY <2>1, <2>2, <3>1, Fields DEF RunOK
    <3>. HIDE DEF Now
    <3>. QED
      BY <1>a, <2>1, <3>2, OneRun
  <2>. QED
    BY <2>3, <2>4
<1>11. ASSUME NEW r \in RunIDs, NEW s \in Statuses, ReportPipelineRun(r, s) PROVE IInv'
  <2>1. /\ UNCHANGED <<pipelines, lastID, run, told>> /\ \A i \in RunIDs \ {r} : Still(i)
        /\ job[r].state \in {"assigned", "working"}
        /\ report'[r] \in {Report("update", s), report[r]}
    BY <1>11, OneRun DEF ReportPipelineRun, pipelineVars
  <2>2. told[r] = "none" /\ ~(r > lastID)
    BY <2>1, RunUnderway
  <2>3. run'[r] = run[r] /\ (report'[r] = report[r] \/ report'[r].pc = "update")
    <3>1. Report("update", s).pc = "update"
      BY Fields, Zenon
    <3>. QED
      BY <2>1, <3>1, Zenon
  <2>4. RowKept(r)
    BY <2>3, Zenon DEF RowKept
  <2>. QED
    BY <1>c, <2>1, <2>2, <2>4
<1>12. ASSUME FailStuckRunningRuns PROVE IInv'
  <2>1. ASSUME NEW r \in RunIDs PROVE RunOK(pipelines', lastID', r, run'[r], report'[r], job'[r], told'[r])
    <3>1. /\ UNCHANGED <<pipelines, lastID, report, job, told>>
          /\ \/ run'[r] = run[r]
             \/ run[r].status = "running" /\ run[r].pipeline \in pipelines /\ run'[r] = Row(run[r].pipeline, "failed")
      BY <1>12 DEF FailStuckRunningRuns, Stuck, pipelineVars, workerVars
    <3>2. CASE run'[r] = run[r]
      BY <3>1, <3>2, OneRun
    <3>3. CASE run'[r] # run[r]
      <4>1. told[r] = "none" /\ ~(report[r].pc = "notify" /\ report[r].status \in Terminal) /\ ~(r > lastID)
        BY <3>1, <3>3, OneRun DEF RunOK, Terminal
      <4>. QED
        BY <3>1, <3>3, <4>1, OneRun, Fields DEF RunOK
    <3>. QED
      BY <3>2, <3>3
  <2>. QED
    BY <1>0, <2>1 DEF IInv
<1>13. ASSUME NEW p \in Pipelines, NEW s \in Statuses, ReportWithoutID(p, s) PROVE IInv'
  <2>1. /\ p \in pipelines /\ lastID < MaxRuns /\ lastID' = lastID + 1
        /\ run' = [run EXCEPT ![lastID + 1] = Row(p, s)]
        /\ UNCHANGED <<pipelines, report, job, told>>
    BY <1>13 DEF ReportWithoutID, pipelineVars, workerVars
  <2>2. lastID + 1 \in RunIDs /\ lastID' >= lastID
    BY <2>1, BoundsAssumption DEF IInv, TypeOK, RunIDs
  <2>. DEFINE r == lastID + 1
  <2>3. RunOK(pipelines, lastID, r, run[r], report[r], job[r], told[r]) /\ r > lastID /\ DOMAIN run = RunIDs
    BY <2>2, OneRun
  <2>4. run'[r] = Row(p, s) /\ \A i \in RunIDs \ {r} : Still(i)
    BY <2>1, <2>2, <2>3
  <2>5. Now(r)
    BY <2>1, <2>2, <2>3, <2>4, Fields DEF RunOK, Terminal
  <2>. HIDE DEF Now
  <2>. QED
    BY <1>a, <2>1, <2>2, <2>4, <2>5
<1>14. CASE UNCHANGED vars
  BY <1>14, <1>b DEF vars
<1>. QED
  BY <1>1, <1>2, <1>3, <1>4, <1>5, <1>6, <1>7, <1>8, <1>9, <1>10, <1>11, <1>12, <1>13, <1>14 DEF Next, Handle

\* For all constants: every run row has its pipeline (foreign key and cascade
\* of pipeline_runs) and an acknowledged outcome is never changed.
THEOREM RunSafety == Spec => [](TypeOK /\ RunHasPipeline /\ OutcomeKept)
<1>1. IInv => TypeOK /\ RunHasPipeline /\ OutcomeKept
  BY DEF IInv, RunOK, RunHasPipeline, OutcomeKept
<1> QED
  BY InitIInv, NextIInv, <1>1, PTL DEF Spec

-----------------------------------------------------------------------------
(* Service accounts: while nothing else touches an account, every call of  *)
(* its addition finds what the calls before it left.                       *)

AddSteps == {"app", "token", "register", "read", "assign", "sync", "unregister", "cleanup"}
RemoveSteps == {"list", "roles", "unuser", "unapp", "resync"}
Relations == roleManagedRelations \cup adminRelations
GrantedRoles == {"reader", "writer", "admin"}
CatalogCalls ==
  [pc : AddSteps \cup RemoveSteps, acct : Accounts, role : GrantedRoles \cup {"none"}, wh : Warehouses \cup {"none"},
   have : SUBSET Relations, todo : SUBSET Warehouses, alone : BOOLEAN]

CatalogTypes ==
  /\ op \in [Ops -> CatalogCalls \cup {NoOp}]
  /\ rel \in [Warehouses -> [Accounts -> SUBSET Relations]]
  /\ whs \subseteq Warehouses
  /\ "oidc" \in apps

\* The workspace's own application is never added, so it is never removed.
CatalogFits(r) ==
  /\ r.pc # "app" => r.acct # "oidc"
  /\ r.pc \in AddSteps => r.role \in GrantedRoles /\ r.wh \in Warehouses

\* What the calls made so far have left.
Achieved(r, applications, registered, existing, relations) ==
  /\ r.pc \in {"token", "register", "read", "assign", "sync"} => r.acct \in applications
  /\ r.pc \in {"read", "assign", "sync"} => r.acct \in registered
  /\ r.pc \in {"assign", "sync"} => r.wh \in existing
  /\ r.pc = "assign" => r.have = relations[r.wh][r.acct]
  /\ r.pc = "sync" => relations[r.wh][r.acct] = Due(r)

SoloInv(o) ==
  op[o] # NoOp /\ op[o].alone =>
    /\ \A p \in Ops \ {o} : op[p].acct # op[o].acct
    /\ Achieved(op[o], apps, users, whs, rel)

CatalogInv ==
  /\ CatalogTypes
  /\ \A o \in Ops : op[o] # NoOp => CatalogFits(op[o])
  /\ \A o \in Ops : SoloInv(o)

LEMMA NoOpFacts == NoOp.pc = "idle" /\ NoOp.acct = "none" /\ NoOp \notin CatalogCalls
<1>1. NoOp.pc = "idle" /\ NoOp.acct = "none"
  BY DEF NoOp
<1>2. \A r \in CatalogCalls : r.pc # "idle"
  BY DEF CatalogCalls, AddSteps, RemoveSteps
<1>. QED
  BY <1>1, <1>2

LEMMA OpOpen ==
  ASSUME CatalogInv, NEW o \in Ops, op[o].pc # "idle"
  PROVE  op[o] \in CatalogCalls /\ op[o] # NoOp /\ CatalogFits(op[o]) /\ op[o].acct \in Accounts
<1>1. op[o] \in CatalogCalls /\ op[o] # NoOp /\ CatalogFits(op[o])
  BY NoOpFacts DEF CatalogInv, CatalogTypes
<1>. QED
  BY <1>1 DEF CatalogCalls

LEMMA RelationsManaged == \A role : warehouseRelations(role) \subseteq roleManagedRelations
  BY DEF warehouseRelations, roleManagedRelations

\* The difference makes what is there what is wanted, and keeps what no role
\* manages.
LEMMA PatchedExact ==
  ASSUME NEW want \in SUBSET roleManagedRelations, NEW have \in SUBSET Relations
  PROVE  Patch(Diff(want, have), have) = want \cup (have \cap adminRelations)
<1>1. roleManagedRelations \cap adminRelations = {}
  BY DEF roleManagedRelations, adminRelations
<1>. QED
  BY <1>1 DEF Patch, Diff, Relations

LEMMA InitCatalogInv == CInit => CatalogInv
<1>. SUFFICES ASSUME CInit PROVE CatalogInv
  OBVIOUS
<1>1. CatalogTypes /\ \A o \in Ops : op[o] = NoOp
  BY DEF CInit, CatalogTypes, Relations
<1>. QED
  BY <1>1 DEF CatalogInv, SoloInv

\* A call of one request changes nothing of the other accounts.
LEMMA OpSet ==
  ASSUME CatalogInv, NEW o \in Ops, op[o].pc # "idle", NEW r \in CatalogCalls \cup {NoOp}, op' = [op EXCEPT ![o] = r],
         r # NoOp => CatalogFits(r) /\ r.acct = op[o].acct /\ r.alone = op[o].alone,
         r # NoOp /\ op[o].alone => Achieved(r, apps', users', whs', rel'),
         rel' \in [Warehouses -> [Accounts -> SUBSET Relations]], whs' = whs, "oidc" \in apps',
         \A a \in Accounts \ {op[o].acct} :
           /\ a \in apps => a \in apps'
           /\ a \in users => a \in users'
           /\ \A w \in Warehouses : rel'[w][a] = rel[w][a]
  PROVE  CatalogInv'
<1>0. op[o] \in CatalogCalls /\ op[o] # NoOp
  BY OpOpen
<1>1. op' \in [Ops -> CatalogCalls \cup {NoOp}] /\ op'[o] = r /\ \A p \in Ops \ {o} : op'[p] = op[p]
  BY DEF CatalogInv, CatalogTypes
<1>2. CatalogTypes'
  BY <1>1 DEF CatalogInv, CatalogTypes
<1>3. \A p \in Ops : op'[p] # NoOp => CatalogFits(op'[p])
  BY <1>1 DEF CatalogInv
<1>4. ASSUME NEW p \in Ops PROVE SoloInv(p)'
  <2>1. SUFFICES ASSUME op'[p] # NoOp, op'[p].alone
                 PROVE  /\ \A q \in Ops \ {p} : op'[q].acct # op'[p].acct
                        /\ Achieved(op'[p], apps', users', whs', rel')
    BY DEF SoloInv
  <2>2. op'[p].acct = op[p].acct /\ op'[p].alone = op[p].alone /\ op[p] # NoOp
    BY <1>0, <1>1, <2>1
  <2>3. (\A q \in Ops \ {p} : op[q].acct # op[p].acct) /\ Achieved(op[p], apps, users, whs, rel)
    BY <2>1, <2>2 DEF CatalogInv, SoloInv
  <2>4. op[p] \in CatalogCalls /\ op[p].acct \in Accounts /\ CatalogFits(op[p])
    BY <2>2 DEF CatalogInv, CatalogTypes, CatalogCalls
  <2>5. \A q \in Ops : op'[q].acct \in {op[q].acct, "none"}
    BY <1>1, NoOpFacts
  <2>6. \A q \in Ops \ {p} : op'[q].acct # op'[p].acct
    BY <2>2, <2>3, <2>4, <2>5, CatalogAssumption, Zenon
  <2>7. Achieved(op'[p], apps', users', whs', rel')
    <3>1. CASE p = o
      BY <1>1, <2>1, <2>2, <3>1
    <3>2. CASE p # o
      <4>1. op'[p] = op[p] /\ op[p].acct \in Accounts \ {op[o].acct}
        BY <1>1, <2>3, <2>4, <3>2
      <4>2. op[p].pc \in {"assign", "sync"} => op[p].wh \in Warehouses
        BY <2>4 DEF CatalogFits, AddSteps
      <4>. DEFINE x == op[p]
      <4>. HIDE DEF x
      <4>3. Achieved(x, apps, users, whs, rel)
        BY <2>3 DEF x
      <4>4. /\ x.acct \in apps => x.acct \in apps'
            /\ x.acct \in users => x.acct \in users'
            /\ \A w \in Warehouses : rel'[w][x.acct] = rel[w][x.acct]
        BY <4>1, Zenon DEF x
      <4>5. x.pc \in {"assign", "sync"} => x.wh \in Warehouses
        BY <4>2, Zenon DEF x
      <4>6. Achieved(x, apps', users', whs', rel')
        BY <4>3, <4>4, <4>5 DEF Achieved
      <4>. QED
        BY <4>1, <4>6 DEF x
    <3>. QED
      BY <3>1, <3>2
  <2>. QED
    BY <2>6, <2>7
<1>. QED
  BY <1>2, <1>3, <1>4 DEF CatalogInv

\* The end of a request, and its move to another call.
LEMMA FinishKeeps ==
  ASSUME CatalogInv, NEW o \in Ops, op[o].pc # "idle", Finish(o),
         rel' \in [Warehouses -> [Accounts -> SUBSET Relations]], whs' = whs, "oidc" \in apps',
         \A a \in Accounts \ {op[o].acct} :
           /\ a \in apps => a \in apps'
           /\ a \in users => a \in users'
           /\ \A w \in Warehouses : rel'[w][a] = rel[w][a]
  PROVE  CatalogInv'
<1>1. op' = [op EXCEPT ![o] = NoOp]
  BY DEF Finish, Turn
<1>. QED
  BY <1>1, OpSet, Zenon

LEMMA ToKeeps ==
  ASSUME CatalogInv, NEW o \in Ops, op[o].pc # "idle", NEW pc \in AddSteps \cup RemoveSteps, To(o, pc),
         pc # "app", op[o].acct # "oidc", pc \in AddSteps => op[o].pc \in AddSteps,
         op[o].alone =>
           /\ pc \in {"token", "register", "read", "assign", "sync"} => op[o].acct \in apps'
           /\ pc \in {"read", "assign", "sync"} => op[o].acct \in users'
           /\ pc \in {"assign", "sync"} => op[o].wh \in whs'
           /\ pc = "assign" => op[o].have = rel'[op[o].wh][op[o].acct]
           /\ pc = "sync" => rel'[op[o].wh][op[o].acct] = Due(op[o]),
         rel' \in [Warehouses -> [Accounts -> SUBSET Relations]], whs' = whs, "oidc" \in apps',
         \A a \in Accounts \ {op[o].acct} :
           /\ a \in apps => a \in apps'
           /\ a \in users => a \in users'
           /\ \A w \in Warehouses : rel'[w][a] = rel[w][a]
  PROVE  CatalogInv'
<1>. DEFINE r == [op[o] EXCEPT !.pc = pc]
<1>0. op[o] \in CatalogCalls /\ op[o] # NoOp /\ CatalogFits(op[o])
  BY OpOpen
<1>1. op' = [op EXCEPT ![o] = r]
  BY DEF To, Turn
<1>2. /\ r \in CatalogCalls /\ r.pc = pc /\ r.acct = op[o].acct /\ r.role = op[o].role /\ r.wh = op[o].wh
      /\ r.have = op[o].have /\ r.alone = op[o].alone
  BY <1>0 DEF CatalogCalls
<1>. HIDE DEF r
<1>3. CatalogFits(r)
  BY <1>0, <1>2 DEF CatalogFits
<1>4. op[o].alone => Achieved(r, apps', users', whs', rel')
  BY <1>2 DEF Achieved, Due
<1>. QED
  BY <1>1, <1>2, <1>3, <1>4, OpSet, Zenon

\* What a request that is alone has achieved.
LEMMA SoloFacts ==
  ASSUME CatalogInv, NEW o \in Ops, op[o].pc # "idle", op[o].alone
  PROVE  Achieved(op[o], apps, users, whs, rel)
  BY OpOpen DEF CatalogInv, SoloInv

\* What a step that leaves the stores alone keeps of them.
StoresKept == UNCHANGED <<rel, whs, apps, users>>

LEMMA AdditionKeeps ==
  ASSUME CatalogInv, NEW o \in Ops, AddApp(o) \/ GetClientToken(o) \/ CreateUser(o) \/ Unregister(o) \/ cleanup(o)
  PROVE  CatalogInv'
<1>0. op[o].pc # "idle"
  BY DEF AddApp, GetClientToken, CreateUser, Unregister, cleanup
<1>1. op[o] \in CatalogCalls /\ CatalogFits(op[o]) /\ op[o].acct \in Accounts
  BY <1>0, OpOpen
<1>2. rel \in [Warehouses -> [Accounts -> SUBSET Relations]] /\ "oidc" \in apps
  BY DEF CatalogInv, CatalogTypes
<1>3. CASE AddApp(o)
  <2>1. op[o].pc = "app" /\ UNCHANGED <<users, rel, whs>>
    BY <1>3, Zenon DEF AddApp
  <2>2. CASE op[o].acct \notin apps /\ apps' = apps \cup {op[o].acct} /\ To(o, "token")
    <3>1. op[o].acct # "oidc"
      BY <1>2, <2>2
    <3>. QED
      BY <1>0, <1>2, <2>1, <2>2, <3>1, ToKeeps, Zenon DEF AddSteps
  <2>3. CASE Finish(o) /\ (apps' = apps \/ apps' = apps \cup {op[o].acct})
    BY <1>0, <1>2, <2>1, <2>3, FinishKeeps, Zenon
  <2>. QED
    BY <1>3, <2>2, <2>3, Zenon DEF AddApp
<1>4. CASE GetClientToken(o)
  <2>1. op[o].pc = "token" /\ StoresKept /\ (To(o, "register") \/ To(o, "cleanup"))
    BY <1>4 DEF GetClientToken, Undo, StoresKept
  <2>2. op[o].acct # "oidc"
    BY <1>1, <2>1 DEF CatalogFits
  <2>3. op[o].alone => op[o].acct \in apps
    BY <1>0, <2>1, SoloFacts, Zenon DEF Achieved
  <2>4. CASE To(o, "register")
    BY <1>0, <1>2, <2>1, <2>2, <2>3, <2>4, ToKeeps DEF AddSteps, StoresKept
  <2>5. CASE To(o, "cleanup")
    BY <1>0, <1>2, <2>1, <2>2, <2>5, ToKeeps DEF AddSteps, StoresKept
  <2>. QED
    BY <2>1, <2>4, <2>5
<1>5. CASE CreateUser(o)
  <2>1. op[o].pc = "register" /\ UNCHANGED <<apps, rel, whs>>
    BY <1>5 DEF CreateUser
  <2>2. op[o].acct # "oidc"
    BY <1>1, <2>1 DEF CatalogFits
  <2>3. op[o].alone => op[o].acct \in apps
    BY <1>0, <2>1, SoloFacts DEF Achieved
  <2>4. CASE users' = users \cup {op[o].acct} /\ To(o, "read")
    BY <1>0, <1>2, <2>1, <2>2, <2>3, <2>4, ToKeeps, ZenonT(30) DEF AddSteps
  <2>5. CASE users' \in {users, users \cup {op[o].acct}} /\ To(o, "cleanup")
    BY <1>0, <1>2, <2>1, <2>2, <2>5, ToKeeps DEF AddSteps
  <2>. QED
    BY <1>5, <2>4, <2>5 DEF CreateUser, Undo
<1>6. CASE Unregister(o)
  <2>1. op[o].pc = "unregister" /\ UNCHANGED <<apps, rel, whs>> /\ To(o, "cleanup") /\ users' \in {users, users \ {op[o].acct}}
    BY <1>6 DEF Unregister
  <2>2. op[o].acct # "oidc"
    BY <1>1, <2>1 DEF CatalogFits
  <2>. QED
    BY <1>0, <1>2, <2>1, <2>2, ToKeeps DEF AddSteps
<1>7. CASE cleanup(o)
  <2>1. op[o].pc = "cleanup" /\ UNCHANGED <<users, rel, whs>> /\ Finish(o) /\ apps' \in {apps, apps \ {op[o].acct}}
    BY <1>7 DEF cleanup
  <2>2. op[o].acct # "oidc"
    BY <1>1, <2>1 DEF CatalogFits
  <2>. QED
    BY <1>0, <1>2, <2>1, <2>2, FinishKeeps
<1>. QED
  BY <1>3, <1>4, <1>5, <1>6, <1>7

LEMMA AssignmentKeeps ==
  ASSUME CatalogInv, NEW o \in Ops, ReadAssignments(o) \/ AssignWarehouseRole(o) PROVE CatalogInv'
<1>. DEFINE a == op[o].acct
            w == op[o].wh
<1>0. op[o].pc # "idle" /\ op[o].pc \in {"read", "assign"}
  BY DEF ReadAssignments, AssignWarehouseRole
<1>1. op[o] \in CatalogCalls /\ CatalogFits(op[o]) /\ a \in Accounts
  BY <1>0, OpOpen
<1>2. rel \in [Warehouses -> [Accounts -> SUBSET Relations]] /\ "oidc" \in apps
  BY DEF CatalogInv, CatalogTypes
<1>3. w \in Warehouses /\ a # "oidc"
  BY <1>0, <1>1 DEF CatalogFits, AddSteps
<1>4. CASE ReadAssignments(o)
  <2>1. op[o].pc = "read" /\ StoresKept
    BY <1>4 DEF ReadAssignments, StoresKept
  <2>2. op[o].alone => a \in apps /\ a \in users
    BY <1>0, <2>1, SoloFacts DEF Achieved
  <2>3. CASE To(o, "cleanup")
    BY <1>0, <1>2, <1>3, <2>1, <2>3, ToKeeps DEF AddSteps, StoresKept
  <2>4. CASE w \in whs /\ Turn(o, [op[o] EXCEPT !.pc = "assign", !.have = rel[w][a]])
    <3>. DEFINE r1 == [op[o] EXCEPT !.pc = "assign"]
                r == [r1 EXCEPT !.have = rel[w][a]]
    <3>1. /\ r1 \in CatalogCalls /\ r1.pc = "assign" /\ r1.acct = a /\ r1.wh = w /\ r1.alone = op[o].alone
          /\ r1.role = op[o].role
      BY <1>1 DEF CatalogCalls, AddSteps
    <3>2. Turn(o, r)
      BY <2>4
    <3>. HIDE DEF r1
    <3>3. rel[w][a] \in SUBSET Relations
      BY <1>1, <1>2, <1>3
    <3>4. /\ r \in CatalogCalls /\ r.pc = "assign" /\ r.acct = a /\ r.wh = w /\ r.alone = op[o].alone
          /\ r.role = op[o].role /\ r.have = rel[w][a]
      BY <3>1, <3>3 DEF CatalogCalls
    <3>. HIDE DEF r
    <3>5. CatalogFits(r)
      BY <1>1, <1>3, <2>1, <3>4 DEF CatalogFits, AddSteps
    <3>6. op[o].alone => Achieved(r, apps', users', whs', rel')
      BY <2>1, <2>2, <2>4, <3>4 DEF Achieved, StoresKept
    <3>. QED
      BY <1>0, <1>2, <2>1, <3>2, <3>4, <3>5, <3>6, OpSet, Zenon DEF Turn, StoresKept
  <2>. QED
    BY <1>4, <2>3, <2>4 DEF ReadAssignments, Undo
<1>5. CASE AssignWarehouseRole(o)
  <2>. DEFINE want == warehouseRelations(op[o].role)
              d == Diff(want, op[o].have)
              now == rel[w][a]
              done == [rel EXCEPT ![w][a] = Patch(d, now)]
  <2>1. op[o].pc = "assign" /\ UNCHANGED <<apps, users, whs>>
    BY <1>5, Zenon DEF AssignWarehouseRole
  <2>2. \/ rel' = done /\ To(o, "sync")
        \/ rel' \in {rel, done} /\ To(o, "cleanup")
    BY <1>5, Zenon DEF AssignWarehouseRole, Undo
  <2>3. op[o].alone => a \in apps /\ a \in users /\ w \in whs /\ op[o].have = now
    BY <1>0, <2>1, SoloFacts DEF Achieved
  <2>4. now \in SUBSET Relations
    BY <1>1, <1>2, <1>3
  <2>5. Patch(d, now) \in SUBSET Relations
    BY <2>4, RelationsManaged DEF Patch, Diff, Relations
  <2>6. op[o].alone => Patch(d, now) = Due(op[o])
    BY <2>3, <2>4, PatchedExact, RelationsManaged DEF Due
  <2>7. /\ done \in [Warehouses -> [Accounts -> SUBSET Relations]] /\ done[w][a] = Patch(d, now)
        /\ \A b \in Accounts \ {a}, v \in Warehouses : done[v][b] = rel[v][b]
    <3>. HIDE DEF d, now
    <3>. QED
      BY <1>1, <1>2, <1>3, <2>5, Zenon
  <2>8. /\ rel' \in [Warehouses -> [Accounts -> SUBSET Relations]]
        /\ \A b \in Accounts \ {a}, v \in Warehouses : rel'[v][b] = rel[v][b]
    <3>. HIDE DEF done
    <3>. QED
      BY <1>2, <2>2, <2>7
  <2>9. CASE To(o, "cleanup")
    <3>. HIDE DEF done
    <3>. QED
      BY <1>0, <1>2, <1>3, <2>1, <2>8, <2>9, ToKeeps, Zenon DEF AddSteps
  <2>10. CASE rel' = done /\ To(o, "sync")
    <3>1. op[o].alone => rel'[w][a] = Due(op[o])
      <4>. HIDE DEF d, now, done, want
      <4>. QED
        BY <2>6, <2>7, <2>10, Zenon
    <3>. HIDE DEF done, d, now
    <3>. QED
      BY <1>0, <1>2, <1>3, <2>1, <2>3, <2>8, <2>10, <3>1, ToKeeps, Zenon DEF AddSteps
  <2>. QED
    BY <2>2, <2>9, <2>10
<1>. QED
  BY <1>4, <1>5

LEMMA SyncKeeps ==
  ASSUME CatalogInv, NEW o \in Ops, syncAudiences(o) PROVE CatalogInv'
<1>0. op[o].pc # "idle" /\ StoresKept
  BY DEF syncAudiences, StoresKept
<1>1. op[o] \in CatalogCalls /\ CatalogFits(op[o]) /\ op[o].acct \in Accounts
  BY <1>0, OpOpen
<1>2. rel \in [Warehouses -> [Accounts -> SUBSET Relations]] /\ "oidc" \in apps
  BY DEF CatalogInv, CatalogTypes
<1>3. CASE Finish(o)
  BY <1>0, <1>2, <1>3, FinishKeeps DEF StoresKept
<1>4. CASE op[o].pc = "sync" /\ To(o, "unregister")
  <2>1. op[o].acct # "oidc"
    BY <1>1, <1>4 DEF CatalogFits
  <2>. QED
    BY <1>0, <1>2, <1>4, <2>1, ToKeeps DEF StoresKept, AddSteps
<1>. QED
  BY <1>3, <1>4 DEF syncAudiences, Undo

LEMMA RemovalKeeps ==
  ASSUME CatalogInv, NEW o \in Ops, ListAllWarehouses(o) \/ removeWarehouseRoles(o) \/ DeleteUser(o) \/ DeleteApp(o)
  PROVE  CatalogInv'
<1>. DEFINE a == op[o].acct
<1>0. op[o].pc # "idle" /\ op[o].pc \in {"list", "roles", "unuser", "unapp"}
  BY DEF ListAllWarehouses, removeWarehouseRoles, DeleteUser, DeleteApp
<1>1. op[o] \in CatalogCalls /\ CatalogFits(op[o]) /\ a \in Accounts
  BY <1>0, OpOpen
<1>2. rel \in [Warehouses -> [Accounts -> SUBSET Relations]] /\ "oidc" \in apps
  BY DEF CatalogInv, CatalogTypes
<1>3. a # "oidc" /\ op[o].todo \subseteq Warehouses
  BY <1>0, <1>1 DEF CatalogFits, CatalogCalls
<1>4. CASE removeWarehouseRoles(o)
  <2>1. op[o].pc = "roles" /\ UNCHANGED <<apps, users, whs>>
    BY <1>4 DEF removeWarehouseRoles
  <2>2. CASE To(o, "unuser") /\ UNCHANGED rel
    BY <1>0, <1>2, <1>3, <2>1, <2>2, ToKeeps, Zenon DEF RemoveSteps, AddSteps
  <2>3. CASE Finish(o) /\ UNCHANGED rel
    BY <1>0, <1>2, <2>1, <2>3, FinishKeeps
  <2>4. ASSUME NEW w \in op[o].todo, Turn(o, [op[o] EXCEPT !.todo = @ \ {w}]), rel' \in {rel, [rel EXCEPT ![w][a] = {}]}
        PROVE  CatalogInv'
    <3>. DEFINE r == [op[o] EXCEPT !.todo = op[o].todo \ {w}]
                gone == [rel EXCEPT ![w][a] = {}]
    <3>1. Turn(o, r)
      BY <1>1, <2>4 DEF CatalogCalls
    <3>2. /\ r \in CatalogCalls /\ r.pc = op[o].pc /\ r.acct = a /\ r.wh = op[o].wh /\ r.alone = op[o].alone
          /\ r.role = op[o].role
      BY <1>1 DEF CatalogCalls
    <3>. HIDE DEF r
    <3>3. /\ gone \in [Warehouses -> [Accounts -> SUBSET Relations]]
          /\ \A b \in Accounts \ {a}, v \in Warehouses : gone[v][b] = rel[v][b]
      BY <1>1, <1>2, <1>3, Zenon
    <3>4. rel' \in {rel, gone}
      BY <2>4
    <3>. HIDE DEF gone
    <3>5. /\ rel' \in [Warehouses -> [Accounts -> SUBSET Relations]]
          /\ \A b \in Accounts \ {a}, v \in Warehouses : rel'[v][b] = rel[v][b]
      BY <1>2, <3>3, <3>4, Zenon
    <3>6. CatalogFits(r) /\ Achieved(r, apps', users', whs', rel')
      BY <1>1, <2>1, <3>2 DEF CatalogFits, Achieved
    <3>. QED
      BY <1>0, <1>2, <2>1, <3>1, <3>2, <3>5, <3>6, OpSet, Zenon DEF Turn
  <2>. QED
    BY <1>4, <2>2, <2>3, <2>4, Zenon DEF removeWarehouseRoles, RemoveWarehouseRole
<1>5. CASE DeleteUser(o)
  <2>1. UNCHANGED <<apps, rel, whs>> /\ users' \in {users, users \ {a}} /\ (Finish(o) \/ To(o, "unapp"))
    BY <1>5, ZenonT(30) DEF DeleteUser
  <2>2. CASE Finish(o)
    BY <1>0, <1>2, <2>1, <2>2, FinishKeeps
  <2>3. CASE To(o, "unapp")
    BY <1>0, <1>2, <1>3, <2>1, <2>3, ToKeeps, Zenon DEF RemoveSteps, AddSteps
  <2>. QED
    BY <2>1, <2>2, <2>3
<1>6. CASE DeleteApp(o)
  <2>1. UNCHANGED <<users, rel, whs>> /\ apps' \in {apps, apps \ {a}} /\ (Finish(o) \/ To(o, "resync"))
    BY <1>6 DEF DeleteApp
  <2>2. CASE Finish(o)
    BY <1>0, <1>2, <1>3, <2>1, <2>2, FinishKeeps, Zenon
  <2>3. CASE To(o, "resync")
    BY <1>0, <1>2, <1>3, <2>1, <2>3, ToKeeps, Zenon DEF RemoveSteps, AddSteps
  <2>. QED
    BY <2>1, <2>2, <2>3
<1>7. CASE ListAllWarehouses(o)
  <2>1. op[o].pc = "list" /\ StoresKept
    BY <1>7 DEF ListAllWarehouses, StoresKept
  <2>2. CASE Finish(o)
    BY <1>0, <1>2, <2>1, <2>2, FinishKeeps DEF StoresKept
  <2>3. CASE Turn(o, [op[o] EXCEPT !.pc = "roles", !.todo = whs])
    <3>. DEFINE r == [op[o] EXCEPT !.pc = "roles", !.todo = whs]
    <3>1. whs \subseteq Warehouses
      BY DEF CatalogInv, CatalogTypes
    <3>2. /\ r \in CatalogCalls /\ r.pc = "roles" /\ r.acct = a /\ r.alone = op[o].alone
      BY <1>1, <3>1, Zenon DEF CatalogCalls, RemoveSteps
    <3>3. op' = [op EXCEPT ![o] = r]
      BY <2>3 DEF Turn
    <3>. HIDE DEF r
    <3>4. CatalogFits(r) /\ Achieved(r, apps', users', whs', rel')
      BY <1>3, <3>2 DEF CatalogFits, Achieved, AddSteps
    <3>. QED
      BY <1>0, <1>2, <2>1, <3>2, <3>3, <3>4, OpSet, Zenon DEF StoresKept
  <2>. QED
    BY <1>7, <2>2, <2>3 DEF ListAllWarehouses
<1>. QED
  BY <1>4, <1>5, <1>6, <1>7

\* A request that is accepted: it is alone if no other is about its account,
\* and ends the solitude of those that are.
LEMMA AcceptedKeeps ==
  ASSUME CatalogInv, NEW o \in Ops, op[o].pc = "idle", NEW r \in CatalogCalls, CatalogFits(r), Accepted(o, r),
         r.pc \in {"app", "list"}, UNCHANGED <<apps, users, rel, whs>>
  PROVE  CatalogInv' /\ \A p \in Ops : op[p] # NoOp => op'[p] # NoOp
<1>. DEFINE solo == \A q \in Ops : op[q].acct # r.acct
            s == [r EXCEPT !.alone = solo]
<1>1. solo \in BOOLEAN
  OBVIOUS
<1>2. op' = [p \in Ops |-> IF p = o THEN s
                           ELSE IF op[p].acct = r.acct THEN [op[p] EXCEPT !.alone = FALSE] ELSE op[p]]
  BY DEF Accepted
<1>3. s \in CatalogCalls /\ s.pc = r.pc /\ s.acct = r.acct /\ s.role = r.role /\ s.wh = r.wh /\ s.alone = solo
  <2>. HIDE DEF solo
  <2>. QED
    BY <1>1 DEF CatalogCalls
<1>. HIDE DEF s
<1>4. r.acct \in Accounts /\ r.acct # "none"
  BY CatalogAssumption, Zenon DEF CatalogCalls
<1>5. op[o] = NoOp
  <2>1. \A c \in CatalogCalls : c.pc # "idle"
    BY DEF CatalogCalls, AddSteps, RemoveSteps
  <2>. QED
    BY <2>1 DEF CatalogInv, CatalogTypes
<1>6. ASSUME NEW p \in Ops \ {o}, op[p].acct = r.acct
      PROVE  /\ op[p] # NoOp /\ op[p] \in CatalogCalls /\ op'[p] \in CatalogCalls
             /\ op'[p].alone = FALSE /\ op'[p].acct = op[p].acct /\ op'[p].pc = op[p].pc
             /\ op'[p].role = op[p].role /\ op'[p].wh = op[p].wh
  <2>1. op[p] # NoOp /\ op[p] \in CatalogCalls
    BY <1>4, <1>6, NoOpFacts DEF CatalogInv, CatalogTypes
  <2>2. op'[p] = [op[p] EXCEPT !.alone = FALSE]
    BY <1>2, <1>6
  <2>. QED
    BY <2>1, <2>2, Zenon DEF CatalogCalls
<1>7. ASSUME NEW p \in Ops \ {o}, op[p].acct # r.acct PROVE op'[p] = op[p]
  BY <1>2, <1>7
<1>8. op'[o] = s
  BY <1>2
<1>9. CatalogTypes'
  <2>1. op' \in [Ops -> CatalogCalls \cup {NoOp}]
    <3>1. \A p \in Ops : op'[p] \in CatalogCalls \cup {NoOp}
      BY <1>3, <1>6, <1>7, <1>8, ZenonT(30) DEF CatalogInv, CatalogTypes
    <3>2. DOMAIN op' = Ops /\ op' = [p \in Ops |-> op'[p]]
      BY <1>2
    <3>. QED
      BY <3>1, <3>2
  <2>. QED
    BY <2>1 DEF CatalogInv, CatalogTypes
<1>10. ASSUME NEW p \in Ops, op'[p] # NoOp PROVE CatalogFits(op'[p])
  <2>1. CASE p = o
    BY <1>3, <1>8, <2>1 DEF CatalogFits
  <2>2. CASE p # o /\ op[p].acct = r.acct
    BY <1>6, <2>2, Zenon DEF CatalogInv, CatalogFits
  <2>3. CASE p # o /\ op[p].acct # r.acct
    BY <1>7, <1>10, <2>3 DEF CatalogInv
  <2>. QED
    BY <2>1, <2>2, <2>3
<1>11. ASSUME NEW p \in Ops PROVE SoloInv(p)'
  <2>1. SUFFICES ASSUME op'[p] # NoOp, op'[p].alone
                 PROVE  /\ \A q \in Ops \ {p} : op'[q].acct # op'[p].acct
                        /\ Achieved(op'[p], apps', users', whs', rel')
    BY Zenon DEF SoloInv
  <2>2. CASE p = o
    <3>1. \A q \in Ops : op[q].acct # r.acct
      BY <1>3, <1>8, <2>1, <2>2, Zenon
    <3>2. \A q \in Ops \ {p} : op'[q].acct # op'[p].acct
      BY <1>3, <1>7, <1>8, <2>2, <3>1
    <3>. QED
      BY <1>3, <1>8, <2>2, <3>2, Zenon DEF Achieved
  <2>3. CASE p # o
    <3>1. op[p].acct # r.acct /\ op'[p] = op[p]
      BY <1>6, <1>7, <2>1, <2>3, Zenon
    <3>2. (\A q \in Ops \ {p} : op[q].acct # op[p].acct) /\ Achieved(op[p], apps, users, whs, rel)
      BY <2>1, <3>1, Zenon DEF CatalogInv, SoloInv
    <3>3. \A q \in Ops \ {p} : op'[q].acct # op'[p].acct
      BY <1>3, <1>6, <1>7, <1>8, <3>1, <3>2, Zenon
    <3>. QED
      BY <3>1, <3>2, <3>3
  <2>. QED
    BY <2>2, <2>3, Zenon
<1>12. \A p \in Ops : op[p] # NoOp => op'[p] # NoOp
  BY <1>5, <1>6, <1>7, NoOpFacts, Zenon
<1>. QED
  BY <1>9, <1>10, <1>11, <1>12 DEF CatalogInv

\* The relations of a role are read back as that role.
LEMMA RoleReadBack ==
  ASSUME NEW r, r.role \in GrantedRoles
  PROVE  relationsToRole(Due(r)) = r.role
  BY DEF GrantedRoles, relationsToRole, warehouseRelations, Due, adminRelations

\* What the list shows of an account: a role, the one of its warehouse where
\* it names it.
ShowsRole(entry, w, role) ==
  /\ entry.role # "" /\ (w = "default" => entry.wh = w)
  /\ entry.wh = w => entry.role = role

\* The fields of an entry of the list.
LEMMA EntryFields ==
  \A e, u, v : e = [wh |-> u, role |-> v] => e.wh = u /\ e.role = v
  BY SMT

LEMMA ShownExact ==
  ASSUME CatalogInv, NEW a \in Accounts, a # "oidc", a \in apps, NEW w \in whs, NEW role \in GrantedRoles,
         relationsToRole(rel[w][a]) = role, NEW lost, w \notin lost
  PROVE  ShowsRole(ListUsers(lost)[a], w, role)
<1>. DEFINE held == {v \in whs \ lost : applyWarehouseAssignments(v, a) # ""}
            at == IF "default" \in held THEN "default" ELSE IF held = {} THEN "" ELSE CHOOSE v \in held : TRUE
<1>1. applyWarehouseAssignments(w, a) = role /\ role # ""
  BY Zenon DEF applyWarehouseAssignments, GetWarehouseAssignments, GrantedRoles
<1>2. w \in held
  BY <1>1, Zenon
<1>3. "" \notin held
  BY CatalogAssumption, Zenon DEF CatalogInv, CatalogTypes
<1>4. fillWarehouseAssignments(lost)[a] = at
  BY DEF fillWarehouseAssignments
<1>5. a \in ListApps
  BY DEF ListApps
<1>6. ListUsers(lost)[a] = [wh |-> at, role |-> IF at = "" THEN "" ELSE applyWarehouseAssignments(at, a)]
  <2>. HIDE DEF at
  <2>. QED
    BY <1>4, <1>5, Zenon DEF ListUsers
<1>7. at \in held /\ (w = "default" => at = w)
  <2>. HIDE DEF held
  <2>. QED
    BY <1>2, Zenon
<1>8. at # "" /\ applyWarehouseAssignments(at, a) # ""
  <2>1. \A v \in held : applyWarehouseAssignments(v, a) # ""
    BY Zenon
  <2>. HIDE DEF at, held
  <2>. QED
    BY <1>3, <1>7, <2>1, Zenon
<1>. HIDE DEF at, held
<1>9. ListUsers(lost)[a] = [wh |-> at, role |-> applyWarehouseAssignments(at, a)]
  BY <1>6, <1>8, Zenon
<1>10. ListUsers(lost)[a].wh = at /\ ListUsers(lost)[a].role = applyWarehouseAssignments(at, a)
  BY <1>9, EntryFields, Zenon
<1>. QED
  BY <1>1, <1>7, <1>8, <1>10, Zenon DEF ShowsRole

LEMMA SyncExact ==
  ASSUME CatalogInv, NEW o \in Ops, syncAudiences(o) PROVE EndsExact(o)
<1>. DEFINE r == op[o]
<1>1. SUFFICES ASSUME r.pc = "sync", r.alone, op'[o] = NoOp
               PROVE  /\ r.acct \in apps' /\ r.acct \in users' /\ (central => r.acct \in aud')
                      /\ rel'[r.wh][r.acct] = Due(r)
                      /\ \A lost \in SUBSET (whs \ {r.wh}) :
                           /\ ListUsers(lost)'[r.acct].role # ""
                           /\ r.wh = "default" => ListUsers(lost)'[r.acct].wh = r.wh
                           /\ ListUsers(lost)'[r.acct].wh = r.wh => ListUsers(lost)'[r.acct].role = r.role
  BY Zenon DEF EndsExact
<1>2. r.pc # "idle" /\ StoresKept
  BY <1>1 DEF syncAudiences, StoresKept
<1>3. r \in CatalogCalls /\ CatalogFits(r) /\ r.acct \in Accounts /\ r # NoOp
  BY <1>2, OpOpen
<1>4. r.acct # "oidc" /\ r.role \in GrantedRoles /\ r.wh \in Warehouses
  BY <1>1, <1>3 DEF CatalogFits, AddSteps
<1>5. r.acct \in apps /\ r.acct \in users /\ r.wh \in whs /\ rel[r.wh][r.acct] = Due(r)
  BY <1>1, <1>2, SoloFacts DEF Achieved
<1>6. CatalogInv'
  BY SyncKeeps
<1>7. central => r.acct \in aud'
  <2>1. ~To(o, "unregister")
    <3>1. SUFFICES ASSUME To(o, "unregister") PROVE FALSE
      OBVIOUS
    <3>2. op'[o] = [op[o] EXCEPT !.pc = "unregister"]
      BY <3>1 DEF To, Turn, CatalogInv, CatalogTypes
    <3>3. op'[o].pc = "unregister"
      BY <1>3, <3>2 DEF CatalogCalls
    <3>. QED
      BY <1>1, <3>3, NoOpFacts
  <2>2. aud' = IF central THEN {"oidc"} \cup ListApps ELSE aud
    BY <1>1, <2>1 DEF syncAudiences, Undo
  <2>. QED
    BY <1>4, <1>5, <2>2 DEF ListApps
<1>8. ASSUME NEW lost \in SUBSET (whs \ {r.wh})
      PROVE  /\ ListUsers(lost)'[r.acct].role # ""
             /\ r.wh = "default" => ListUsers(lost)'[r.acct].wh = r.wh
             /\ ListUsers(lost)'[r.acct].wh = r.wh => ListUsers(lost)'[r.acct].role = r.role
  <2>1. ListUsers(lost)' = ListUsers(lost)
    <3>1. UNCHANGED <<rel, whs, apps>>
      BY <1>2 DEF StoresKept
    <3>2. fillWarehouseAssignments(lost)' = fillWarehouseAssignments(lost)
      BY <3>1 DEF fillWarehouseAssignments, applyWarehouseAssignments, GetWarehouseAssignments
    <3>3. \A v, a : applyWarehouseAssignments(v, a)' = applyWarehouseAssignments(v, a)
      BY <3>1 DEF applyWarehouseAssignments, GetWarehouseAssignments
    <3>. QED
      BY <3>1, <3>2, <3>3, Zenon DEF ListUsers, ListApps
  <2>2. ShowsRole(ListUsers(lost)[r.acct], r.wh, r.role)
    <3>1. r.acct \in Accounts /\ r.wh \in whs /\ r.role \in GrantedRoles /\ r.acct # "oidc" /\ r.acct \in apps
      BY <1>3, <1>4, <1>5
    <3>2. relationsToRole(rel[r.wh][r.acct]) = r.role /\ r.wh \notin lost
      BY <1>4, <1>5, RoleReadBack
    <3>. HIDE DEF r
    <3>. QED
      BY <3>1, <3>2, ShownExact
  <2>. QED
    BY <2>1, <2>2, Zenon DEF ShowsRole
<1>. QED
  BY <1>2, <1>5, <1>7, <1>8, Zenon DEF StoresKept

\* A call is of one request, and only syncAudiences is made at "sync".
LEMMA ProceedsAlone ==
  ASSUME CatalogInv, NEW o \in Ops, Proceed(o), NEW p \in Ops, op[p].pc = "sync", op[p].alone, op'[p] = NoOp
  PROVE  p = o /\ syncAudiences(o)
<1>1. \E r : op' = [op EXCEPT ![o] = r]
  BY Zenon DEF Proceed, AddApp, GetClientToken, registerLakekeeperUser, CreateUser, ReadAssignments, AssignWarehouseRole,
     syncAudiences, Unregister, cleanup, ListAllWarehouses, removeWarehouseRoles, RemoveWarehouseRole, DeleteUser, DeleteApp, Turn, To, Finish
<1>2. p = o
  <2>1. op[p] # NoOp
    BY NoOpFacts
  <2>. QED
    BY <1>1, <2>1 DEF CatalogInv, CatalogTypes
<1>. QED
  BY <1>2, Zenon DEF Proceed, AddApp, GetClientToken, registerLakekeeperUser, CreateUser, ReadAssignments, AssignWarehouseRole,
     Unregister, cleanup, ListAllWarehouses, removeWarehouseRoles, DeleteUser, DeleteApp

LEMMA NextCatalog ==
  ASSUME CatalogInv, CNext PROVE CatalogInv' /\ \A o \in Ops : EndsExact(o)
<1>1. CASE \E o \in Ops : Proceed(o)
  <2>1. PICK o \in Ops : Proceed(o)
    BY <1>1
  <2>2. CatalogInv'
    BY <2>1, AdditionKeeps, AssignmentKeeps, SyncKeeps, RemovalKeeps DEF Proceed, registerLakekeeperUser
  <2>3. ASSUME NEW p \in Ops PROVE EndsExact(p)
    <3>1. CASE op[p].pc = "sync" /\ op[p].alone /\ op'[p] = NoOp
      BY <2>1, <3>1, ProceedsAlone, SyncExact
    <3>. QED
      BY <3>1, Zenon DEF EndsExact
  <2>. QED
    BY <2>2, <2>3
<1>2. CASE \E w \in Warehouses : CreateWarehouse(w)
  <2>1. whs \subseteq whs' /\ whs' \subseteq Warehouses /\ UNCHANGED <<apps, users, rel, op>>
    BY <1>2 DEF CreateWarehouse, CatalogInv, CatalogTypes
  <2>2. CatalogInv'
    BY <2>1, Zenon DEF CatalogInv, CatalogTypes, SoloInv, Achieved
  <2>3. ASSUME NEW p \in Ops PROVE EndsExact(p)
    BY <2>1, NoOpFacts, Zenon DEF EndsExact
  <2>. QED
    BY <2>2, <2>3
<1>3. ASSUME NEW o \in Ops, NEW a \in Accounts,
             ServeRemoveUser(o, a) \/ \E role \in Roles, w \in Warehouses : ServeAddUser(o, a, role, w)
      PROVE  CatalogInv' /\ \A p \in Ops : EndsExact(p)
  <2>1. PICK r \in CatalogCalls : /\ op[o].pc = "idle" /\ CatalogFits(r) /\ Accepted(o, r) /\ r.pc \in {"app", "list"}
                                  /\ UNCHANGED <<apps, users, rel, whs>>
    <3>1. CASE ServeRemoveUser(o, a)
      <4>. DEFINE r == [pc |-> "list", acct |-> a, role |-> "none", wh |-> "none", have |-> {}, todo |-> {}, alone |-> TRUE]
      <4>1. op[o].pc = "idle" /\ a # "oidc" /\ Accepted(o, r) /\ UNCHANGED <<apps, users, rel, whs>>
        BY <3>1, Zenon DEF ServeRemoveUser, RemoveUser, isDataPlatformApp
      <4>2. r \in CatalogCalls /\ r.pc = "list" /\ r.acct = a
        BY Zenon DEF CatalogCalls, RemoveSteps, CatalogInv, CatalogTypes
      <4>. HIDE DEF r
      <4>3. CatalogFits(r)
        BY <4>1, <4>2 DEF CatalogFits, AddSteps
      <4>. QED
        BY <4>1, <4>2, <4>3
    <3>2. ASSUME NEW role \in Roles, NEW w \in Warehouses, ServeAddUser(o, a, role, w)
          PROVE  \E r \in CatalogCalls : /\ op[o].pc = "idle" /\ CatalogFits(r) /\ Accepted(o, r) /\ r.pc \in {"app", "list"}
                                         /\ UNCHANGED <<apps, users, rel, whs>>
      <4>. DEFINE r == [pc |-> "app", acct |-> a, role |-> role, wh |-> w, have |-> {}, todo |-> {}, alone |-> TRUE]
      <4>1. op[o].pc = "idle" /\ role \in GrantedRoles /\ Accepted(o, r) /\ UNCHANGED <<apps, users, rel, whs>>
        BY <3>2, Zenon DEF ServeAddUser, AddUser, validateRole, GrantedRoles
      <4>2. r \in CatalogCalls /\ r.pc = "app" /\ r.role = role /\ r.wh = w
        BY <4>1, Zenon DEF CatalogCalls, AddSteps
      <4>. HIDE DEF r
      <4>3. CatalogFits(r)
        BY <4>1, <4>2, Zenon DEF CatalogFits
      <4>. QED
        BY <4>1, <4>2, <4>3
    <3>. QED
      BY <1>3, <3>1, <3>2
  <2>2. CatalogInv' /\ \A p \in Ops : op[p] # NoOp => op'[p] # NoOp
    BY <2>1, AcceptedKeeps
  <2>. QED
    BY <2>2, NoOpFacts, Zenon DEF EndsExact
<1>. QED
  BY <1>1, <1>2, <1>3 DEF CNext

\* An account whose addition was answered while nothing else touched it has
\* its application, its audience, its catalog user and exactly the relations
\* of its role and those granted out of band, and the list shows that role (AddUser, AssignWarehouseRole,
\* ListUsers), for every set of accounts, warehouses and requests in flight
\* and whatever failed before.
THEOREM AccountsExact == CatalogSpec => RoleExact
<1>1. CatalogInv /\ UNCHANGED cvars => CatalogInv'
  BY DEF CatalogInv, CatalogTypes, SoloInv, cvars
<1>2. CatalogInv /\ [CNext]_cvars => [\A o \in Ops : EndsExact(o)]_cvars
  BY NextCatalog, Zenon
<1>. QED
  BY <1>1, <1>2, InitCatalogInv, NextCatalog, PTL DEF CatalogSpec, RoleExact
=============================================================================
