---------------------------- MODULE DemoProject ----------------------------
(***************************************************************************)
(* The starter demo of one workspace (workspace.DemoService): a load and a *)
(* removal are claimed in the row of demo_seeds and done by a background   *)
(* worker, artifact by artifact.  Requests overlap, steps fail, a worker   *)
(* dies with its process, and a claim goes stale.                          *)
(*                                                                         *)
(* A pipeline or transformation is the number of the job that created it;  *)
(* one of the user's own may hold the demo's name, and so may one that a    *)
(* failed deletion put back under an id of its own, a stray.  Job j is one *)
(* request and the worker it starts.  Refused requests change nothing and are left *)
(* out, as are the tier and the warehouse tables.                          *)
(***************************************************************************)
EXTENDS Naturals, Sequences

CONSTANTS MaxJobs,   \* bound: accepted requests
          MaxEvents  \* bound: requests, faults, crashes and user edits together

ASSUME DemoAssumption == MaxJobs \in Nat \ {0} /\ MaxEvents \in Nat

VARIABLES row,   \* the row of demo_seeds
          art,   \* artifact -> who created it, 0 when it does not exist
          job,   \* job -> request, then worker
          hist,  \* what has happened so far, for the properties
          events

vars == <<row, art, job, hist, events>>

Jobs == 1..MaxJobs
User == MaxJobs + 1
Stray == MaxJobs + 2
ByID == {"trips", "zones", "transformation"}
Build == <<"trips", "zones", "dbt", "rill", "transformation">>
Teardown == <<"transformation", "trips", "zones", "dbt", "rill">>
Artifacts == {Build[k] : k \in DOMAIN Build}

NoSeed == [a \in Artifacts |-> 0]
NoRow == [status |-> "none", seed |-> NoSeed, stale |-> FALSE]
Idle == [pc |-> "idle", k |-> 0, seed |-> NoSeed, err |-> FALSE, why |-> "none"]

Tick == events < MaxEvents /\ events' = events + 1
Calm == UNCHANGED events
Note(S) == hist' = hist \cup S

Live(j) == job[j].pc \notin {"idle", "done"}
Worker(j) == Live(j) /\ job[j].pc \notin {"claim", "mark"} /\ job[j].why # "abandoned"
Busy == row.status \in {"loading", "removing"} /\ ~row.stale

Init ==
  /\ row = NoRow
  /\ art \in {NoSeed, [NoSeed EXCEPT !["zones"] = User]}
  /\ job = [j \in Jobs |-> Idle]
  /\ hist = {} /\ events = 0

-----------------------------------------------------------------------------
(* demo_seeds *)

SaveDemoSeed(status, seed) == row' = [status |-> status, seed |-> seed, stale |-> FALSE]
DeleteDemoSeed == row' = NoRow
\* Mutant: a claim never goes stale.
NeverStale == FALSE
\* A claim is stale fifteen minutes after created_at; its worker gives up
\* after twelve, and after one more for the rollback.
loadingStale == \A j \in Jobs : ~Worker(j)
Age ==
  /\ Busy /\ loadingStale /\ Calm
  /\ row' = [row EXCEPT !.stale = TRUE]
  /\ UNCHANGED <<art, job, hist>>

-----------------------------------------------------------------------------
(* Requests *)

Goto(j, pc) == job' = [job EXCEPT ![j].pc = pc]
Undo(j, seed, why) ==
  job' = [job EXCEPT ![j] = [pc |-> "undo", k |-> 1, seed |-> seed, err |-> FALSE, why |-> why]]
Accept(j) ==
  /\ Tick /\ job[j].pc = "idle" /\ \A i \in 1..(j - 1) : job[i].pc # "idle"
  /\ Note(IF \E i \in Jobs : Live(i) THEN {"overlap"} ELSE {})

\* LoadDemoProject with resolveExistingSeed: a ready demo and one in progress
\* are refused, a stale claim is torn down first.
LoadDemoProject(j) ==
  /\ Accept(j)
  /\ \/ row.status = "none" /\ Goto(j, "claim")
     \/ row.status \in {"loading", "removing"} /\ row.stale /\ Undo(j, row.seed, "abandoned")
  /\ UNCHANGED <<row, art>>

Claim(j) ==
  /\ job[j].pc = "claim"
  /\ \/ /\ Calm /\ SaveDemoSeed("loading", NoSeed)
        /\ job' = [job EXCEPT ![j] = [Idle EXCEPT !.pc = "build", !.k = 1]]
     \/ Tick /\ Goto(j, "done") /\ UNCHANGED row
  /\ UNCHANGED <<art, hist>>

\* RemoveDemoProject reads the row and refuses a removal in progress; a load
\* in progress is not refused.
RemoveDemoProject(j) ==
  /\ Accept(j)
  /\ row.status # "none" /\ ~(row.status = "removing" /\ ~row.stale)
  /\ job' = [job EXCEPT ![j].pc = "mark", ![j].seed = row.seed]
  /\ UNCHANGED <<row, art>>

MarkRemoving(j) ==
  /\ job[j].pc = "mark"
  /\ \/ Calm /\ SaveDemoSeed("removing", job[j].seed) /\ Undo(j, job[j].seed, "removed")
     \/ Tick /\ Goto(j, "done") /\ UNCHANGED row
  /\ UNCHANGED <<art, hist>>

-----------------------------------------------------------------------------
(* loadWorker *)

\* The service refuses, or the call fails.
Refused(ok) == Tick \/ (Calm /\ ~ok)
Fails(j) == Undo(j, job[j].seed, "failed")
Made(j, a) ==
  /\ art' = [art EXCEPT ![a] = j]
  /\ job' = [job EXCEPT ![j].seed[a] = j, ![j].k = @ + 1]
\* The call reports an error and its artifact is there: the answer was lost, or
\* the box failed and then taking the row back did.
Left(j, a) == Tick /\ Fails(j) /\ art' = [art EXCEPT ![a] = j] /\ Note({"lost"})
Building(j, S) == job[j].pc = "build" /\ job[j].k <= Len(Build) /\ Build[job[j].k] \in S

\* Mutant: the trips pipeline is recorded together with the zones pipeline.
createPipelinesThenRecord(j) ==
  LET a == Build[job[j].k] IN
  /\ Building(j, {"trips", "zones"}) /\ UNCHANGED <<row, hist>>
  /\ \/ /\ Calm /\ art[a] = 0 /\ art' = [art EXCEPT ![a] = j]
        /\ job' = [job EXCEPT ![j].k = @ + 1,
                     ![j].seed = IF a = "zones" THEN [@ EXCEPT !["trips"] = j, !["zones"] = j] ELSE @]
     \/ Refused(art[a] = 0) /\ Fails(j) /\ UNCHANGED art

\* CreatePipeline refuses a name that is taken, whoever holds it.
createPipelines(j) ==
  LET a == Build[job[j].k] IN
  /\ Building(j, {"trips", "zones"}) /\ UNCHANGED row
  /\ \/ Calm /\ art[a] = 0 /\ Made(j, a) /\ UNCHANGED hist
     \/ Refused(art[a] = 0) /\ Fails(j) /\ UNCHANGED <<art, hist>>
     \/ art[a] = 0 /\ Left(j, a)

\* An existing file is updated in place.
commitRepoFiles(j) ==
  LET a == Build[job[j].k] IN
  /\ Building(j, {"dbt", "rill"}) /\ UNCHANGED row
  /\ \/ Calm /\ Made(j, a) /\ UNCHANGED hist
     \/ Tick /\ Fails(j) /\ UNCHANGED <<art, hist>>
     \/ Left(j, a)

\* The trigger must be a pipeline of the workspace, and the name free.
createTransformation(j) ==
  LET ok == art["trips"] = job[j].seed["trips"] /\ art["transformation"] = 0 IN
  /\ Building(j, {"transformation"}) /\ UNCHANGED row
  /\ \/ Calm /\ ok /\ Made(j, "transformation") /\ UNCHANGED hist
     \/ Refused(ok) /\ Fails(j) /\ UNCHANGED <<art, hist>>
     \/ ok /\ Left(j, "transformation")

\* Both pipelines are triggered, and the row becomes "ready".
kickOff(j) ==
  LET ok == \A a \in {"zones", "trips"} : art[a] = job[j].seed[a] IN
  /\ job[j].pc = "build" /\ job[j].k = Len(Build) + 1
  /\ \/ Calm /\ ok /\ Goto(j, "ready")
     \/ Refused(ok) /\ Fails(j)
  /\ UNCHANGED <<row, art, hist>>

Ready(j) ==
  /\ job[j].pc = "ready"
  /\ \/ Calm /\ SaveDemoSeed("ready", job[j].seed) /\ Goto(j, "done")
     \/ Tick /\ Fails(j) /\ UNCHANGED row
  /\ UNCHANGED <<art, hist>>

-----------------------------------------------------------------------------
(* teardown *)

\* Mutant: a deletion names the artifact, not its id.
deleteByName(j, a) == art[a] # 0
\* DeletePipeline and DeleteTransformation go by id; a file by its path.
Found(j, a) == /\ job[j].seed[a] # 0
               /\ IF a \in ByID THEN art[a] = job[j].seed[a] ELSE art[a] # 0
\* The first error is what teardown returns.
Errors(j, e) == job[j].err \/ e
\* A rollback takes what its own load made.
After(a) == IF a \in ByID THEN {0, Stray} ELSE {0}
Took(j) == IF job[j].why = "failed" THEN {} ELSE {"removed"}

\* One artifact.  What is not recorded or already gone is success, and so is
\* a file that cannot be read (deleteRepoFile).  A deletion that reports an
\* error may have been done, or undone under a new id.
teardown(j) ==
  LET a == Teardown[job[j].k]
      Next1(e) == job' = [job EXCEPT ![j].k = @ + 1, ![j].err = Errors(j, e)] IN
  /\ job[j].pc = "undo" /\ job[j].k <= Len(Teardown) /\ UNCHANGED row
  /\ \/ ~Found(j, a) /\ Calm /\ Next1(FALSE) /\ UNCHANGED <<art, hist>>
     \/ /\ Found(j, a)
        /\ \/ Calm /\ Next1(FALSE) /\ art' = [art EXCEPT ![a] = 0] /\ Note(Took(j))
           \/ /\ Tick /\ Next1(TRUE) /\ Note(Took(j) \cup {"lost"})
              /\ \E x \in After(a) : art' = [art EXCEPT ![a] = x]
           \/ Tick /\ Next1(TRUE) /\ UNCHANGED art /\ Note({"lost"})
           \/ a \notin ByID /\ Tick /\ Next1(FALSE) /\ UNCHANGED art /\ Note({"lost"})

Undone(j, why) == job[j].pc = "undo" /\ job[j].k > Len(Teardown) /\ job[j].why = why

cleanupAbandoned(j) ==
  /\ Undone(j, "abandoned")
  /\ \/ Calm /\ DeleteDemoSeed /\ Goto(j, "claim")
     \/ Tick /\ Goto(j, "done") /\ UNCHANGED row
  /\ UNCHANGED <<art, hist>>

\* The row goes whether or not the teardown got everything.
failLoad(j) ==
  /\ Undone(j, "failed") /\ Goto(j, "done")
  /\ \/ Calm /\ DeleteDemoSeed
     \/ Tick /\ UNCHANGED row
  /\ UNCHANGED <<art, hist>>

\* A failed removal is "ready" again.
removeWorker(j) ==
  /\ Undone(j, "removed") /\ Goto(j, "done")
  /\ \/ Calm /\ job[j].err /\ SaveDemoSeed("ready", job[j].seed)
     \/ Calm /\ ~job[j].err /\ DeleteDemoSeed
     \/ Tick /\ UNCHANGED row
  /\ UNCHANGED <<art, hist>>

-----------------------------------------------------------------------------
\* The process dies, or the goroutine panics and run recovers.
Crash(j) ==
  /\ Live(j) /\ Tick /\ Goto(j, "done") /\ Note({"lost"})
  /\ UNCHANGED <<row, art>>

\* The user deletes one of the demo's artifacts.
UserDeletes(a) ==
  /\ art[a] # 0 /\ Tick
  /\ art' = [art EXCEPT ![a] = 0] /\ Note({"removed"})
  /\ UNCHANGED <<row, job>>

Step(j) ==
  \/ Claim(j) \/ MarkRemoving(j)
  \/ createPipelines(j) \/ commitRepoFiles(j) \/ createTransformation(j) \/ kickOff(j) \/ Ready(j)
  \/ teardown(j) \/ cleanupAbandoned(j) \/ failLoad(j) \/ removeWorker(j)

Next ==
  \/ \E j \in Jobs : LoadDemoProject(j) \/ RemoveDemoProject(j) \/ Step(j) \/ Crash(j)
  \/ \E a \in Artifacts : UserDeletes(a)
  \/ Age

\* Workers run on, and time passes.
Fairness == WF_vars(Age) /\ \A j \in Jobs : WF_vars(Step(j))
Spec == Init /\ [][Next]_vars
FairSpec == Spec /\ Fairness

-----------------------------------------------------------------------------
(* Properties *)

\* Seed s names artifact a and it is there: the very pipeline or
\* transformation, or a file at the path.
Holds(s, a) == s[a] # 0 /\ IF a \in ByID THEN art[a] = s[a] ELSE art[a] # 0

\* Unless a process died, a rollback step failed or two requests overlapped,
\* every artifact a load made is named by the row or by a worker that is
\* still at work: a failed load leaves the workspace clean (loadWorker,
\* failLoad, removeWorker).
Accounted ==
  {"lost", "overlap"} \cap hist = {} =>
    \A a \in Artifacts : art[a] \in Jobs =>
      Holds(row.seed, a) \/ \E j \in Jobs : Live(j) /\ Holds(job[j].seed, a)

\* A demo shown as loaded is whole until a removal, the cleanup of one or the
\* user took something, however loads, crashes and rollbacks interleaved: its
\* pipelines, its transformation and the files it committed are there
\* (loadWorker, failLoad).  Only the files depend on requests that came one at
\* a time: a rollback deletes by path (deleteRepoFile), and so it takes the
\* files that a load it overlaps has committed.
ReadyIsWhole ==
  row.status = "ready" /\ "removed" \notin hist =>
    \A a \in Artifacts : Holds(row.seed, a) \/ (a \notin ByID /\ "overlap" \in hist)

\* Liveness: the Console's progress bar ends, also when the worker died.
BusyEnds == Busy ~> ~Busy

=============================================================================
