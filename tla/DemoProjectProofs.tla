------------------------- MODULE DemoProjectProofs -------------------------
(***************************************************************************)
(* What holds of the starter demo for every number of requests and events. *)
(* Three arguments, over one type invariant: as long as requests came one  *)
(* at a time and nothing was lost, one job is at work and its seed names   *)
(* what there is (AloneInv); whatever happened, a seed that a row or a     *)
(* removal holds is the whole seed of a load that is over (WholeInv); and  *)
(* as long as requests came one at a time, crashes and losses or not, the  *)
(* files such a seed names are there (FilesInv, proved on top of the       *)
(* other two).                                                             *)
(***************************************************************************)
EXTENDS DemoProject, TLAPS

Makers == 0..(MaxJobs + 2)
Seeds == [Artifacts -> Makers]
Statuses == {"none", "loading", "removing", "ready"}
Pcs == {"idle", "claim", "mark", "build", "ready", "undo", "done"}
Whys == {"none", "abandoned", "failed", "removed"}
RowType == [status : Statuses, seed : Seeds, stale : BOOLEAN]
JobType == [pc : Pcs, k : Nat, seed : Seeds, err : BOOLEAN, why : Whys]
Events == {"lost", "overlap", "removed"}

TypeOK ==
  /\ row \in RowType
  /\ art \in Seeds
  /\ job \in [Jobs -> JobType]
  /\ hist \in SUBSET Events

-----------------------------------------------------------------------------
(* While requests come one at a time and nothing is lost *)

Clean == "lost" \notin hist /\ "overlap" \notin hist
Names(s, x, a) == s[a] # 0 /\ (a \in ByID => s[a] = x)
\* Where the teardown of a seed stands with artifact a.
Ahead(k, a) == \A m \in 1..(Len(Teardown)) : m < k => Teardown[m] # a

\* What job record v knows of artifact a, made by x.
Knows(v, a, x) ==
  /\ v.pc # "claim" /\ Names(v.seed, x, a)
  /\ v.pc = "undo" => Ahead(v.k, a)

AloneInv ==
  /\ row.status = "none" => row.seed = NoSeed
  /\ Clean =>
       /\ \A i, j \in Jobs : Live(i) /\ Live(j) => i = j
       /\ \A a \in Artifacts : art[a] \in Jobs =>
            /\ (\A j \in Jobs : ~Live(j) \/ job[j].pc = "mark") => Names(row.seed, art[a], a)
            /\ \A j \in Jobs : Live(j) => Knows(job[j], a, art[a])

-----------------------------------------------------------------------------
(* Whatever happens *)

Full(i) == [a \in Artifacts |-> i]
\* Load i made the demo and is over, and until something was removed its
\* pipelines and transformation are there.  jb, ar and h stand for job, art
\* and hist, before a step and after it.
Loaded(i, jb, ar, h) ==
  /\ jb[i].pc = "done"
  /\ "removed" \notin h => \A a \in ByID : ar[a] = i
Finished(s, jb, ar, h) == s = NoSeed \/ \E i \in Jobs : s = Full(i) /\ Loaded(i, jb, ar, h)
Removing(v) == v.pc = "mark" \/ (v.pc = "undo" /\ v.why # "failed")
\* Load j has made the artifacts before the k-th.
BuiltUpTo(j, k, seed, ar, h) ==
  /\ \A m \in 1..5 : seed[Build[m]] = IF m < k THEN j ELSE 0
  /\ "removed" \notin h => \A m \in 1..5 : m < k /\ Build[m] \in ByID => ar[Build[m]] = j

\* What holds of job j, whose record is v.
Sound(j, v, jb, ar, h) ==
  /\ Removing(v) => Finished(v.seed, jb, ar, h)
  /\ v.pc = "undo" => v.k # 0 /\ (v.err => v.seed # NoSeed)
  /\ v.pc = "build" => v.k \in 1..6 /\ BuiltUpTo(j, v.k, v.seed, ar, h)
  /\ v.pc = "ready" => BuiltUpTo(j, 6, v.seed, ar, h)
  /\ v.pc = "undo" /\ v.why = "failed" => \A a \in Artifacts : v.seed[a] \in {0, j}

WholeInv ==
  /\ Finished(row.seed, job, art, hist)
  /\ row.status = "ready" => row.seed # NoSeed
  /\ \A j \in Jobs : Sound(j, job[j], job, art, hist)

DemoInv == TypeOK /\ AloneInv /\ WholeInv

-----------------------------------------------------------------------------
(* The order of the artifacts *)

\* createPipelines, commitRepoFiles and createTransformation make five
\* artifacts, and teardown goes through the same five.
LEMMA Order ==
  /\ Len(Build) = 5 /\ Len(Teardown) = 5
  /\ Build[1] = "trips" /\ Build[2] = "zones" /\ Build[3] = "dbt" /\ Build[4] = "rill"
  /\ Build[5] = "transformation"
  /\ Artifacts = {"trips", "zones", "dbt", "rill", "transformation"}
  /\ \A m \in 1..5 : Build[m] \in Artifacts /\ Teardown[m] \in Artifacts
  /\ \A a \in Artifacts : (\E m \in 1..5 : Build[m] = a) /\ (\E m \in 1..5 : Teardown[m] = a)
<1>1. /\ Build[1] = "trips" /\ Build[2] = "zones" /\ Build[3] = "dbt" /\ Build[4] = "rill"
      /\ Build[5] = "transformation"
  BY DEF Build
<1>2. /\ Teardown[1] = "transformation" /\ Teardown[2] = "trips" /\ Teardown[3] = "zones"
      /\ Teardown[4] = "dbt" /\ Teardown[5] = "rill"
  BY DEF Teardown
<1>3. Len(Build) = 5 /\ Len(Teardown) = 5 /\ DOMAIN Build = 1..5
  BY DEF Build, Teardown
<1>4. Artifacts = {"trips", "zones", "dbt", "rill", "transformation"}
  BY <1>1, <1>3, 1..5 = {1, 2, 3, 4, 5} DEF Artifacts
<1>5. \A m \in 1..5 : Build[m] \in Artifacts /\ Teardown[m] \in Artifacts
  <2>1. \A m \in 1..5 : m = 1 \/ m = 2 \/ m = 3 \/ m = 4 \/ m = 5
    OBVIOUS
  <2> QED
    BY <1>1, <1>2, <1>4, <2>1
<1>6. \A a \in Artifacts : (\E m \in 1..5 : Build[m] = a) /\ (\E m \in 1..5 : Teardown[m] = a)
  <2>1. 1 \in 1..5 /\ 2 \in 1..5 /\ 3 \in 1..5 /\ 4 \in 1..5 /\ 5 \in 1..5
    OBVIOUS
  <2> QED
    BY <1>1, <1>2, <1>4, <2>1
<1> QED
  BY <1>1, <1>3, <1>4, <1>5, <1>6

\* ByID are artifacts, and NoSeed is a seed that names nothing.
LEMMA Kinds ==
  /\ ByID \subseteq Artifacts
  /\ NoSeed \in Seeds /\ \A a \in Artifacts : NoSeed[a] = 0
  /\ \A i \in Jobs : i \in Makers /\ i # 0 /\ Full(i) \in Seeds /\ Full(i) # NoSeed
  /\ User \in Makers /\ Stray \in Makers /\ 0 \in Makers
  /\ User \notin Jobs /\ Stray \notin Jobs /\ 0 \notin Jobs
<1>1. ByID \subseteq Artifacts
  BY Order DEF ByID
<1>2. User \in Makers /\ Stray \in Makers /\ 0 \in Makers
  BY DemoAssumption DEF User, Stray, Makers
<1>3. User \notin Jobs /\ Stray \notin Jobs /\ 0 \notin Jobs
  BY DemoAssumption DEF User, Stray, Jobs
<1>4. NoSeed \in Seeds /\ \A a \in Artifacts : NoSeed[a] = 0
  BY <1>2 DEF NoSeed, Seeds
<1>5. ASSUME NEW i \in Jobs
      PROVE  i \in Makers /\ i # 0 /\ Full(i) \in Seeds /\ Full(i) # NoSeed
  <2>1. i \in Makers /\ i # 0
    BY DemoAssumption DEF Jobs, Makers
  <2>2. Full(i) \in Seeds
    BY <2>1 DEF Full, Seeds
  <2>3. "trips" \in Artifacts
    BY Order
  <2>4. Full(i)["trips"] = i
    BY <2>3 DEF Full
  <2> QED
    BY <2>1, <2>2, <2>3, <2>4, <1>4
<1> QED
  BY <1>1, <1>2, <1>3, <1>4, <1>5

USE DEF Live

-----------------------------------------------------------------------------
(* Type correctness *)

LEMMA InitTyped == Init => TypeOK
<1> SUFFICES ASSUME Init PROVE TypeOK
  OBVIOUS
<1>1. NoSeed \in Seeds /\ User \in Makers
  BY Kinds
<1>2. row \in RowType
  BY <1>1 DEF Init, NoRow, RowType, Statuses
<1>3. Idle \in JobType
  BY <1>1 DEF Idle, JobType, Pcs, Whys
<1>4. job \in [Jobs -> JobType]
  BY <1>3 DEF Init
<1>5. art \in Seeds
  BY <1>1 DEF Init, Seeds
<1>6. hist \in SUBSET Events
  BY DEF Init
<1> QED
  BY <1>2, <1>4, <1>5, <1>6 DEF TypeOK

\* What a request or a worker's step can do to the row, the artifacts and
\* what is noted.
LEMMA RowsTyped ==
  ASSUME NEW seed \in Seeds, NEW status \in Statuses
  PROVE  /\ SaveDemoSeed(status, seed) => row' \in RowType
         /\ DeleteDemoSeed => row' \in RowType
         /\ row \in RowType => row.seed \in Seeds
<1>1. NoSeed \in Seeds
  BY Kinds
<1>2. SaveDemoSeed(status, seed) => row' \in RowType
  BY DEF SaveDemoSeed, RowType
<1>3. DeleteDemoSeed => row' \in RowType
  BY <1>1 DEF DeleteDemoSeed, NoRow, RowType, Statuses
<1>4. row \in RowType => row.seed \in Seeds
  BY DEF RowType
<1> QED
  BY <1>2, <1>3, <1>4

LEMMA ArtsTyped ==
  ASSUME TypeOK, NEW a \in Artifacts, NEW x \in Makers
  PROVE  /\ art' = [art EXCEPT ![a] = x] => art' \in Seeds
         /\ UNCHANGED art => art' \in Seeds
BY DEF TypeOK, Seeds

\* A step of job j leaves the others alone.
Only(j) == \A i \in Jobs : i # j => job'[i] = job[i]

LEMMA JobTyped ==
  ASSUME TypeOK, NEW j \in Jobs
  PROVE  /\ job \in [Jobs -> JobType] /\ job[j] \in JobType
         /\ job[j].pc \in Pcs /\ job[j].k \in Nat /\ job[j].seed \in Seeds
         /\ job[j].err \in BOOLEAN /\ job[j].why \in Whys
<1>1. job \in [Jobs -> JobType] /\ job[j] \in JobType
  BY DEF TypeOK
<1> QED
  BY <1>1 DEF JobType

LEMMA Went ==
  ASSUME TypeOK, NEW j \in Jobs, NEW pc \in Pcs, Goto(j, pc)
  PROVE  /\ job' \in [Jobs -> JobType] /\ Only(j)
         /\ job'[j].pc = pc /\ job'[j].k = job[j].k /\ job'[j].seed = job[j].seed
         /\ job'[j].err = job[j].err /\ job'[j].why = job[j].why
<1> DEFINE v == [job[j] EXCEPT !.pc = pc]
<1>1. job \in [Jobs -> JobType] /\ job[j] \in JobType
  BY JobTyped
<1>2. v \in JobType /\ v.pc = pc /\ v.k = job[j].k /\ v.seed = job[j].seed
      /\ v.err = job[j].err /\ v.why = job[j].why
  BY <1>1 DEF JobType
<1>3. job' = [job EXCEPT ![j] = v]
  BY DEF Goto
<1> HIDE DEF v
<1>4. job' \in [Jobs -> JobType] /\ job'[j] = v /\ Only(j)
  BY <1>1, <1>2, <1>3 DEF Only
<1> QED
  BY <1>2, <1>4

LEMMA Undoing ==
  ASSUME TypeOK, NEW j \in Jobs, NEW seed \in Seeds, NEW why \in Whys, Undo(j, seed, why)
  PROVE  /\ job' \in [Jobs -> JobType] /\ Only(j)
         /\ job'[j].pc = "undo" /\ job'[j].k = 1 /\ job'[j].seed = seed
         /\ job'[j].err = FALSE /\ job'[j].why = why
<1> DEFINE v == [pc |-> "undo", k |-> 1, seed |-> seed, err |-> FALSE, why |-> why]
<1>1. v \in JobType
  BY DEF JobType, Pcs
<1>2. v.pc = "undo" /\ v.k = 1 /\ v.seed = seed /\ v.err = FALSE /\ v.why = why
  OBVIOUS
<1>3. job' = [job EXCEPT ![j] = v]
  BY DEF Undo
<1> HIDE DEF v
<1>4. job' \in [Jobs -> JobType] /\ job'[j] = v /\ Only(j)
  BY JobTyped, <1>1, <1>3 DEF Only
<1> QED
  BY <1>2, <1>4

\* What is noted stays noted.
LEMMA Noted ==
  ASSUME TypeOK, NEW S \in SUBSET Events
  PROVE  Note(S) => hist' \in SUBSET Events /\ hist \subseteq hist'
BY DEF TypeOK, Note

LEMMA MadeTyped ==
  ASSUME TypeOK, NEW j \in Jobs, NEW a \in Artifacts, Made(j, a)
  PROVE  /\ art' \in Seeds /\ job' \in [Jobs -> JobType]
         /\ art'[a] = j /\ \A b \in Artifacts : b # a => art'[b] = art[b]
         /\ job'[j].seed[a] = j /\ \A b \in Artifacts : b # a => job'[j].seed[b] = job[j].seed[b]
         /\ job'[j].k = job[j].k + 1 /\ job'[j].pc = job[j].pc
         /\ Only(j)
<1>1. job \in [Jobs -> JobType] /\ job[j] \in JobType /\ art \in Seeds
  BY DEF TypeOK
<1>2. j \in Makers
  BY Kinds
<1>3. art' \in Seeds /\ art'[a] = j /\ \A b \in Artifacts : b # a => art'[b] = art[b]
  BY <1>1, <1>2 DEF Made, Seeds
<1>4. job' = [job EXCEPT ![j].seed[a] = j, ![j].k = @ + 1]
  BY DEF Made
<1>5. job[j].k \in Nat /\ job[j].seed \in [Artifacts -> Makers]
  BY <1>1 DEF JobType, Seeds
<1> DEFINE s == [job[j].seed EXCEPT ![a] = j]
           n == job[j].k + 1
           v == [job[j] EXCEPT !.seed = s, !.k = n]
<1>6. n \in Nat /\ s \in Seeds /\ s[a] = j /\ \A b \in Artifacts : b # a => s[b] = job[j].seed[b]
  BY <1>2, <1>5 DEF Seeds
<1>7. job' = [job EXCEPT ![j] = v]
  BY <1>1, <1>4 DEF JobType
<1> HIDE DEF s, n
<1>8. v \in JobType /\ v.seed = s /\ v.k = n /\ v.pc = job[j].pc
  BY <1>1, <1>6, Zenon DEF JobType
<1> HIDE DEF v
<1>9. job' \in [Jobs -> JobType] /\ job'[j] = v /\ Only(j)
  BY <1>1, <1>7, <1>8 DEF Only
<1> QED
  BY <1>3, <1>6, <1>8, <1>9 DEF n

\* teardown moves on to the next artifact.
LEMMA TornOne ==
  ASSUME TypeOK, NEW j \in Jobs, NEW e \in BOOLEAN,
         job' = [job EXCEPT ![j].k = @ + 1, ![j].err = Errors(j, e)]
  PROVE  /\ job' \in [Jobs -> JobType] /\ Only(j)
         /\ job'[j].pc = job[j].pc /\ job'[j].k = job[j].k + 1 /\ job'[j].seed = job[j].seed
         /\ job'[j].err = (job[j].err \/ e) /\ job'[j].why = job[j].why
<1> DEFINE n == job[j].k + 1
           x == Errors(j, e)
           v == [job[j] EXCEPT !.k = n, !.err = x]
<1>1. job \in [Jobs -> JobType] /\ job[j] \in JobType
  BY JobTyped
<1>2. n \in Nat /\ x \in BOOLEAN
  BY JobTyped DEF Errors
<1>3. job' = [job EXCEPT ![j] = v]
  BY <1>1, Zenon DEF JobType
<1>4. x = (job[j].err \/ e)
  BY DEF Errors
<1> HIDE DEF n, x
<1>5. v \in JobType /\ v.pc = job[j].pc /\ v.k = n /\ v.seed = job[j].seed
      /\ v.err = x /\ v.why = job[j].why
  BY <1>1, <1>2, Zenon DEF JobType
<1> HIDE DEF v
<1>6. job' \in [Jobs -> JobType] /\ job'[j] = v /\ Only(j)
  BY <1>1, <1>3, <1>5, Zenon DEF Only
<1> QED
  BY <1>4, <1>5, <1>6, Zenon DEF n

-----------------------------------------------------------------------------
(* What a step of one job leaves to show *)

LEMMA AloneStep ==
  ASSUME TypeOK, AloneInv, NEW j \in Jobs, Only(j), hist \subseteq hist',
         Live(j) \/ (Clean' => \A i \in Jobs : ~Live(i)),
         row'.status = "none" => row'.seed = NoSeed,
         Clean /\ Clean' => \A a \in Artifacts : art'[a] \in Jobs =>
           /\ (~Live(j)' \/ job'[j].pc = "mark") => Names(row'.seed, art'[a], a)
           /\ Live(j)' => Knows(job'[j], a, art'[a])
  PROVE  AloneInv'
<1>1. Clean' => Clean
  BY DEF Clean
<1>2. Clean => \A i \in Jobs : i # j /\ Live(j) => ~Live(i)
  BY DEF AloneInv
<1>3. Clean' => \A i \in Jobs : i # j => ~Live(i)'
  BY <1>1, <1>2 DEF Only
<1>4. ASSUME Clean' PROVE \A i, m \in Jobs : Live(i)' /\ Live(m)' => i = m
  BY <1>3, <1>4
<1>5. ASSUME Clean', NEW a \in Artifacts, art'[a] \in Jobs
      PROVE  /\ (\A i \in Jobs : ~Live(i)' \/ job'[i].pc = "mark") => Names(row'.seed, art'[a], a)
             /\ \A i \in Jobs : Live(i)' => Knows(job'[i], a, art'[a])
  BY <1>1, <1>3, <1>5
<1> QED
  BY <1>4, <1>5 DEF AloneInv, Knows, Names, Ahead

\* Nobody's pipeline or transformation goes but the job's own, unless a
\* removal is noted.
OthersStay(j) ==
  \A a \in ByID : art'[a] = art[a] \/ "removed" \in hist' \/ art[a] \in {0, j}

LEMMA WholeStep ==
  ASSUME TypeOK, WholeInv, NEW j \in 0..MaxJobs, Only(j), hist \subseteq hist', OthersStay(j),
         j \in Jobs => job[j].pc # "done"
  PROVE  /\ \A s : Finished(s, job, art, hist) => Finished(s, job', art', hist')
         /\ \A i \in Jobs : i # j => Sound(i, job'[i], job', art', hist')
<1>1. ASSUME NEW i \in Jobs, i # j, NEW a \in ByID, "removed" \notin hist', art[a] = i
      PROVE  art'[a] = i
  <2>1. i # 0
    BY DEF Jobs
  <2> QED
    BY <1>1, <2>1 DEF OthersStay
<1>2. \A i \in Jobs : Loaded(i, job, art, hist) => Loaded(i, job', art', hist')
  <2> SUFFICES ASSUME NEW i \in Jobs, Loaded(i, job, art, hist) PROVE Loaded(i, job', art', hist')
    OBVIOUS
  <2>1. i # j /\ job'[i].pc = "done"
    BY DEF Loaded, Only
  <2>2. "removed" \notin hist' => \A a \in ByID : art'[a] = i
    BY <1>1, <2>1 DEF Loaded
  <2> QED
    BY <2>1, <2>2 DEF Loaded
<1>3. \A s : Finished(s, job, art, hist) => Finished(s, job', art', hist')
  BY <1>2 DEF Finished
<1>4. ASSUME NEW i \in Jobs, i # j PROVE Sound(i, job'[i], job', art', hist')
  <2>1. job'[i] = job[i] /\ Sound(i, job[i], job, art, hist)
    BY <1>4 DEF Only, WholeInv
  <2>2. \A k, s : BuiltUpTo(i, k, s, art, hist) => BuiltUpTo(i, k, s, art', hist')
    BY <1>1, <1>4 DEF BuiltUpTo
  <2> QED
    BY <1>3, <2>1, <2>2 DEF Sound
<1> QED
  BY <1>3, <1>4

\* The row is as it was, gone, or written with a finished seed.
RowKept ==
  \/ row' = row
  \/ /\ row' \in RowType /\ Finished(row'.seed, job', art', hist')
     /\ row'.status = "none" => row'.seed = NoSeed
     /\ row'.status = "ready" => row'.seed # NoSeed

LEMMA JobStep ==
  ASSUME DemoInv, NEW j \in Jobs, Only(j), job' \in [Jobs -> JobType], art' \in Seeds,
         hist' \in SUBSET Events, hist \subseteq hist', OthersStay(j), job[j].pc # "done",
         Live(j) \/ (Clean' => \A i \in Jobs : ~Live(i)),
         RowKept,
         Clean /\ Clean' => \A a \in Artifacts : art'[a] \in Jobs =>
           /\ (~Live(j)' \/ job'[j].pc = "mark") => Names(row'.seed, art'[a], a)
           /\ Live(j)' => Knows(job'[j], a, art'[a]),
         Sound(j, job'[j], job', art', hist')
  PROVE  DemoInv'
<1> USE DEF DemoInv
<1>1. TypeOK'
  BY DEF TypeOK, RowKept
<1>2. row'.status = "none" => row'.seed = NoSeed
  BY DEF RowKept, AloneInv
<1>3. AloneInv'
  BY <1>2, AloneStep
<1>4. j \in 0..MaxJobs
  BY DEF Jobs
<1>5. /\ \A s : Finished(s, job, art, hist) => Finished(s, job', art', hist')
      /\ \A i \in Jobs : i # j => Sound(i, job'[i], job', art', hist')
  BY <1>4, WholeStep
<1>6. Finished(row'.seed, job', art', hist') /\ (row'.status = "ready" => row'.seed # NoSeed)
  BY <1>5 DEF RowKept, WholeInv
<1>7. \A i \in Jobs : Sound(i, job'[i], job', art', hist')
  BY <1>5
<1>8. WholeInv'
  BY <1>6, <1>7 DEF WholeInv
<1> QED
  BY <1>1, <1>3, <1>8

\* Nothing changed but the job: what was finished still is.
LEMMA StillFinished ==
  ASSUME DemoInv, NEW j \in Jobs, Only(j), job[j].pc # "done", hist \subseteq hist', OthersStay(j)
  PROVE  \A s : Finished(s, job, art, hist) => Finished(s, job', art', hist')
<1>1. j \in 0..MaxJobs
  BY DEF Jobs
<1> QED
  BY <1>1, WholeStep DEF DemoInv

-----------------------------------------------------------------------------
(* Requests *)

LEMMA Accepted ==
  ASSUME TypeOK, NEW j \in Jobs, Accept(j)
  PROVE  /\ hist' \in SUBSET Events /\ hist \subseteq hist' /\ job[j].pc = "idle"
         /\ Clean' => \A i \in Jobs : ~Live(i)
<1>1. job[j].pc = "idle" /\ Note(IF \E i \in Jobs : Live(i) THEN {"overlap"} ELSE {})
  BY DEF Accept
<1>2. hist' = hist \cup (IF \E i \in Jobs : Live(i) THEN {"overlap"} ELSE {})
  BY <1>1 DEF Note
<1>3. hist' \in SUBSET Events /\ hist \subseteq hist'
  BY <1>2 DEF TypeOK, Events
<1>4. ASSUME NEW i \in Jobs, Live(i) PROVE "overlap" \in hist'
  BY <1>2, <1>4
<1> QED
  BY <1>1, <1>3, <1>4 DEF Clean

LEMMA LoadKeeps ==
  ASSUME DemoInv, NEW j \in Jobs, LoadDemoProject(j)
  PROVE  DemoInv'
<1> USE DEF DemoInv
<1>1. /\ hist' \in SUBSET Events /\ hist \subseteq hist' /\ job[j].pc = "idle"
      /\ Clean' => \A i \in Jobs : ~Live(i)
  BY Accepted DEF LoadDemoProject
<1>2. row' = row /\ art' = art /\ art' \in Seeds /\ row.seed \in Seeds
  BY DEF LoadDemoProject, TypeOK, RowType
<1>3. RowKept /\ OthersStay(j)
  BY <1>2 DEF RowKept, OthersStay
<1>4. Clean => (Clean' => \A a \in Artifacts : art[a] \in Jobs => Names(row.seed, art[a], a))
  BY <1>1 DEF AloneInv
<1>5. CASE row.status = "none" /\ Goto(j, "claim")
  <2>1. /\ job' \in [Jobs -> JobType] /\ Only(j) /\ job'[j].pc = "claim"
    BY <1>5, Went DEF Pcs
  <2>2. Sound(j, job'[j], job', art', hist')
    BY <2>1 DEF Sound, Removing
  <2>3. \A a \in Artifacts : ~Names(NoSeed, art[a], a)
    BY Kinds DEF Names
  <2>4. Clean /\ Clean' => \A a \in Artifacts : art'[a] \notin Jobs
    BY <1>2, <1>4, <1>5, <2>3 DEF AloneInv
  <2> QED
    BY <1>1, <1>2, <1>3, <2>1, <2>2, <2>4, JobStep
<1>6. CASE Undo(j, row.seed, "abandoned")
  <2>1. /\ job' \in [Jobs -> JobType] /\ Only(j) /\ job'[j].pc = "undo" /\ job'[j].k = 1
        /\ job'[j].seed = row.seed /\ job'[j].err = FALSE /\ job'[j].why = "abandoned"
    BY <1>2, <1>6, Undoing, Zenon DEF Whys
  <2>2. Finished(row.seed, job', art', hist')
    BY <1>1, <1>3, <2>1, StillFinished DEF WholeInv
  <2>3. Sound(j, job'[j], job', art', hist')
    BY <2>1, <2>2 DEF Sound, Removing
  <2>4. ASSUME Clean, Clean', NEW a \in Artifacts, art'[a] \in Jobs
        PROVE  /\ (~Live(j)' \/ job'[j].pc = "mark") => Names(row'.seed, art'[a], a)
               /\ Live(j)' => Knows(job'[j], a, art'[a])
    BY <1>2, <1>4, <2>1, <2>4, Order DEF Knows, Ahead
  <2> QED
    BY <1>1, <1>2, <1>3, <2>1, <2>3, <2>4, JobStep
<1> QED
  BY <1>5, <1>6 DEF LoadDemoProject

LEMMA RemoveKeeps ==
  ASSUME DemoInv, NEW j \in Jobs, RemoveDemoProject(j)
  PROVE  DemoInv'
<1> USE DEF DemoInv
<1>1. /\ hist' \in SUBSET Events /\ hist \subseteq hist' /\ job[j].pc = "idle"
      /\ Clean' => \A i \in Jobs : ~Live(i)
  BY Accepted DEF RemoveDemoProject
<1>2. row' = row /\ art' = art /\ art' \in Seeds /\ row.seed \in Seeds
  BY DEF RemoveDemoProject, TypeOK, RowType
<1>3. RowKept /\ OthersStay(j)
  BY <1>2 DEF RowKept, OthersStay
<1>4. Clean => (Clean' => \A a \in Artifacts : art[a] \in Jobs => Names(row.seed, art[a], a))
  BY <1>1 DEF AloneInv
<1> DEFINE v == [job[j] EXCEPT !.pc = "mark", !.seed = row.seed]
<1>5. job' = [job EXCEPT ![j] = v]
  BY JobTyped, Zenon DEF RemoveDemoProject, JobType
<1>6. v \in JobType /\ v.pc = "mark" /\ v.seed = row.seed
  BY JobTyped, <1>2, Zenon DEF JobType, Pcs
<1> HIDE DEF v
<1>7. job' \in [Jobs -> JobType] /\ Only(j) /\ job'[j].pc = "mark" /\ job'[j].seed = row.seed
  BY JobTyped, <1>5, <1>6 DEF Only
<1>8. Finished(row.seed, job', art', hist')
  BY <1>1, <1>3, <1>7, StillFinished DEF WholeInv
<1>9. Sound(j, job'[j], job', art', hist')
  BY <1>7, <1>8 DEF Sound
<1>10. ASSUME Clean, Clean', NEW a \in Artifacts, art'[a] \in Jobs
       PROVE  /\ (~Live(j)' \/ job'[j].pc = "mark") => Names(row'.seed, art'[a], a)
              /\ Live(j)' => Knows(job'[j], a, art'[a])
  BY <1>2, <1>4, <1>7, <1>10 DEF Knows
<1> QED
  BY <1>1, <1>2, <1>3, <1>7, <1>9, <1>10, JobStep

-----------------------------------------------------------------------------
(* Steps of a request or a worker *)

\* A job that ends answers for nothing itself any more.
LEMMA EndKeeps ==
  ASSUME DemoInv, NEW j \in Jobs, Live(j), Goto(j, "done"), art' = art,
         hist' \in SUBSET Events, hist \subseteq hist', RowKept,
         Clean /\ Clean' => \A a \in Artifacts : art[a] \in Jobs => Names(row'.seed, art[a], a)
  PROVE  DemoInv'
<1> USE DEF DemoInv
<1>1. job' \in [Jobs -> JobType] /\ Only(j) /\ job'[j].pc = "done"
  BY Went DEF Pcs
<1>2. Sound(j, job'[j], job', art', hist')
  BY <1>1 DEF Sound, Removing
<1>3. art' \in Seeds /\ OthersStay(j)
  BY DEF TypeOK, OthersStay
<1>4. ASSUME Clean, Clean', NEW a \in Artifacts, art'[a] \in Jobs
      PROVE  /\ (~Live(j)' \/ job'[j].pc = "mark") => Names(row'.seed, art'[a], a)
             /\ Live(j)' => Knows(job'[j], a, art'[a])
  BY <1>1, <1>4
<1> QED
  BY <1>1, <1>2, <1>3, <1>4, JobStep

\* A load that fails rolls back what it recorded.
LEMMA FailKeeps ==
  ASSUME DemoInv, NEW j \in Jobs, job[j].pc \in {"build", "ready"}, Fails(j), row' = row,
         art' \in Seeds, hist' \in SUBSET Events, hist \subseteq hist', OthersStay(j),
         art' = art \/ ~Clean'
  PROVE  DemoInv'
<1> USE DEF DemoInv
<1>1. job[j].seed \in Seeds
  BY JobTyped
<1>2. /\ job' \in [Jobs -> JobType] /\ Only(j) /\ job'[j].pc = "undo" /\ job'[j].k = 1
      /\ job'[j].seed = job[j].seed /\ job'[j].err = FALSE /\ job'[j].why = "failed"
  BY <1>1, Undoing, Zenon DEF Fails, Whys
<1>3. \A m \in 1..5 : job[j].seed[Build[m]] \in {0, j}
  BY DEF WholeInv, Sound, BuiltUpTo
<1>4. \A a \in Artifacts : job[j].seed[a] \in {0, j}
  BY <1>3, Order
<1>5. Sound(j, job'[j], job', art', hist')
  BY <1>2, <1>4 DEF Sound, Removing
<1>6. RowKept
  BY DEF RowKept
<1>7. ASSUME Clean, Clean', NEW a \in Artifacts, art'[a] \in Jobs
      PROVE  /\ (~Live(j)' \/ job'[j].pc = "mark") => Names(row'.seed, art'[a], a)
             /\ Live(j)' => Knows(job'[j], a, art'[a])
  <2>1. Knows(job[j], a, art[a]) /\ art' = art
    BY <1>7 DEF AloneInv
  <2> QED
    BY <1>2, <2>1, Order DEF Knows, Ahead
<1> QED
  BY <1>2, <1>5, <1>6, <1>7, JobStep

\* An artifact of the job's own, made or left behind.
LEMMA LeftKeeps ==
  ASSUME DemoInv, NEW j \in Jobs, job[j].pc = "build", NEW a \in Artifacts, Left(j, a),
         a \in ByID => art[a] = 0, row' = row
  PROVE  DemoInv'
<1> USE DEF DemoInv
<1>1. art' = [art EXCEPT ![a] = j] /\ Fails(j) /\ hist' = hist \cup {"lost"}
  BY DEF Left, Note
<1>2. art' \in Seeds
  BY <1>1, Kinds, ArtsTyped, Zenon
<1>3. hist' \in SUBSET Events /\ hist \subseteq hist' /\ ~Clean'
  BY <1>1 DEF TypeOK, Events, Clean
<1>4. OthersStay(j)
  BY <1>1, Kinds DEF OthersStay, TypeOK, Seeds
<1> QED
  BY <1>1, <1>2, <1>3, <1>4, FailKeeps, Zenon

LEMMA MadeKeeps ==
  ASSUME DemoInv, NEW j \in Jobs, job[j].pc = "build", job[j].k <= 5, Made(j, Build[job[j].k]),
         Build[job[j].k] \in ByID => art[Build[job[j].k]] = 0, row' = row, hist' = hist
  PROVE  DemoInv'
<1> USE DEF DemoInv
<1> DEFINE k == job[j].k
           a == Build[k]
<1>1. k \in 1..5 /\ a \in Artifacts
  BY Order DEF WholeInv, Sound
<1>2. /\ art' \in Seeds /\ job' \in [Jobs -> JobType]
      /\ art'[a] = j /\ \A b \in Artifacts : b # a => art'[b] = art[b]
      /\ job'[j].seed[a] = j /\ \A b \in Artifacts : b # a => job'[j].seed[b] = job[j].seed[b]
      /\ job'[j].k = k + 1 /\ job'[j].pc = "build" /\ Only(j)
  BY <1>1, MadeTyped
<1>3. \A m \in 1..5 : Build[m] \in Artifacts /\ (Build[m] = a => m = k)
  <2>1. \A m, n \in 1..5 : Build[m] = Build[n] => m = n
    <3>1. \A m \in 1..5 : m = 1 \/ m = 2 \/ m = 3 \/ m = 4 \/ m = 5
      OBVIOUS
    <3> QED
      BY <3>1, Order
  <2> QED
    BY <1>1, <2>1, Order
<1>4. BuiltUpTo(j, k, job[j].seed, art, hist)
  BY DEF WholeInv, Sound
<1>5. BuiltUpTo(j, k + 1, job'[j].seed, art', hist')
  <2>1. \A m \in 1..5 : job'[j].seed[Build[m]] = IF m < k + 1 THEN j ELSE 0
    BY <1>1, <1>2, <1>3, <1>4 DEF BuiltUpTo
  <2>2. "removed" \notin hist' => \A m \in 1..5 : m < k + 1 /\ Build[m] \in ByID => art'[Build[m]] = j
    BY <1>1, <1>2, <1>3, <1>4 DEF BuiltUpTo
  <2> QED
    BY <2>1, <2>2 DEF BuiltUpTo
<1>6. Sound(j, job'[j], job', art', hist')
  BY <1>1, <1>2, <1>5 DEF Sound, Removing
<1>7. OthersStay(j)
  BY <1>2, Kinds DEF OthersStay
<1>8. RowKept /\ hist' \in SUBSET Events /\ hist \subseteq hist'
  BY DEF RowKept, TypeOK
<1>9. ASSUME Clean, NEW b \in Artifacts, art'[b] \in Jobs
      PROVE  /\ (~Live(j)' \/ job'[j].pc = "mark") => Names(row'.seed, art'[b], b)
             /\ Live(j)' => Knows(job'[j], b, art'[b])
  <2>1. CASE b = a
    BY <1>2, <2>1, Kinds DEF Knows, Names
  <2>2. CASE b # a
    <3>1. Knows(job[j], b, art[b])
      BY <1>2, <1>9, <2>2 DEF AloneInv
    <3> QED
      BY <1>2, <2>2, <3>1 DEF Knows, Names
  <2> QED
    BY <2>1, <2>2
<1> QED
  BY <1>2, <1>6, <1>7, <1>8, <1>9, JobStep

LEMMA ClaimKeeps ==
  ASSUME DemoInv, NEW j \in Jobs, Claim(j)
  PROVE  DemoInv'
<1> USE DEF DemoInv
<1>1. job[j].pc = "claim" /\ art' = art /\ hist' = hist
  BY DEF Claim
<1>2. hist' \in SUBSET Events /\ hist \subseteq hist' /\ art' \in Seeds /\ OthersStay(j)
  BY <1>1 DEF TypeOK, OthersStay
<1>3. Clean => \A a \in Artifacts : art[a] \notin Jobs
  BY <1>1 DEF AloneInv, Knows
<1>4. CASE /\ SaveDemoSeed("loading", NoSeed)
           /\ job' = [job EXCEPT ![j] = [Idle EXCEPT !.pc = "build", !.k = 1]]
  <2> DEFINE v == [Idle EXCEPT !.pc = "build", !.k = 1]
  <2>1. v \in JobType /\ v.pc = "build" /\ v.k = 1 /\ v.seed = NoSeed
    BY Kinds, Zenon DEF Idle, JobType, Pcs, Whys
  <2>2. job' = [job EXCEPT ![j] = v]
    BY <1>4
  <2> HIDE DEF v
  <2>3. job' \in [Jobs -> JobType] /\ Only(j) /\ job'[j] = v
    BY JobTyped, <2>1, <2>2 DEF Only
  <2>4. Sound(j, job'[j], job', art', hist')
    BY <2>1, <2>3, Kinds, Order DEF Sound, Removing, BuiltUpTo
  <2>5. row' \in RowType /\ row'.seed = NoSeed /\ row'.status = "loading"
    BY <1>4, Kinds DEF SaveDemoSeed, RowType, Statuses
  <2>6. RowKept
    BY <2>5 DEF RowKept, Finished
  <2> QED
    BY <1>1, <1>2, <1>3, <2>3, <2>4, <2>6, JobStep
<1>5. CASE Goto(j, "done") /\ UNCHANGED row
  <2>1. RowKept
    BY <1>5 DEF RowKept
  <2> QED
    BY <1>1, <1>2, <1>3, <1>5, <2>1, EndKeeps
<1> QED
  BY <1>4, <1>5 DEF Claim

LEMMA MarkKeeps ==
  ASSUME DemoInv, NEW j \in Jobs, MarkRemoving(j)
  PROVE  DemoInv'
<1> USE DEF DemoInv
<1>1. job[j].pc = "mark" /\ art' = art /\ hist' = hist /\ job[j].seed \in Seeds
  BY JobTyped DEF MarkRemoving
<1>2. hist' \in SUBSET Events /\ hist \subseteq hist' /\ art' \in Seeds /\ OthersStay(j)
  BY <1>1 DEF TypeOK, OthersStay
<1>3. Finished(job[j].seed, job, art, hist)
  BY <1>1 DEF WholeInv, Sound, Removing
<1>4. ASSUME Clean, NEW a \in Artifacts, art[a] \in Jobs
      PROVE  Names(job[j].seed, art[a], a) /\ Names(row.seed, art[a], a)
  <2>1. \A i \in Jobs : ~Live(i) \/ job[i].pc = "mark"
    BY <1>1, <1>4 DEF AloneInv
  <2> QED
    BY <1>1, <1>4, <2>1 DEF AloneInv, Knows
<1>5. CASE SaveDemoSeed("removing", job[j].seed) /\ Undo(j, job[j].seed, "removed")
  <2>1. /\ job' \in [Jobs -> JobType] /\ Only(j) /\ job'[j].pc = "undo" /\ job'[j].k = 1
        /\ job'[j].seed = job[j].seed /\ job'[j].err = FALSE /\ job'[j].why = "removed"
    BY <1>1, <1>5, Undoing, Zenon DEF Whys
  <2>2. Finished(job[j].seed, job', art', hist')
    BY <1>1, <1>2, <1>3, <2>1, StillFinished
  <2>3. Sound(j, job'[j], job', art', hist')
    BY <2>1, <2>2 DEF Sound, Removing
  <2>4. row' \in RowType /\ row'.seed = job[j].seed /\ row'.status = "removing"
    BY <1>1, <1>5 DEF SaveDemoSeed, RowType, Statuses
  <2>5. RowKept
    BY <2>2, <2>4 DEF RowKept
  <2>6. ASSUME Clean, Clean', NEW a \in Artifacts, art'[a] \in Jobs
        PROVE  /\ (~Live(j)' \/ job'[j].pc = "mark") => Names(row'.seed, art'[a], a)
               /\ Live(j)' => Knows(job'[j], a, art'[a])
    BY <1>1, <1>4, <2>1, <2>6, Order DEF Knows, Ahead
  <2> QED
    BY <1>1, <1>2, <2>1, <2>3, <2>5, <2>6, JobStep
<1>6. CASE Goto(j, "done") /\ UNCHANGED row
  <2>1. RowKept
    BY <1>6 DEF RowKept
  <2> QED
    BY <1>1, <1>2, <1>4, <1>6, <2>1, EndKeeps
<1> QED
  BY <1>5, <1>6 DEF MarkRemoving

LEMMA PipelinesKeep ==
  ASSUME DemoInv, NEW j \in Jobs, createPipelines(j)
  PROVE  DemoInv'
<1> USE DEF DemoInv
<1> DEFINE a == Build[job[j].k]
<1>1. job[j].pc = "build" /\ job[j].k <= 5 /\ row' = row
  BY Order DEF createPipelines, Building
<1>2. job[j].k \in 1..5 /\ a \in Artifacts
  BY <1>1, Order DEF WholeInv, Sound
<1>3. CASE art[a] = 0 /\ Made(j, a) /\ UNCHANGED hist
  BY <1>1, <1>3, MadeKeeps
<1>4. CASE Fails(j) /\ UNCHANGED <<art, hist>>
  <2>1. art' = art /\ art' \in Seeds /\ hist' \in SUBSET Events /\ hist \subseteq hist' /\ OthersStay(j)
    BY <1>4 DEF TypeOK, OthersStay
  <2> QED
    BY <1>1, <1>4, <2>1, FailKeeps
<1>5. CASE art[a] = 0 /\ Left(j, a)
  BY <1>1, <1>2, <1>5, LeftKeeps
<1> QED
  BY <1>3, <1>4, <1>5 DEF createPipelines

LEMMA FilesKeep ==
  ASSUME DemoInv, NEW j \in Jobs, commitRepoFiles(j)
  PROVE  DemoInv'
<1> USE DEF DemoInv
<1> DEFINE a == Build[job[j].k]
<1>1. job[j].pc = "build" /\ job[j].k <= 5 /\ row' = row /\ a \notin ByID
  BY Order DEF commitRepoFiles, Building, ByID
<1>2. job[j].k \in 1..5 /\ a \in Artifacts
  BY <1>1, Order DEF WholeInv, Sound
<1>3. CASE Made(j, a) /\ UNCHANGED hist
  BY <1>1, <1>3, MadeKeeps
<1>4. CASE Fails(j) /\ UNCHANGED <<art, hist>>
  <2>1. art' = art /\ art' \in Seeds /\ hist' \in SUBSET Events /\ hist \subseteq hist' /\ OthersStay(j)
    BY <1>4 DEF TypeOK, OthersStay
  <2> QED
    BY <1>1, <1>4, <2>1, FailKeeps
<1>5. CASE Left(j, a)
  BY <1>1, <1>2, <1>5, LeftKeeps
<1> QED
  BY <1>3, <1>4, <1>5 DEF commitRepoFiles

LEMMA TransformationKeeps ==
  ASSUME DemoInv, NEW j \in Jobs, createTransformation(j)
  PROVE  DemoInv'
<1> USE DEF DemoInv
<1>1. /\ job[j].pc = "build" /\ job[j].k <= 5 /\ row' = row
      /\ Build[job[j].k] = "transformation"
  BY Order DEF createTransformation, Building
<1>2. job[j].k \in 1..5 /\ "transformation" \in Artifacts
  BY <1>1, Order DEF WholeInv, Sound
<1>3. CASE art["transformation"] = 0 /\ Made(j, "transformation") /\ UNCHANGED hist
  BY <1>1, <1>3, MadeKeeps
<1>4. CASE Fails(j) /\ UNCHANGED <<art, hist>>
  <2>1. art' = art /\ art' \in Seeds /\ hist' \in SUBSET Events /\ hist \subseteq hist' /\ OthersStay(j)
    BY <1>4 DEF TypeOK, OthersStay
  <2> QED
    BY <1>1, <1>4, <2>1, FailKeeps
<1>5. CASE art["transformation"] = 0 /\ Left(j, "transformation")
  BY <1>1, <1>2, <1>5, LeftKeeps
<1> QED
  BY <1>3, <1>4, <1>5 DEF createTransformation

LEMMA KickOffKeeps ==
  ASSUME DemoInv, NEW j \in Jobs, kickOff(j)
  PROVE  DemoInv'
<1> USE DEF DemoInv
<1>1. job[j].pc = "build" /\ job[j].k = 6 /\ row' = row /\ art' = art /\ hist' = hist
  BY Order DEF kickOff
<1>2. art' \in Seeds /\ hist' \in SUBSET Events /\ hist \subseteq hist' /\ OthersStay(j) /\ RowKept
  BY <1>1 DEF TypeOK, OthersStay, RowKept
<1>3. CASE Goto(j, "ready")
  <2>1. /\ job' \in [Jobs -> JobType] /\ Only(j) /\ job'[j].pc = "ready" /\ job'[j].seed = job[j].seed
    BY <1>3, Went DEF Pcs
  <2>2. BuiltUpTo(j, 6, job[j].seed, art, hist)
    BY <1>1 DEF WholeInv, Sound
  <2>3. Sound(j, job'[j], job', art', hist')
    BY <1>1, <2>1, <2>2 DEF Sound, Removing
  <2>4. ASSUME Clean, NEW a \in Artifacts, art'[a] \in Jobs
        PROVE  /\ (~Live(j)' \/ job'[j].pc = "mark") => Names(row'.seed, art'[a], a)
               /\ Live(j)' => Knows(job'[j], a, art'[a])
    <3>1. Knows(job[j], a, art[a])
      BY <1>1, <2>4 DEF AloneInv
    <3> QED
      BY <1>1, <2>1, <3>1 DEF Knows
  <2> QED
    BY <1>1, <1>2, <2>1, <2>3, <2>4, JobStep
<1>4. CASE Fails(j)
  BY <1>1, <1>2, <1>4, FailKeeps
<1> QED
  BY <1>3, <1>4, Zenon DEF kickOff

LEMMA ReadyKeeps ==
  ASSUME DemoInv, NEW j \in Jobs, Ready(j)
  PROVE  DemoInv'
<1> USE DEF DemoInv
<1>1. job[j].pc = "ready" /\ art' = art /\ hist' = hist /\ job[j].seed \in Seeds
  BY JobTyped DEF Ready
<1>2. art' \in Seeds /\ hist' \in SUBSET Events /\ hist \subseteq hist' /\ OthersStay(j)
  BY <1>1 DEF TypeOK, OthersStay
<1>3. BuiltUpTo(j, 6, job[j].seed, art, hist)
  BY <1>1 DEF WholeInv, Sound
<1>4. CASE SaveDemoSeed("ready", job[j].seed) /\ Goto(j, "done")
  <2>1. \A m \in 1..5 : job[j].seed[Build[m]] = j
    BY <1>3 DEF BuiltUpTo
  <2>2. job[j].seed = Full(j)
    BY <1>1, <2>1, Order DEF Seeds, Full
  <2>3. "removed" \notin hist => \A a \in ByID : art[a] = j
    <3>1. \A m \in 1..5 : m < 6
      OBVIOUS
    <3> QED
      BY <1>3, <3>1, Order, Kinds DEF BuiltUpTo
  <2>4. job'[j].pc = "done"
    BY <1>4, Went DEF Pcs
  <2>5. Finished(job[j].seed, job', art', hist')
    BY <1>1, <2>2, <2>3, <2>4 DEF Finished, Loaded
  <2>6. row' \in RowType /\ row'.seed = job[j].seed /\ row'.status = "ready"
    BY <1>1, <1>4 DEF SaveDemoSeed, RowType, Statuses
  <2>7. RowKept
    BY <2>2, <2>5, <2>6, Kinds DEF RowKept
  <2>8. Clean => \A a \in Artifacts : art[a] \in Jobs => Names(row'.seed, art[a], a)
    BY <1>1, <2>6 DEF AloneInv, Knows
  <2> QED
    BY <1>1, <1>2, <1>4, <2>7, <2>8, EndKeeps
<1>5. CASE Fails(j) /\ UNCHANGED row
  BY <1>1, <1>2, <1>5, FailKeeps
<1> QED
  BY <1>4, <1>5 DEF Ready

\* What a teardown meets, and what it takes.
LEMMA TornKeeps ==
  ASSUME DemoInv, NEW j \in Jobs, job[j].pc = "undo", job[j].k <= 5, row' = row,
         NEW e \in BOOLEAN, e => Found(j, Teardown[job[j].k]),
         job' = [job EXCEPT ![j].k = @ + 1, ![j].err = Errors(j, e)],
         hist' \in SUBSET Events, hist \subseteq hist',
         \/ art' = art /\ (Clean' => ~Found(j, Teardown[job[j].k]))
         \/ \E x \in {0, Stray} :
              /\ Found(j, Teardown[job[j].k]) /\ art' = [art EXCEPT ![Teardown[job[j].k]] = x]
              /\ Took(j) \subseteq hist'
  PROVE  DemoInv'
<1> USE DEF DemoInv
<1> DEFINE k == job[j].k
           a == Teardown[k]
<1>1. /\ job' \in [Jobs -> JobType] /\ Only(j)
      /\ job'[j].pc = "undo" /\ job'[j].k = k + 1 /\ job'[j].seed = job[j].seed
      /\ job'[j].err = (job[j].err \/ e) /\ job'[j].why = job[j].why
  BY TornOne, ZenonT(30)
<1>2. k \in Nat /\ k <= 5
  BY JobTyped
<1>3. job[j].seed \in Seeds /\ art \in Seeds /\ Sound(j, job[j], job, art, hist)
  BY JobTyped DEF TypeOK, WholeInv
<1>4. k \in 1..5 /\ a \in Artifacts
  BY <1>2, <1>3, Order DEF Sound
<1>5. Found(j, a) => job[j].seed[a] # 0 /\ (a \in ByID => art[a] = job[j].seed[a])
  BY Zenon DEF Found
<1>6. OthersStay(j)
  <2>1. CASE art' = art
    BY <2>1 DEF OthersStay
  <2>2. CASE art' # art
    <3>1. PICK x \in {0, Stray} : Found(j, a) /\ art' = [art EXCEPT ![a] = x] /\ Took(j) \subseteq hist'
      BY <2>2
    <3>2. CASE job[j].why = "failed"
      <4>1. job[j].seed[a] \in {0, j}
        BY <1>3, <1>4, <3>2 DEF Sound
      <4>2. a \in ByID => art[a] \in {0, j}
        BY <1>5, <3>1, <4>1
      <4>3. \A b \in ByID : b # a => art'[b] = art[b]
        BY <1>3, <3>1, Kinds DEF Seeds
      <4> QED
        BY <4>2, <4>3 DEF OthersStay
    <3>3. CASE job[j].why # "failed"
      BY <3>1, <3>3 DEF Took, OthersStay
    <3> QED
      BY <3>2, <3>3
  <2> QED
    BY <2>1, <2>2
<1>7. art' \in Seeds
  BY <1>4, Kinds, ArtsTyped, <1>3
<1>8. Sound(j, job'[j], job', art', hist')
  <2>1. Removing(job'[j]) => Finished(job'[j].seed, job', art', hist')
    BY <1>1, <1>3, <1>6, StillFinished, Zenon DEF Sound, Removing
  <2>2. job'[j].err => job'[j].seed # NoSeed
    BY <1>1, <1>3, <1>4, <1>5, Kinds DEF Sound
  <2>3. job'[j].why = "failed" => \A b \in Artifacts : job'[j].seed[b] \in {0, j}
    BY <1>1, <1>3 DEF Sound
  <2>4. job'[j].k # 0
    BY <1>1, <1>2
  <2> QED
    BY <1>1, <2>1, <2>2, <2>3, <2>4 DEF Sound
<1>9. RowKept
  BY DEF RowKept
<1>10. ASSUME Clean, Clean', NEW b \in Artifacts, art'[b] \in Jobs
       PROVE  /\ (~Live(j)' \/ job'[j].pc = "mark") => Names(row'.seed, art'[b], b)
              /\ Live(j)' => Knows(job'[j], b, art'[b])
  <2>1. art'[b] = art[b] /\ art[b] # 0
    BY <1>3, <1>4, <1>10, Kinds DEF Seeds
  <2>2. Names(job[j].seed, art[b], b) /\ Ahead(k, b)
    BY <1>10, <2>1 DEF AloneInv, Knows
  <2>3. b # a
    <3> SUFFICES ASSUME b = a PROVE FALSE
      OBVIOUS
    <3>1. Found(j, a)
      BY <2>1, <2>2, Zenon DEF Found, Names
    <3>2. PICK x \in {0, Stray} : art' = [art EXCEPT ![a] = x]
      BY <1>10, <3>1
    <3> QED
      BY <1>3, <1>4, <1>10, <3>2, Kinds DEF Seeds
  <2>4. Ahead(k + 1, b)
    BY <1>4, <2>2, <2>3, Order DEF Ahead
  <2> QED
    BY <1>1, <2>1, <2>2, <2>4 DEF Knows
<1> QED
  BY <1>1, <1>6, <1>7, <1>8, <1>9, <1>10, JobStep, Zenon

LEMMA TeardownKeeps ==
  ASSUME DemoInv, NEW j \in Jobs, teardown(j)
  PROVE  DemoInv'
<1> USE DEF DemoInv
<1> DEFINE a == Teardown[job[j].k]
           Next1(e) == job' = [job EXCEPT ![j].k = @ + 1, ![j].err = Errors(j, e)]
<1>1. job[j].pc = "undo" /\ job[j].k <= 5 /\ row' = row
  BY Order DEF teardown
<1>2. Took(j) \subseteq Events /\ {"lost"} \subseteq Events
  BY DEF Took, Events
<1>3. CASE ~Found(j, a) /\ Next1(FALSE) /\ UNCHANGED <<art, hist>>
  <2>1. hist' \in SUBSET Events /\ hist \subseteq hist' /\ art' = art
    BY <1>3 DEF TypeOK
  <2> QED
    BY <1>1, <1>3, <2>1, TornKeeps, Zenon
<1>4. CASE Found(j, a) /\ Next1(FALSE) /\ art' = [art EXCEPT ![a] = 0] /\ Note(Took(j))
  <2>1. hist' \in SUBSET Events /\ hist \subseteq hist' /\ Took(j) \subseteq hist'
    BY <1>2, <1>4 DEF TypeOK, Note
  <2> QED
    BY <1>1, <1>4, <2>1, TornKeeps, Zenon
<1>5. ASSUME Found(j, a), Next1(TRUE), Note(Took(j) \cup {"lost"}),
             NEW x \in After(a), art' = [art EXCEPT ![a] = x]
      PROVE  DemoInv'
  <2>1. hist' \in SUBSET Events /\ hist \subseteq hist' /\ Took(j) \subseteq hist'
    BY <1>2, <1>5 DEF TypeOK, Note
  <2>2. x \in {0, Stray}
    BY <1>5 DEF After
  <2> QED
    BY <1>1, <1>5, <2>1, <2>2, TornKeeps, Zenon
<1>6. CASE Found(j, a) /\ (Next1(TRUE) \/ Next1(FALSE)) /\ UNCHANGED art /\ Note({"lost"})
  <2>1. hist' \in SUBSET Events /\ hist \subseteq hist' /\ ~Clean' /\ art' = art
    BY <1>2, <1>6 DEF TypeOK, Note, Clean
  <2>2. CASE Next1(TRUE)
    BY <1>1, <1>6, <2>1, <2>2, TornKeeps, Zenon
  <2>3. CASE Next1(FALSE)
    BY <1>1, <1>6, <2>1, <2>3, TornKeeps, Zenon
  <2> QED
    BY <1>6, <2>2, <2>3, Zenon
<1> QED
  BY <1>3, <1>4, <1>5, <1>6, Zenon DEF teardown

\* A teardown that is through and lost nothing took everything.
LEMMA AllTorn ==
  ASSUME DemoInv, NEW j \in Jobs, job[j].pc = "undo", job[j].k > Len(Teardown), Clean
  PROVE  \A a \in Artifacts : art[a] \notin Jobs
<1> SUFFICES ASSUME NEW a \in Artifacts, art[a] \in Jobs PROVE FALSE
  OBVIOUS
<1>1. Ahead(job[j].k, a)
  BY DEF DemoInv, AloneInv, Knows
<1>2. PICK m \in 1..5 : Teardown[m] = a
  BY Order
<1>3. m < job[j].k
  BY <1>2, Order, JobTyped DEF DemoInv
<1> QED
  BY <1>1, <1>2, <1>3, Order DEF Ahead

\* The seed row goes, whoever deletes it.
LEMMA Deleted == DeleteDemoSeed => RowKept
<1>1. NoSeed \in Seeds
  BY Kinds
<1> QED
  BY <1>1 DEF DeleteDemoSeed, NoRow, RowKept, RowType, Statuses, Finished

LEMMA AbandonedKeeps ==
  ASSUME DemoInv, NEW j \in Jobs, cleanupAbandoned(j)
  PROVE  DemoInv'
<1> USE DEF DemoInv
<1>1. job[j].pc = "undo" /\ job[j].k > Len(Teardown) /\ art' = art /\ hist' = hist
  BY DEF cleanupAbandoned, Undone
<1>2. art' \in Seeds /\ hist' \in SUBSET Events /\ hist \subseteq hist' /\ OthersStay(j)
  BY <1>1 DEF TypeOK, OthersStay
<1>3. Clean => \A a \in Artifacts : art[a] \notin Jobs
  BY <1>1, AllTorn
<1>4. CASE DeleteDemoSeed /\ Goto(j, "claim")
  <2>1. job' \in [Jobs -> JobType] /\ Only(j) /\ job'[j].pc = "claim"
    BY <1>4, Went DEF Pcs
  <2>2. Sound(j, job'[j], job', art', hist')
    BY <2>1 DEF Sound, Removing
  <2>3. RowKept
    BY <1>4, Deleted
  <2> QED
    BY <1>1, <1>2, <1>3, <2>1, <2>2, <2>3, JobStep
<1>5. CASE Goto(j, "done") /\ UNCHANGED row
  <2>1. RowKept
    BY <1>5 DEF RowKept
  <2> QED
    BY <1>1, <1>2, <1>3, <1>5, <2>1, EndKeeps
<1> QED
  BY <1>4, <1>5 DEF cleanupAbandoned

LEMMA FailLoadKeeps ==
  ASSUME DemoInv, NEW j \in Jobs, failLoad(j)
  PROVE  DemoInv'
<1> USE DEF DemoInv
<1>1. /\ job[j].pc = "undo" /\ job[j].k > Len(Teardown) /\ art' = art /\ hist' = hist
      /\ Goto(j, "done")
  BY DEF failLoad, Undone
<1>2. hist' \in SUBSET Events /\ hist \subseteq hist'
  BY <1>1 DEF TypeOK
<1>3. Clean => \A a \in Artifacts : art[a] \notin Jobs
  BY <1>1, AllTorn
<1>4. DeleteDemoSeed \/ row' = row
  BY DEF failLoad
<1>5. RowKept
  BY <1>4, Deleted DEF RowKept
<1> QED
  BY <1>1, <1>2, <1>3, <1>5, EndKeeps

LEMMA RemoveWorkerKeeps ==
  ASSUME DemoInv, NEW j \in Jobs, removeWorker(j)
  PROVE  DemoInv'
<1> USE DEF DemoInv
<1>1. /\ job[j].pc = "undo" /\ job[j].k > Len(Teardown) /\ art' = art /\ hist' = hist
      /\ Goto(j, "done") /\ job[j].why = "removed" /\ job[j].seed \in Seeds
  BY JobTyped DEF removeWorker, Undone
<1>2. hist' \in SUBSET Events /\ hist \subseteq hist' /\ OthersStay(j)
  BY <1>1 DEF TypeOK, OthersStay
<1>3. Clean => \A a \in Artifacts : art[a] \notin Jobs
  BY <1>1, AllTorn
<1>4. CASE DeleteDemoSeed \/ row' = row
  <2>1. RowKept
    BY <1>4, Deleted DEF RowKept
  <2> QED
    BY <1>1, <1>2, <1>3, <2>1, EndKeeps
<1>5. CASE job[j].err /\ SaveDemoSeed("ready", job[j].seed)
  <2>1. Finished(job[j].seed, job, art, hist) /\ job[j].seed # NoSeed
    BY <1>1, <1>5 DEF WholeInv, Sound, Removing
  <2>2. Only(j)
    BY <1>1, Went DEF Pcs
  <2>3. Finished(job[j].seed, job', art', hist')
    BY <1>1, <1>2, <2>1, <2>2, StillFinished
  <2>4. row' \in RowType /\ row'.seed = job[j].seed /\ row'.status = "ready"
    BY <1>1, <1>5 DEF SaveDemoSeed, RowType, Statuses
  <2>5. RowKept
    BY <2>1, <2>3, <2>4 DEF RowKept
  <2> QED
    BY <1>1, <1>2, <1>3, <2>5, EndKeeps
<1> QED
  BY <1>4, <1>5 DEF removeWorker

LEMMA CrashKeeps ==
  ASSUME DemoInv, NEW j \in Jobs, Crash(j)
  PROVE  DemoInv'
<1> USE DEF DemoInv
<1>1. Live(j) /\ Goto(j, "done") /\ hist' = hist \cup {"lost"} /\ row' = row /\ art' = art
  BY DEF Crash, Note
<1>2. hist' \in SUBSET Events /\ hist \subseteq hist' /\ ~Clean' /\ RowKept
  BY <1>1 DEF TypeOK, Events, Clean, RowKept
<1> QED
  BY <1>1, <1>2, EndKeeps

-----------------------------------------------------------------------------
(* What is nobody's step *)

LEMMA DeletesKeep ==
  ASSUME DemoInv, NEW a \in Artifacts, UserDeletes(a)
  PROVE  DemoInv'
<1> USE DEF DemoInv
<1>1. art' = [art EXCEPT ![a] = 0] /\ hist' = hist \cup {"removed"} /\ row' = row /\ job' = job
  BY DEF UserDeletes, Note
<1>2. art' \in Seeds
  BY <1>1, Kinds, ArtsTyped, Zenon
<1>3. hist' \in SUBSET Events /\ hist \subseteq hist' /\ "removed" \in hist'
  BY <1>1 DEF TypeOK, Events
<1>4. TypeOK'
  BY <1>1, <1>2, <1>3 DEF TypeOK
<1>5. \A b \in Artifacts : art'[b] \in Jobs => art'[b] = art[b]
  BY <1>1, Kinds DEF TypeOK, Seeds
<1>6. AloneInv'
  BY <1>1, <1>3, <1>5 DEF AloneInv, Clean, Knows, Names, Ahead
<1>7. Only(0) /\ OthersStay(0) /\ 0 \notin Jobs /\ 0 \in 0..MaxJobs
  BY <1>1, <1>3, DemoAssumption DEF Only, OthersStay, Jobs
<1>8. /\ \A s : Finished(s, job, art, hist) => Finished(s, job', art', hist')
      /\ \A i \in Jobs : i # 0 => Sound(i, job'[i], job', art', hist')
  BY <1>3, <1>7, WholeStep
<1>9. WholeInv'
  BY <1>1, <1>7, <1>8, Zenon DEF WholeInv
<1> QED
  BY <1>4, <1>6, <1>9

LEMMA AgeKeeps == DemoInv /\ Age => DemoInv'
<1> SUFFICES ASSUME DemoInv, Age PROVE DemoInv'
  OBVIOUS
<1> USE DEF DemoInv
<1>1. row' = [row EXCEPT !.stale = TRUE] /\ art' = art /\ job' = job /\ hist' = hist
  BY DEF Age
<1>2. row' \in RowType /\ row'.seed = row.seed /\ row'.status = row.status
  BY <1>1, Zenon DEF TypeOK, RowType
<1>3. TypeOK'
  BY <1>1, <1>2 DEF TypeOK
<1>4. AloneInv'
  BY <1>1, <1>2 DEF AloneInv, Clean, Knows, Names, Ahead
<1>5. WholeInv'
  BY <1>1, <1>2 DEF WholeInv
<1> QED
  BY <1>3, <1>4, <1>5

LEMMA StutterKeeps == DemoInv /\ UNCHANGED vars => DemoInv'
<1> SUFFICES ASSUME DemoInv, UNCHANGED vars PROVE DemoInv'
  OBVIOUS
<1>1. row' = row /\ art' = art /\ job' = job /\ hist' = hist
  BY DEF vars
<1>2. TypeOK'
  BY <1>1 DEF TypeOK, DemoInv
<1>3. AloneInv'
  BY <1>1 DEF AloneInv, Clean, Knows, Names, Ahead, DemoInv
<1>4. WholeInv'
  BY <1>1 DEF WholeInv, DemoInv
<1> QED
  BY <1>2, <1>3, <1>4 DEF DemoInv

LEMMA InitInv == Init => DemoInv
<1> SUFFICES ASSUME Init PROVE DemoInv
  OBVIOUS
<1>1. TypeOK
  BY InitTyped
<1>2. row = NoRow /\ hist = {} /\ job = [j \in Jobs |-> Idle]
  BY DEF Init
<1>3. row.status = "none" /\ row.seed = NoSeed /\ \A j \in Jobs : job[j].pc = "idle"
  BY <1>2 DEF NoRow, Idle
<1>4. \A a \in Artifacts : art[a] \notin Jobs
  <2>1. art = NoSeed \/ art = [NoSeed EXCEPT !["zones"] = User]
    BY DEF Init
  <2>2. \A a \in Artifacts : art[a] \in {0, User}
    BY <2>1, Kinds DEF Seeds
  <2> QED
    BY <2>2, Kinds
<1>5. AloneInv
  BY <1>3, <1>4 DEF AloneInv
<1>6. WholeInv
  BY <1>3 DEF WholeInv, Sound, Removing, Finished
<1> QED
  BY <1>1, <1>5, <1>6 DEF DemoInv

\* DemoInv holds throughout.
THEOREM DemoHolds == Spec => []DemoInv
<1>1. DemoInv /\ [Next]_vars => DemoInv'
  <2> SUFFICES ASSUME DemoInv, [Next]_vars PROVE DemoInv'
    OBVIOUS
  <2>1. ASSUME NEW j \in Jobs, Step(j) PROVE DemoInv'
    BY <2>1, ClaimKeeps, MarkKeeps, PipelinesKeep, FilesKeep, TransformationKeeps, KickOffKeeps,
       ReadyKeeps, TeardownKeeps, AbandonedKeeps, FailLoadKeeps, RemoveWorkerKeeps DEF Step
  <2>2. ASSUME NEW j \in Jobs, LoadDemoProject(j) \/ RemoveDemoProject(j) \/ Step(j) \/ Crash(j)
        PROVE  DemoInv'
    BY <2>1, <2>2, LoadKeeps, RemoveKeeps, CrashKeeps
  <2>3. ASSUME NEW a \in Artifacts, UserDeletes(a) PROVE DemoInv'
    BY <2>3, DeletesKeep
  <2> QED
    BY <2>2, <2>3, AgeKeeps, StutterKeeps DEF Next
<1> QED
  BY <1>1, InitInv, PTL DEF Spec

\* A failed load leaves the workspace clean (loadWorker, failLoad,
\* removeWorker): while nothing was lost and requests did not overlap, every
\* artifact a load made is named by the row or by a job still at work.
THEOREM LoadsAccounted == Spec => []Accounted
<1>1. DemoInv => Accounted
  <2> SUFFICES ASSUME DemoInv, Clean, NEW a \in Artifacts, art[a] \in Jobs
               PROVE  Holds(row.seed, a) \/ \E j \in Jobs : Live(j) /\ Holds(job[j].seed, a)
    BY DEF Accounted, Clean
  <2>1. \A s : Names(s, art[a], a) => Holds(s, a)
    BY Kinds, Zenon DEF Names, Holds
  <2>2. CASE \A j \in Jobs : ~Live(j)
    BY <2>1, <2>2 DEF DemoInv, AloneInv
  <2>3. CASE \E j \in Jobs : Live(j)
    BY <2>1, <2>3 DEF DemoInv, AloneInv, Knows
  <2> QED
    BY <2>2, <2>3
<1> QED
  BY <1>1, DemoHolds, PTL

-----------------------------------------------------------------------------
(* The files of a demo, while requests come one at a time *)

Committed == Artifacts \ ByID
Apart(h) == "overlap" \notin h
\* A load at work, and a job whose seed names files that must be there.
Loading(v) == v.pc \in {"build", "ready"} \/ (v.pc = "undo" /\ v.why = "failed")
Keeps(v) == v.pc \in {"build", "ready"} \/ Removing(v)

\* One job is live; while it is a load the row names nothing, so that its
\* rollback takes no file the row answers for.
FilesInv ==
  Apart(hist) =>
    /\ \A i, j \in Jobs : Live(i) /\ Live(j) => i = j
    /\ \A j \in Jobs : Loading(job[j]) => row.seed = NoSeed
    /\ "removed" \notin hist => \A a \in Committed :
         /\ row.seed[a] # 0 => art[a] # 0
         /\ \A j \in Jobs : Keeps(job[j]) /\ job[j].seed[a] # 0 => art[a] # 0

LEMMA FilesStep ==
  ASSUME FilesInv, NEW j \in Jobs, Only(j), hist \subseteq hist',
         Live(j) \/ (Apart(hist') => \A i \in Jobs : ~Live(i)),
         Apart(hist) /\ Apart(hist') /\ Loading(job'[j]) => row'.seed = NoSeed,
         Apart(hist) /\ Apart(hist') /\ "removed" \notin hist' => \A a \in Committed :
           /\ row'.seed[a] # 0 => art'[a] # 0
           /\ Keeps(job'[j]) /\ job'[j].seed[a] # 0 => art'[a] # 0
  PROVE  FilesInv'
<1> SUFFICES ASSUME Apart(hist') PROVE FilesInv'
  BY DEF FilesInv
<1>1. Apart(hist)
  BY DEF Apart
<1>2. \A i \in Jobs : i # j => ~Live(i) /\ job'[i] = job[i]
  BY <1>1 DEF FilesInv, Only
<1>3. \A i \in Jobs : i # j => ~Live(i)' /\ ~Loading(job'[i]) /\ ~Keeps(job'[i])
  BY <1>2 DEF Loading, Keeps, Removing
<1>4. \A i, k \in Jobs : Live(i)' /\ Live(k)' => i = k
  BY <1>3
<1>5. \A i \in Jobs : Loading(job'[i]) => row'.seed = NoSeed
  BY <1>1, <1>3
<1>6. ASSUME "removed" \notin hist', NEW a \in Committed
      PROVE  /\ row'.seed[a] # 0 => art'[a] # 0
             /\ \A i \in Jobs : Keeps(job'[i]) /\ job'[i].seed[a] # 0 => art'[a] # 0
  BY <1>1, <1>3, <1>6
<1> QED
  BY <1>4, <1>5, <1>6 DEF FilesInv, Keeps, Removing, Loading

\* What the seeds of the row and of job j promise, before a step.
LEMMA FilesNow ==
  ASSUME FilesInv, NEW j \in Jobs, Apart(hist), "removed" \notin hist, NEW a \in Committed
  PROVE  /\ row.seed[a] # 0 => art[a] # 0
         /\ Keeps(job[j]) /\ job[j].seed[a] # 0 => art[a] # 0
BY DEF FilesInv

LEMMA NoFiles == \A a \in Committed : a \in Artifacts /\ NoSeed[a] = 0
BY Kinds DEF Committed

\* The seed of the row stays, goes, or becomes one whose files are there.
SeedKept(j) ==
  row'.seed = row.seed \/ row'.seed = NoSeed \/ (row'.seed = job[j].seed /\ Keeps(job[j]))

\* A job that ends, or goes on with a seed that is the row's or its own.
LEMMA FilesPass ==
  ASSUME DemoInv, FilesInv, NEW j \in Jobs, Only(j), hist \subseteq hist', art' = art,
         Live(j) \/ (Apart(hist') => \A i \in Jobs : ~Live(i)),
         SeedKept(j),
         Loading(job'[j]) => row'.seed = NoSeed \/ (Loading(job[j]) /\ row' = row),
         Keeps(job'[j]) =>
           \/ job'[j].seed = row.seed \/ job'[j].seed = NoSeed
           \/ job'[j].seed = job[j].seed /\ Keeps(job[j])
  PROVE  FilesInv'
<1>1. Apart(hist) /\ Loading(job'[j]) => row'.seed = NoSeed
  BY DEF FilesInv
<1>2. ASSUME Apart(hist), "removed" \notin hist', NEW a \in Committed
      PROVE  /\ row'.seed[a] # 0 => art'[a] # 0
             /\ Keeps(job'[j]) /\ job'[j].seed[a] # 0 => art'[a] # 0
  <2>1. "removed" \notin hist
    BY <1>2
  <2>2. /\ row.seed[a] # 0 => art[a] # 0
        /\ Keeps(job[j]) /\ job[j].seed[a] # 0 => art[a] # 0
    BY <1>2, <2>1, FilesNow
  <2>3. NoSeed[a] = 0
    BY NoFiles
  <2> QED
    BY <2>2, <2>3 DEF SeedKept
<1> QED
  BY <1>1, <1>2, FilesStep

LEMMA FilesEnd ==
  ASSUME DemoInv, FilesInv, NEW j \in Jobs, Live(j), hist \subseteq hist', art' = art, SeedKept(j),
         NEW pc \in {"claim", "done"}, Goto(j, pc)
  PROVE  FilesInv'
<1>1. Only(j) /\ job'[j].pc = pc
  BY Went DEF DemoInv, Pcs
<1>2. ~Loading(job'[j]) /\ ~Keeps(job'[j])
  BY <1>1 DEF Loading, Keeps, Removing
<1> QED
  BY <1>1, <1>2, FilesPass

LEMMA FilesFail ==
  ASSUME DemoInv, FilesInv, NEW j \in Jobs, job[j].pc \in {"build", "ready"}, Fails(j), row' = row,
         hist \subseteq hist', \A a \in Committed : art[a] # 0 => art'[a] # 0
  PROVE  FilesInv'
<1>1. Only(j) /\ job'[j].pc = "undo" /\ job'[j].why = "failed"
  BY JobTyped, Undoing, Zenon DEF DemoInv, Fails, Whys
<1>2. ~Keeps(job'[j])
  BY <1>1 DEF Keeps, Removing
<1>3. Apart(hist) => row'.seed = NoSeed
  BY DEF FilesInv, Loading
<1>4. ASSUME Apart(hist), "removed" \notin hist', NEW a \in Committed PROVE row'.seed[a] = 0
  BY <1>3, <1>4, NoFiles
<1> QED
  BY <1>1, <1>2, <1>3, <1>4, FilesStep

LEMMA FilesRequests ==
  ASSUME DemoInv, FilesInv, NEW j \in Jobs, LoadDemoProject(j) \/ RemoveDemoProject(j)
  PROVE  FilesInv'
<1>1. Accept(j) /\ row' = row /\ art' = art
  BY DEF LoadDemoProject, RemoveDemoProject
<1>2. hist' = hist \cup (IF \E i \in Jobs : Live(i) THEN {"overlap"} ELSE {})
  BY <1>1 DEF Accept, Note
<1>3. hist \subseteq hist' /\ (Apart(hist') => \A i \in Jobs : ~Live(i))
  BY <1>2 DEF Apart
<1>4. SeedKept(j) /\ row.seed \in Seeds
  BY <1>1 DEF SeedKept, DemoInv, TypeOK, RowType
<1>5. CASE Goto(j, "claim")
  <2>1. Only(j) /\ job'[j].pc = "claim"
    BY <1>5, Went DEF DemoInv, Pcs
  <2>2. ~Loading(job'[j]) /\ ~Keeps(job'[j])
    BY <2>1 DEF Loading, Keeps, Removing
  <2> QED
    BY <1>1, <1>3, <1>4, <2>1, <2>2, FilesPass
<1>6. CASE Undo(j, row.seed, "abandoned")
  <2>1. Only(j) /\ job'[j].pc = "undo" /\ job'[j].seed = row.seed /\ job'[j].why = "abandoned"
    BY <1>4, <1>6, Undoing, Zenon DEF DemoInv, Whys
  <2>2. ~Loading(job'[j])
    BY <2>1 DEF Loading
  <2> QED
    BY <1>1, <1>3, <1>4, <2>1, <2>2, FilesPass
<1>7. CASE job' = [job EXCEPT ![j].pc = "mark", ![j].seed = row.seed]
  <2> DEFINE v == [job[j] EXCEPT !.pc = "mark", !.seed = row.seed]
  <2>1. job' = [job EXCEPT ![j] = v]
    BY <1>7, JobTyped, Zenon DEF JobType, DemoInv
  <2>2. v.pc = "mark" /\ v.seed = row.seed
    BY JobTyped, Zenon DEF JobType, DemoInv
  <2> HIDE DEF v
  <2>3. Only(j) /\ job'[j].pc = "mark" /\ job'[j].seed = row.seed
    BY <2>1, <2>2, JobTyped DEF Only, DemoInv
  <2>4. ~Loading(job'[j])
    BY <2>3 DEF Loading
  <2> QED
    BY <1>1, <1>3, <1>4, <2>3, <2>4, FilesPass
<1> QED
  BY <1>5, <1>6, <1>7 DEF LoadDemoProject, RemoveDemoProject

LEMMA FilesClaims ==
  ASSUME DemoInv, FilesInv, NEW j \in Jobs, Claim(j) \/ MarkRemoving(j)
  PROVE  FilesInv'
<1>1. job[j].pc \in {"claim", "mark"} /\ art' = art /\ hist' = hist /\ job[j].seed \in Seeds
  BY JobTyped DEF Claim, MarkRemoving, DemoInv
<1>2. CASE Goto(j, "done") /\ UNCHANGED row
  BY <1>1, <1>2, FilesEnd DEF SeedKept
<1>3. CASE /\ SaveDemoSeed("loading", NoSeed)
           /\ job' = [job EXCEPT ![j] = [Idle EXCEPT !.pc = "build", !.k = 1]]
  <2>1. row'.seed = NoSeed
    BY <1>3 DEF SaveDemoSeed
  <2>2. Only(j) /\ job'[j].seed = NoSeed
    BY <1>3, JobTyped DEF Only, Idle, DemoInv
  <2> QED
    BY <1>1, <2>1, <2>2, FilesPass DEF SeedKept
<1>4. CASE job[j].pc = "mark" /\ SaveDemoSeed("removing", job[j].seed) /\ Undo(j, job[j].seed, "removed")
  <2>1. Only(j) /\ job'[j].pc = "undo" /\ job'[j].seed = job[j].seed /\ job'[j].why = "removed"
    BY <1>1, <1>4, Undoing, Zenon DEF DemoInv, Whys
  <2>2. row'.seed = job[j].seed /\ Keeps(job[j]) /\ ~Loading(job'[j])
    BY <1>4, <2>1 DEF SaveDemoSeed, Keeps, Removing, Loading
  <2> QED
    BY <1>1, <2>1, <2>2, FilesPass DEF SeedKept
<1> QED
  BY <1>2, <1>3, <1>4 DEF Claim, MarkRemoving

LEMMA FilesMade ==
  ASSUME DemoInv, FilesInv, NEW j \in Jobs, job[j].pc = "build", NEW a \in Artifacts, Made(j, a),
         row' = row, hist' = hist
  PROVE  FilesInv'
<1>1. /\ Only(j) /\ job'[j].pc = "build"
      /\ art'[a] = j /\ \A b \in Artifacts : b # a => art'[b] = art[b]
      /\ \A b \in Artifacts : b # a => job'[j].seed[b] = job[j].seed[b]
  BY MadeTyped DEF DemoInv
<1>2. Loading(job[j]) /\ Keeps(job[j]) /\ j # 0
  BY Kinds DEF Loading, Keeps
<1>3. Apart(hist) => row'.seed = NoSeed
  BY <1>2 DEF FilesInv
<1>4. ASSUME Apart(hist), "removed" \notin hist', NEW b \in Committed
      PROVE  /\ row'.seed[b] # 0 => art'[b] # 0
             /\ Keeps(job'[j]) /\ job'[j].seed[b] # 0 => art'[b] # 0
  <2>1. b \in Artifacts /\ row'.seed[b] = 0
    BY <1>3, <1>4, NoFiles
  <2>2. job[j].seed[b] # 0 => art[b] # 0
    BY <1>2, <1>4, FilesNow
  <2> QED
    BY <1>1, <1>2, <2>1, <2>2
<1> QED
  BY <1>1, <1>3, <1>4, FilesStep

LEMMA FilesLeft ==
  ASSUME DemoInv, FilesInv, NEW j \in Jobs, job[j].pc = "build", NEW a \in Artifacts, Left(j, a),
         row' = row
  PROVE  FilesInv'
<1>1. art' = [art EXCEPT ![a] = j] /\ Fails(j) /\ hist \subseteq hist'
  BY DEF Left, Note
<1>2. \A b \in Committed : art[b] # 0 => art'[b] # 0
  BY <1>1, Kinds DEF DemoInv, TypeOK, Seeds, Committed
<1> QED
  BY <1>1, <1>2, FilesFail

\* What the worker of a load does before it is through.
LEMMA FilesBuilt ==
  ASSUME DemoInv, FilesInv, NEW j \in Jobs,
         createPipelines(j) \/ commitRepoFiles(j) \/ createTransformation(j)
  PROVE  FilesInv'
<1>1. PICK a \in Artifacts :
        /\ job[j].pc = "build" /\ row' = row
        /\ \/ Made(j, a) /\ UNCHANGED hist
           \/ Fails(j) /\ UNCHANGED <<art, hist>>
           \/ Left(j, a)
  <2>1. CASE createPipelines(j)
    <3>1. Build[job[j].k] \in Artifacts
      BY <2>1, Kinds, Order DEF createPipelines, Building
    <3> QED
      BY <2>1, <3>1, Zenon DEF createPipelines, Building
  <2>2. CASE commitRepoFiles(j)
    <3>1. Build[job[j].k] \in Artifacts
      BY <2>2, Kinds, Order DEF commitRepoFiles, Building
    <3> QED
      BY <2>2, <3>1, Zenon DEF commitRepoFiles, Building
  <2>3. CASE createTransformation(j)
    <3>1. "transformation" \in Artifacts
      BY Kinds DEF ByID
    <3> QED
      BY <2>3, <3>1, Zenon DEF createTransformation, Building
  <2> QED
    BY <2>1, <2>2, <2>3, Zenon
<1>2. CASE Fails(j) /\ UNCHANGED <<art, hist>>
  BY <1>1, <1>2, FilesFail
<1> QED
  BY <1>1, <1>2, FilesMade, FilesLeft, Zenon

LEMMA FilesFinished ==
  ASSUME DemoInv, FilesInv, NEW j \in Jobs, kickOff(j) \/ Ready(j)
  PROVE  FilesInv'
<1>1. job[j].pc \in {"build", "ready"} /\ art' = art /\ hist' = hist
  BY DEF kickOff, Ready
<1>2. CASE Fails(j) /\ row' = row
  BY <1>1, <1>2, FilesFail
<1>3. CASE Goto(j, "ready") /\ row' = row
  <2>1. Only(j) /\ job'[j].pc = "ready" /\ job'[j].seed = job[j].seed
    BY <1>3, Went DEF DemoInv, Pcs
  <2>2. Loading(job[j]) /\ Keeps(job[j])
    BY <1>1 DEF Loading, Keeps
  <2> QED
    BY <1>1, <1>3, <2>1, <2>2, FilesPass DEF SeedKept
<1>4. CASE SaveDemoSeed("ready", job[j].seed) /\ Goto(j, "done")
  BY <1>1, <1>4, FilesEnd DEF SaveDemoSeed, SeedKept, Keeps
<1> QED
  BY <1>2, <1>3, <1>4 DEF kickOff, Ready

\* The rollback of a load takes files by path, and the row names none; every
\* other teardown notes what it removed.
LEMMA FilesTorn ==
  ASSUME DemoInv, FilesInv, NEW j \in Jobs, teardown(j)
  PROVE  FilesInv'
<1> DEFINE a == Teardown[job[j].k]
           Next1(e) == job' = [job EXCEPT ![j].k = @ + 1, ![j].err = Errors(j, e)]
<1>1. job[j].pc = "undo" /\ row' = row
  BY DEF teardown
<1>2. PICK e \in BOOLEAN : Next1(e)
  BY Zenon DEF teardown
<1>3. hist \subseteq hist' /\ (art' = art \/ Took(j) \subseteq hist')
  BY DEF teardown, Note
<1> HIDE DEF Next1
<1>4. Only(j) /\ job'[j].pc = "undo" /\ job'[j].seed = job[j].seed /\ job'[j].why = job[j].why
  BY <1>1, <1>2, TornOne, ZenonT(30) DEF DemoInv, Next1
<1>5. Loading(job'[j]) = Loading(job[j]) /\ Keeps(job'[j]) = Keeps(job[j])
  BY <1>1, <1>4 DEF Loading, Keeps, Removing
<1>6. Apart(hist) /\ Loading(job'[j]) => row'.seed = NoSeed
  BY <1>1, <1>5 DEF FilesInv
<1>7. ASSUME Apart(hist), "removed" \notin hist', NEW b \in Committed
      PROVE  /\ row'.seed[b] # 0 => art'[b] # 0
             /\ Keeps(job'[j]) /\ job'[j].seed[b] # 0 => art'[b] # 0
  <2>1. CASE job[j].why = "failed"
    <3>1. row'.seed = NoSeed /\ ~Keeps(job'[j])
      BY <1>1, <1>4, <1>6, <1>7, <2>1 DEF Loading, Keeps, Removing
    <3> QED
      BY <3>1, NoFiles
  <2>2. CASE job[j].why # "failed"
    <3>1. art' = art /\ "removed" \notin hist
      BY <1>3, <1>7, <2>2 DEF Took
    <3> QED
      BY <1>1, <1>4, <1>5, <1>7, <3>1, FilesNow
  <2> QED
    BY <2>1, <2>2
<1> QED
  BY <1>1, <1>3, <1>4, <1>6, <1>7, FilesStep

LEMMA FilesDone ==
  ASSUME DemoInv, FilesInv, NEW j \in Jobs,
         cleanupAbandoned(j) \/ failLoad(j) \/ removeWorker(j) \/ Crash(j)
  PROVE  FilesInv'
<1>1. Live(j) /\ art' = art /\ hist \subseteq hist'
  BY DEF cleanupAbandoned, failLoad, removeWorker, Undone, Crash, Note
<1>2. SeedKept(j)
  BY DEF cleanupAbandoned, failLoad, removeWorker, Undone, Crash, SeedKept, DeleteDemoSeed, NoRow,
         SaveDemoSeed, Keeps, Removing
<1>3. Goto(j, "claim") \/ Goto(j, "done")
  BY DEF cleanupAbandoned, failLoad, removeWorker, Crash
<1> QED
  BY <1>1, <1>2, <1>3, FilesEnd

LEMMA FilesElse ==
  ASSUME DemoInv, FilesInv, Age \/ UNCHANGED vars \/ \E a \in Artifacts : UserDeletes(a)
  PROVE  FilesInv'
<1>1. CASE Age
  <2>1. row'.seed = row.seed /\ art' = art /\ job' = job /\ hist' = hist
    BY <1>1 DEF Age, DemoInv, TypeOK, RowType
  <2> QED
    BY <2>1 DEF FilesInv, Keeps, Removing, Loading
<1>2. CASE UNCHANGED vars
  BY <1>2 DEF FilesInv, Keeps, Removing, Loading, vars
<1>3. CASE \E a \in Artifacts : UserDeletes(a)
  <2>1. hist' = hist \cup {"removed"} /\ row' = row /\ job' = job
    BY <1>3 DEF UserDeletes, Note
  <2> QED
    BY <2>1 DEF FilesInv, Loading, Apart
<1> QED
  BY <1>1, <1>2, <1>3

\* While requests come one at a time no rollback takes a file that the row, or
\* a worker, answers for (deleteRepoFile).
THEOREM FilesHold == Spec => []FilesInv
<1>1. Init => FilesInv
  <2> SUFFICES ASSUME Init PROVE FilesInv
    OBVIOUS
  <2>1. row.seed = NoSeed /\ \A j \in Jobs : job[j].pc = "idle"
    BY DEF Init, NoRow, Idle
  <2> QED
    BY <2>1, NoFiles DEF FilesInv, Loading, Keeps, Removing
<1>2. FilesInv /\ DemoInv /\ [Next]_vars => FilesInv'
  <2> SUFFICES ASSUME FilesInv, DemoInv, [Next]_vars PROVE FilesInv'
    OBVIOUS
  <2>1. ASSUME NEW j \in Jobs, Step(j) PROVE FilesInv'
    BY <2>1, FilesClaims, FilesBuilt, FilesFinished, FilesTorn, FilesDone, Zenon DEF Step
  <2> QED
    BY <2>1, FilesRequests, FilesDone, FilesElse, Zenon DEF Next
<1> QED
  BY <1>1, <1>2, DemoHolds, PTL DEF Spec

\* A demo shown as loaded is whole until something was removed, however loads,
\* crashes and rollbacks interleaved (loadWorker, failLoad, teardown): the
\* pipelines and the transformation always, and the files that were committed
\* as long as requests came one at a time (deleteRepoFile goes by path).
THEOREM ReadyWhole == Spec => []ReadyIsWhole
<1>1. DemoInv /\ FilesInv => ReadyIsWhole
  <2> SUFFICES ASSUME DemoInv, FilesInv, row.status = "ready", "removed" \notin hist,
                      NEW a \in Artifacts
               PROVE  Holds(row.seed, a) \/ (a \notin ByID /\ "overlap" \in hist)
    BY DEF ReadyIsWhole
  <2>1. PICK i \in Jobs : row.seed = Full(i) /\ Loaded(i, job, art, hist)
    BY DEF DemoInv, WholeInv, Finished
  <2>2. row.seed[a] = i /\ i # 0
    BY <2>1, Kinds DEF Full
  <2>3. CASE a \in ByID
    BY <2>1, <2>2, <2>3 DEF Holds, Loaded
  <2>4. CASE a \notin ByID /\ Apart(hist)
    <3>1. art[a] # 0
      BY <2>2, <2>4 DEF FilesInv, Committed
    <3> QED
      BY <2>2, <2>4, <3>1 DEF Holds
  <2> QED
    BY <2>3, <2>4 DEF Apart
<1> QED
  BY <1>1, DemoHolds, FilesHold, PTL
====
