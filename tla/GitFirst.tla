------------------------------ MODULE GitFirst ------------------------------
(***************************************************************************)
(* The git-first plane as a whole: Console saves with their converge, the  *)
(* adopt sweep and the box's own commits over one database and one         *)
(* repository.                                                             *)
(***************************************************************************)
EXTENDS PipelineAdopt

CONSTANTS Seed,    \* pipelines saved before the behaviour begins: id -> row
          FreshDB  \* the repository survived, the database starts empty

ASSUME SeedAssumption ==
  /\ FreshDB \in BOOLEAN
  /\ DOMAIN Seed \subseteq IDs
  /\ \A i \in DOMAIN Seed : Seed[i] \in Rows /\ ~Seed[i].ext

vars == <<storeVars, repoVars, faults, mirrorVars, serviceVars, sweep>>

\* The seeded pipelines are rendered and recorded, as a save without failures
\* leaves them; a new box has the files and none of the rows.
Init ==
  LET rows == [i \in IDs |-> IF i \in DOMAIN Seed THEN Seed[i] ELSE None]
      sealing == {i \in DOMAIN Seed : Seed[i].creds # NoCreds}
      at(p) == {i \in DOMAIN Seed : FilePath(rows, i) = p}
      blob(i) == Blob("console", rows[i].creds, i)
      known == IF FreshDB THEN {} ELSE DOMAIN Seed
  IN
  /\ row = [i \in IDs |-> IF i \in known THEN rows[i] ELSE None]
  /\ defRender = [i \in IDs |-> IF i \notin known THEN None
       ELSE DefRender(FilePath(rows, i), RenderPipelineFile(rows, i), None)]
  /\ credRender = [i \in IDs |-> IF i \notin known \cap sealing THEN None
       ELSE CredRender(rows[i].creds, blob(i))]
  /\ used = DOMAIN Seed
  /\ yaml = [p \in Paths |-> IF at(p) = {} THEN None
       ELSE RenderPipelineFile(rows, CHOOSE i \in at(p) : TRUE)]
  /\ age = [p \in Paths |-> IF at(p) \cap sealing = {} THEN None
       ELSE blob(CHOOSE i \in at(p) : TRUE)]
  /\ sealed = MaxIDs
  /\ commits = [edits |-> 0, adds |-> 0, seals |-> 0]
  /\ faults = 0
  /\ pc = [s \in Savers |-> "idle"]
  /\ conv = [s \in Savers |-> NoConv]
  /\ req = [s \in Savers |-> NoReq]
  /\ ops = 0
  /\ sweep = NoSweep

Begins(s) == CreatePipeline(s) \/ \E i \in IDs : UpdatePipeline(s, i) \/ DeletePipeline(s, i)

Next ==
  \/ \E s \in Savers : (Begins(s) \/ Save(s) \/ Crash(s)) /\ UNCHANGED sweep
  \/ \E s \in Savers : SyncError(s) /\ UNCHANGED <<serviceVars, sweep>>
  \/ AdoptCustomer
  \/ SweepError
  \/ \E p \in Paths : BoxCommit(p) /\ UNCHANGED <<mirrorVars, serviceVars, sweep>>

Spec == Init /\ [][Next]_vars

\* A request runs to its end, and the sweeper's ticker keeps coming.
Fairness == WF_vars(AdoptCustomer) /\ \A s \in Savers : WF_vars(Save(s) /\ UNCHANGED sweep)
FairSpec == Spec /\ Fairness

-----------------------------------------------------------------------------
(* What the code gets right *)

\* Nobody commits on the box between the tree a converge reads and its end.
Undisturbed(s) == pc[s] = "done" /\ commits = conv[s].seen

\* Safety: a save that reports success has made the repository equal to the
\* render of the rows it listed, whatever earlier saves failed half-way, box
\* commits and a conflict retry left there: SyncCustomer's full-state
\* convergence, with one save at a time.  Files without the rendered header
\* survive, and a credential file found foreign is left to the box.
SaveConverges ==
  \A s \in Savers : Undisturbed(s) =>
    /\ \A i \in Live(conv[s].rows) : yaml[PathOf(s, i)] = RenderPipelineFile(conv[s].rows, i)
    /\ \A p \in Paths \ Desired(s) : yaml[p] # None => ~yaml[p].hdr
    /\ \A i \in Rendered(s) :
         \/ Foreign(s, i)
         \/ age[PathOf(s, i)] # None /\ age[PathOf(s, i)].creds = conv[s].creds[i]
    /\ \A p \in Paths \ DesiredAge(s) : age[p] = None

\* A box blob that a step replaces by another, without a commit of the box.
SealOverwritten(p) ==
  /\ age[p] # None /\ age[p].by = "box"
  /\ age'[p] \notin {None, age[p]}
  /\ commits' = commits

\* A converge about to write p has read no render row for its pipeline.
WriterUntracked(p) ==
  \E s \in Savers, i \in IDs :
    i \in conv[s].credTodo /\ PathOf(s, i) = p /\ conv[s].renders[i] = None

\* Safety (action): a credential file encrypted on the box is overwritten only
\* by a converge that read no render row for its pipeline, that is one never
\* rendered before or reclaimed by a credential edit (skipTrackedCredentialFile).
\* Two saves, a stale tree and a lost answer do not get around it.
ForeignSealsKept ==
  [][\A p \in Paths : SealOverwritten(p) => WriterUntracked(p)]_vars

\* Safety (action): a definition file without the rendered header, which is
\* one the mirror never wrote or whose owner removed the marker, is never
\* deleted by the converge of the only save in flight (deleteStaleRendered),
\* although the check and the delete are two calls with box commits between.
HeaderlessKept ==
  [][\A p \in Paths :
       yaml[p] # None /\ ~yaml[p].hdr /\ yaml'[p] = None => commits' # commits]_vars

\* A commit of the box on a tracked file that is neither taken nor refused.
Unsettled(i) ==
  /\ row[i] # None
  /\ defRender[i] # None
  /\ yaml[defRender[i].path] \notin {None, defRender[i].sha, defRender[i].refused}

\* An edit that renames its pipeline to a name another row holds: the UPDATE
\* breaks the unique constraint, the pass ends there with an error, and so does
\* every pass after it (adoptDefinition).
Clashes(i) ==
  LET f == yaml[defRender[i].path] IN
  Unsettled(i) /\ f.id = i /\ NameTaken(f.name, i)

\* Liveness: every out-of-band edit of a rendered file is adopted, refused or
\* overwritten, also when saves run in between, unless an edit
\* that takes a name in use stays in the repository for good.  The comment has
\* no such exception: "anything else -> the file is left alone, the user is
\* notified once (the refused sha is recorded)" (AdoptCustomer).
DriftSettles ==
  <>[](\E i \in IDs : Clashes(i)) \/ \A i \in IDs : Unsettled(i) ~> ~Unsettled(i)

\* Liveness: a definition file with a usable id and name becomes a row of an
\* empty database, and the pipeline keeps that id (importUnrendered).
Hydrates ==
  \A i \in IDs, p \in Paths :
    row[i] = None /\ yaml[p] # None /\ yaml[p].id = i ~>
      row[i] # None \/ yaml[p] = None \/ yaml[p].id # i \/ NameTaken(yaml[p].name, i)

\* The row and the file the worker reads say the same.
Agrees(i) ==
  LET f == yaml[defRender[i].path] IN
  \/ row[i] = None \/ defRender[i] = None
  \/ f \in {None, defRender[i].refused}
  \/ f.name = row[i].name /\ f.cfg = row[i].cfg

\* Liveness: once the box stops committing, rows and files agree for good: the
\* definitions live in "the box's git repositories, which are the source of
\* truth" (migration 000001), and the sweep takes them into the rows.
RowsFollowRepo == <>[](\A i \in IDs : Agrees(i))

-----------------------------------------------------------------------------
(* What a comment says and the code does not do *)

\* pipelineFromFile: "Credentials are never part of the file, so they are
\* never touched."  No step of the sweep changes a row's credentials.
AdoptKeepsCredentials ==
  [][\A i \in IDs : sweep' # sweep /\ row[i] # None /\ row'[i] # None =>
       row'[i].creds = row[i].creds]_vars

=============================================================================
