--------------------------- MODULE PipelineMirror ---------------------------
(***************************************************************************)
(* SyncCustomer: the converge that makes the repository equal to the       *)
(* render of the pipeline rows.  It runs on the request path of a save; s  *)
(* is the request.  Rows, credentials and bookkeeping are read first, then *)
(* the tree, and every write that follows works from those snapshots.      *)
(*                                                                         *)
(* The loops go through the files in path order; the model takes any       *)
(* order.  The box has deposited its age key, and no pipeline is of type   *)
(* file_upload.                                                            *)
(***************************************************************************)
EXTENDS BoxRepo, FiniteSets

CONSTANTS Savers     \* requests that can be in flight together

VARIABLES pc,        \* where a request is
          conv       \* what its converge has read and still has to do

mirrorVars == <<pc, conv>>

NoConv ==
  [rows |-> [i \in IDs |-> None], creds |-> [i \in IDs |-> NoCreds],
   renders |-> [i \in IDs |-> None], defs |-> [i \in IDs |-> None],
   yaml |-> [p \in Paths |-> None], age |-> [p \in Paths |-> None],
   seen |-> [edits |-> 0, adds |-> 0, seals |-> 0],
   todo |-> {}, stale |-> {}, credTodo |-> {}, staleAge |-> {},
   id |-> 0, path |-> None, sha |-> None, tries |-> 0]

Goto(s, l) == pc' = [pc EXCEPT ![s] = l]
Keep(s, c) == conv' = [conv EXCEPT ![s] = c]
\* ErrRepoFileChanged is retried once from a fresh tree; every other error,
\* and a second conflict, fails the save.
Failed(s, res) == IF res = "changed" /\ conv[s].tries = 0 THEN "retry" ELSE "compensate"

PathOf(s, i) == FilePath(conv[s].rows, i)
Desired(s) == {PathOf(s, i) : i \in Live(conv[s].rows)}
\* buildCredentialFiles: an external file is kept and never written.
Rendered(s) == {i \in Live(conv[s].rows) : ~conv[s].rows[i].ext /\ conv[s].creds[i] # NoCreds}
External(s) == {i \in Live(conv[s].rows) : conv[s].rows[i].ext}
DesiredAge(s) == {PathOf(s, i) : i \in Rendered(s) \cup External(s)}

-----------------------------------------------------------------------------
(* Reads *)

ListPipelines(s) ==
  /\ pc[s] = "list"
  /\ Keep(s, [NoConv EXCEPT !.rows = ListPipelinesByCustomer])
  /\ Goto(s, "creds")
  /\ UNCHANGED <<storeVars, repoVars, faults>>

ListCredentials(s) ==
  /\ pc[s] = "creds"
  /\ Keep(s, [conv[s] EXCEPT !.creds = ListPipelineCredentialsByCustomer])
  /\ Goto(s, "renders")
  /\ UNCHANGED <<storeVars, repoVars, faults>>

GetCredentialRenders(s) ==
  /\ pc[s] = "renders"
  /\ Keep(s, [conv[s] EXCEPT !.renders = credRender])
  /\ Goto(s, "defs")
  /\ UNCHANGED <<storeVars, repoVars, faults>>

DefinitionRenderRows(s) ==
  /\ pc[s] = "defs"
  /\ Keep(s, [conv[s] EXCEPT !.defs = defRender])
  /\ Goto(s, "tree")
  /\ UNCHANGED <<storeVars, repoVars, faults>>

\* The work list of a converge: every desired definition, every other
\* definition in the tree, then the same for credential files.
ListTree(s) ==
  /\ pc[s] \in {"tree", "retry"}
  /\ Keep(s, [conv[s] EXCEPT
       !.yaml = yaml, !.age = age, !.seen = commits,
       !.todo = Live(conv[s].rows),
       !.stale = {p \in Paths \ Desired(s) : yaml[p] # None},
       !.credTodo = Rendered(s),
       !.staleAge = {p \in Paths \ DesiredAge(s) : age[p] # None},
       !.tries = IF pc[s] = "retry" THEN @ + 1 ELSE 0])
  /\ Goto(s, "work")
  /\ UNCHANGED <<storeVars, repoVars, faults>>

-----------------------------------------------------------------------------
(* Definition files *)

WriteYaml(s, p, sha, new, next, c) ==
  \E o \in GiteaWrite(yaml, p, sha, new) :
    /\ yaml' = o.files
    /\ Count(o.res = "error")
    /\ IF o.res = "ok" THEN Goto(s, next) /\ Keep(s, c)
       ELSE Goto(s, Failed(s, o.res)) /\ UNCHANGED conv
    /\ UNCHANGED <<storeVars, age, sealed, commits>>

Tracked(s, i) == conv[s].defs[i] # None /\ conv[s].defs[i].path = PathOf(s, i)
\* The tree blob is a commit the mirror did not make.
Drifted(s, i) == Tracked(s, i) /\ conv[s].defs[i].sha # conv[s].yaml[PathOf(s, i)]

\* Mutant: a file whose blob is the recorded one is taken to be in sync.
UpsertFileBySha(s, i) ==
  LET c == conv[s]
      p == PathOf(s, i)
      new == RenderPipelineFile(c.rows, i)
      rest == [c EXCEPT !.todo = @ \ {i}]
  IN
  /\ pc[s] = "work" /\ i \in c.todo
  /\ \/ /\ c.yaml[p] = None
        /\ WriteYaml(s, p, None, new, "record", [rest EXCEPT !.id = i, !.sha = new])
     \/ /\ c.yaml[p] # None
        /\ \/ yaml[p] = None /\ Goto(s, "compensate") /\ UNCHANGED conv
           \/ Tracked(s, i) /\ ~Drifted(s, i) /\ Goto(s, "work") /\ Keep(s, rest)
           \/ /\ yaml[p] # None /\ (~Tracked(s, i) \/ Drifted(s, i))
              /\ Goto(s, "put") /\ Keep(s, [rest EXCEPT !.id = i, !.sha = yaml[p]])
        /\ UNCHANGED <<storeVars, repoVars, faults>>

\* upsertFile, to its first write or read: a missing file is created, a
\* present one is fetched; content already in place only refreshes the
\* bookkeeping, with the sha of the tree.
UpsertFile(s, i) ==
  LET c == conv[s]
      p == PathOf(s, i)
      new == RenderPipelineFile(c.rows, i)
      rest == [c EXCEPT !.todo = @ \ {i}]
  IN
  /\ pc[s] = "work" /\ i \in c.todo
  /\ \/ /\ c.yaml[p] = None
        /\ WriteYaml(s, p, None, new, "record", [rest EXCEPT !.id = i, !.sha = new])
     \/ /\ c.yaml[p] # None
        /\ \/ yaml[p] = None /\ Goto(s, "compensate") /\ UNCHANGED conv
           \/ /\ yaml[p] = new
              /\ IF Tracked(s, i) /\ ~Drifted(s, i)
                 THEN Goto(s, "work") /\ Keep(s, rest)
                 ELSE Goto(s, "record") /\ Keep(s, [rest EXCEPT !.id = i, !.sha = c.yaml[p]])
           \/ /\ yaml[p] \notin {None, new}
              /\ Goto(s, "put") /\ Keep(s, [rest EXCEPT !.id = i, !.sha = yaml[p]])
        /\ UNCHANGED <<storeVars, repoVars, faults>>

\* The overwrite, guarded by the sha just fetched.
PutFile(s) ==
  LET i == conv[s].id
      new == RenderPipelineFile(conv[s].rows, i)
  IN
  /\ pc[s] = "put"
  /\ WriteYaml(s, PathOf(s, i), conv[s].sha, new, "record", [conv[s] EXCEPT !.sha = new])

\* recordDefinitionRender, best-effort; then notifyDefinitionDrift.
RecordDefinitionRender(s) ==
  LET i == conv[s].id IN
  /\ pc[s] = "record"
  /\ \/ UpsertPipelineDefinitionRender(i, PathOf(s, i), conv[s].sha) /\ Count(FALSE)
     \/ row[i] = None /\ UNCHANGED storeVars /\ Count(FALSE)
     \/ MayFail /\ UNCHANGED storeVars /\ Count(TRUE)
  /\ Goto(s, "work")
  /\ UNCHANGED <<repoVars, conv>>

\* Mutant: on absence alone, as deleteStale does.
DeleteStaleAny(s, p) ==
  LET c == conv[s] IN
  /\ pc[s] = "work" /\ c.todo = {} /\ p \in c.stale
  /\ Goto(s, "delete") /\ Keep(s, [c EXCEPT !.path = p])
  /\ UNCHANGED <<storeVars, repoVars, faults>>

\* deleteStaleRendered: the file is fetched, and left alone without a header.
DeleteStaleRendered(s, p) ==
  LET c == conv[s] IN
  /\ pc[s] = "work" /\ c.todo = {} /\ p \in c.stale
  /\ \/ yaml[p] = None /\ Goto(s, "compensate") /\ UNCHANGED conv
     \/ /\ yaml[p] # None /\ ~yaml[p].hdr
        /\ Goto(s, "work") /\ Keep(s, [c EXCEPT !.stale = @ \ {p}])
     \/ /\ yaml[p] # None /\ yaml[p].hdr
        /\ Goto(s, "delete") /\ Keep(s, [c EXCEPT !.path = p])
  /\ UNCHANGED <<storeVars, repoVars, faults>>

\* The delete names the sha of the tree, not of the content just fetched.
DeleteFile(s) ==
  LET p == conv[s].path IN
  /\ pc[s] = "delete"
  /\ WriteYaml(s, p, conv[s].yaml[p], None, "work", [conv[s] EXCEPT !.stale = @ \ {p}])

-----------------------------------------------------------------------------
(* Credential files *)

DefinitionsDone(s) == pc[s] = "work" /\ conv[s].todo = {} /\ conv[s].stale = {}

WriteAge(s, p, sha, new, next, c) ==
  \E o \in GiteaWrite(age, p, sha, new) :
    /\ age' = o.files
    /\ Count(o.res = "error")
    /\ IF o.res = "ok" THEN Goto(s, next) /\ Keep(s, c)
       ELSE Goto(s, Failed(s, o.res)) /\ UNCHANGED conv
    /\ UNCHANGED <<storeVars, yaml, commits>>

\* Mutant: the fingerprint is compared and not the blob.
ForeignByFingerprint(s, i) ==
  /\ conv[s].age[PathOf(s, i)] # None
  /\ conv[s].renders[i] # None
  /\ conv[s].renders[i].fp # conv[s].creds[i]
\* skipTrackedCredentialFile: the recorded blob is not the one in the tree.
Foreign(s, i) ==
  LET blob == conv[s].age[PathOf(s, i)] IN
  /\ blob # None
  /\ conv[s].renders[i] # None
  /\ conv[s].renders[i].sha # blob
Current(s, i) ==
  LET blob == conv[s].age[PathOf(s, i)] IN
  blob # None /\ conv[s].renders[i] = CredRender(conv[s].creds[i], blob)

\* A current file is skipped, a foreign one hands the credentials to the box
\* (best-effort), anything else is encrypted afresh and written.
UpsertCredentialFile(s, i) ==
  LET c == conv[s]
      p == PathOf(s, i)
      new == Blob("console", c.creds[i], sealed + 1)
      rest == [c EXCEPT !.credTodo = @ \ {i}]
  IN
  /\ DefinitionsDone(s) /\ i \in c.credTodo
  /\ \/ /\ Current(s, i)
        /\ Goto(s, "work") /\ Keep(s, rest)
        /\ UNCHANGED <<storeVars, repoVars, faults>>
     \/ /\ Foreign(s, i)
        /\ \/ SetPipelineCredentialsExternal(i, TRUE) /\ Count(FALSE)
           \/ row[i] = None /\ UNCHANGED storeVars /\ Count(FALSE)
           \/ MayFail /\ UNCHANGED storeVars /\ Count(TRUE)
        /\ Goto(s, "work") /\ Keep(s, rest)
        /\ UNCHANGED repoVars
     \/ /\ ~Current(s, i) /\ ~Foreign(s, i)
        /\ WriteAge(s, p, c.age[p], new, "credRecord", [rest EXCEPT !.id = i, !.sha = new])
        /\ sealed' = sealed + 1

RecordCredentialRender(s) ==
  LET i == conv[s].id IN
  /\ pc[s] = "credRecord"
  /\ \/ UpsertPipelineCredentialRender(i, conv[s].creds[i], conv[s].sha) /\ Count(FALSE)
     \/ row[i] = None /\ UNCHANGED storeVars /\ Count(FALSE)
     \/ MayFail /\ UNCHANGED storeVars /\ Count(TRUE)
  /\ Goto(s, "work")
  /\ UNCHANGED <<repoVars, conv>>

\* deleteStale: on absence alone.
DeleteStale(s, p) ==
  /\ DefinitionsDone(s) /\ conv[s].credTodo = {} /\ p \in conv[s].staleAge
  /\ WriteAge(s, p, conv[s].age[p], None, "work", [conv[s] EXCEPT !.staleAge = @ \ {p}])
  /\ UNCHANGED sealed

Converged(s) ==
  /\ DefinitionsDone(s) /\ conv[s].credTodo = {} /\ conv[s].staleAge = {}
  /\ Goto(s, "done")
  /\ UNCHANGED <<storeVars, repoVars, faults, conv>>

\* A read that fails, the 20 s timeout, or the box being unreachable.
SyncError(s) ==
  /\ pc[s] \in {"list", "creds", "renders", "defs", "tree", "retry", "work"}
  /\ MayFail
  /\ Count(TRUE)
  /\ Goto(s, "compensate")
  /\ UNCHANGED <<storeVars, repoVars, conv>>

SyncCustomer(s) ==
  \/ ListPipelines(s) \/ ListCredentials(s) \/ GetCredentialRenders(s)
  \/ DefinitionRenderRows(s) \/ ListTree(s)
  \/ \E i \in IDs : UpsertFile(s, i) \/ UpsertCredentialFile(s, i)
  \/ \E p \in Paths : DeleteStaleRendered(s, p) \/ DeleteStale(s, p)
  \/ PutFile(s) \/ RecordDefinitionRender(s) \/ DeleteFile(s)
  \/ RecordCredentialRender(s) \/ Converged(s)

=============================================================================
