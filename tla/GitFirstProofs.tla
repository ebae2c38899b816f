--------------------------- MODULE GitFirstProofs ---------------------------
(***************************************************************************)
(* What the git-first plane keeps, for any number of pipelines, box        *)
(* commits, sweeps and faults.                                             *)
(*                                                                         *)
(* Credential files encrypted on the box survive, with any number of saves *)
(* at once.  The bookkeeping is what protects them: a render row never     *)
(* names a blob the Console did not encrypt, so a converge that finds a    *)
(* box blob and a render row finds them to differ.                         *)
(*                                                                         *)
(* The second part prepares ConvergeProofs: the invariant of a save that   *)
(* is the only one in flight, and the lemmas its steps rest on.  The       *)
(* invariant follows the lists of work: what is off them is done, as long  *)
(* as nobody committed since the tree was read.                            *)
(***************************************************************************)
EXTENDS GitFirst, TLAPS

ConvFields == DOMAIN NoConv
CommitFields == {"edits", "adds", "seals"}

ByConsole(b) == b.by = "console"

IsConv(c) ==
  /\ c = [f \in ConvFields |-> c[f]]
  /\ \A i \in IDs : c.renders[i] # None => ByConsole(c.renders[i].sha)

\* No render row names a blob that was encrypted on the box.
StoreInv ==
  /\ credRender = [i \in IDs |-> credRender[i]]
  /\ \A i \in IDs : credRender[i] # None => ByConsole(credRender[i].sha)

RepoInv ==
  /\ age = [p \in Paths |-> age[p]]
  /\ commits = [f \in CommitFields |-> commits[f]]
  /\ \A f \in CommitFields : commits[f] \in Nat

\* The same of the rows a converge has read, and of the blob it is about to
\* record.
ConvInv ==
  /\ pc = [s \in Savers |-> pc[s]]
  /\ conv = [s \in Savers |-> conv[s]]
  /\ \A s \in Savers : IsConv(conv[s])
  /\ \A s \in Savers : pc[s] = "credRecord" => ByConsole(conv[s].sha)

SealInv == StoreInv /\ RepoInv /\ ConvInv

\* The fields of what a converge holds.
LEMMA ConvFieldNames ==
  ConvFields = {"rows", "creds", "renders", "defs", "yaml", "age", "seen", "todo", "stale",
                "credTodo", "staleAge", "id", "path", "sha", "tries"}
  BY DEF ConvFields, NoConv

\* A request that starts or ends holds nothing.
LEMMA NoConvIsConv == IsConv(NoConv)
  BY ConvFieldNames DEF IsConv, NoConv

\* GiteaWrite replaces the blob it names or changes nothing.
LEMMA WriteOutcome ==
  ASSUME NEW files, NEW p, NEW sha, NEW new, NEW o \in GiteaWrite(files, p, sha, new)
  PROVE  \/ o.files = files
         \/ o.files = [files EXCEPT ![p] = new] /\ files[p] = sha
  BY DEF GiteaWrite

\* One request moves, to a label and with what it holds now.
LEMMA SaverMoves ==
  ASSUME ConvInv, NEW s \in Savers, NEW l, NEW c, IsConv(c),
         Goto(s, l), Keep(s, c),
         l = "credRecord" => ByConsole(c.sha)
  PROVE  ConvInv'
<1>1. /\ pc' = [r \in Savers |-> pc'[r]] /\ conv' = [r \in Savers |-> conv'[r]]
      /\ pc'[s] = l /\ conv'[s] = c
      /\ \A r \in Savers \ {s} : pc'[r] = pc[r] /\ conv'[r] = conv[r]
  BY Zenon DEF ConvInv, Goto, Keep
<1>2. \A r \in Savers : IsConv(conv'[r])
  BY <1>1 DEF ConvInv
<1>3. \A r \in Savers : pc'[r] = "credRecord" => ByConsole(conv'[r].sha)
  BY <1>1 DEF ConvInv
<1>4. \A r \in Savers : IsConv(conv[r])'
  BY <1>2 DEF IsConv, ByConsole
<1>. QED
  BY <1>1, <1>3, <1>4 DEF ConvInv, ByConsole

\* One request moves and holds what it held.
LEMMA SaverSteps ==
  ASSUME ConvInv, NEW s \in Savers, NEW l, l # "credRecord",
         Goto(s, l), conv' = conv
  PROVE  ConvInv'
<1>1. Keep(s, conv[s]) /\ IsConv(conv[s])
  BY DEF ConvInv, Keep
<1>. QED
  BY <1>1, SaverMoves

\* Statements that drop a render row, or touch none, keep the bookkeeping.
LEMMA StoreKept ==
  ASSUME StoreInv, NEW i,
         credRender' = credRender \/ credRender' = [credRender EXCEPT ![i] = None]
  PROVE  StoreInv'
<1>1. credRender' = [j \in IDs |-> credRender'[j]]
  BY DEF StoreInv
<1>2. \A j \in IDs : credRender'[j] # None => credRender'[j] = credRender[j]
  BY DEF StoreInv
<1>. QED
  BY <1>1, <1>2 DEF StoreInv, ByConsole

\* Steps that leave credential files and commits alone.
LEMMA RepoKept ==
  ASSUME RepoInv, age' = age, commits' = commits
  PROVE  RepoInv'
  BY DEF RepoInv

\* The reads of a converge: the render rows it takes are those of the table.
LEMMA ReadsInv ==
  ASSUME SealInv, NEW s \in Savers,
         \/ ListPipelines(s) \/ ListCredentials(s) \/ GetCredentialRenders(s)
         \/ DefinitionRenderRows(s) \/ ListTree(s)
  PROVE  SealInv'
<1>1. StoreInv' /\ RepoInv'
  BY StoreKept, RepoKept DEF SealInv, ListPipelines, ListCredentials, GetCredentialRenders,
     DefinitionRenderRows, ListTree, storeVars, repoVars
<1>2. IsConv(conv[s])
  BY DEF SealInv, ConvInv
<1>3. CASE ListPipelines(s)
  <2>1. IsConv([NoConv EXCEPT !.rows = ListPipelinesByCustomer])
    BY NoConvIsConv, ConvFieldNames DEF IsConv
  <2>. QED
    BY <1>1, <1>3, <2>1, SaverMoves DEF SealInv, ListPipelines
<1>4. CASE ListCredentials(s)
  <2>1. IsConv([conv[s] EXCEPT !.creds = ListPipelineCredentialsByCustomer])
    BY <1>2, ConvFieldNames DEF IsConv
  <2>. QED
    BY <1>1, <1>4, <2>1, SaverMoves DEF SealInv, ListCredentials
<1>5. CASE GetCredentialRenders(s)
  <2>1. IsConv([conv[s] EXCEPT !.renders = credRender])
    BY <1>2, ConvFieldNames DEF IsConv, SealInv, StoreInv
  <2>. QED
    BY <1>1, <1>5, <2>1, SaverMoves DEF SealInv, GetCredentialRenders
<1>6. CASE DefinitionRenderRows(s)
  <2>1. IsConv([conv[s] EXCEPT !.defs = defRender])
    BY <1>2, ConvFieldNames DEF IsConv
  <2>. QED
    BY <1>1, <1>6, <2>1, SaverMoves DEF SealInv, DefinitionRenderRows
<1>7. CASE ListTree(s)
  <2>1. ASSUME NEW t1, NEW t2, NEW t3, NEW t4, NEW n
        PROVE  IsConv([conv[s] EXCEPT !.yaml = yaml, !.age = age, !.seen = commits, !.todo = t1,
                                      !.stale = t2, !.credTodo = t3, !.staleAge = t4, !.tries = n])
    <3>. DEFINE c == [conv[s] EXCEPT !.yaml = yaml, !.age = age, !.seen = commits, !.todo = t1,
                                     !.stale = t2, !.credTodo = t3, !.staleAge = t4, !.tries = n]
    <3>1. c = [f \in ConvFields |-> c[f]]
      BY <1>2, Zenon DEF IsConv
    <3>2. c.renders = conv[s].renders
      BY <1>2, ConvFieldNames DEF IsConv
    <3>. QED
      BY <1>2, <3>1, <3>2, Zenon DEF IsConv
  <2>2. PICK c : IsConv(c) /\ Keep(s, c)
    BY <1>7, <2>1, Zenon DEF ListTree
  <2>. QED
    BY <1>1, <1>7, <2>2, SaverMoves DEF SealInv, ListTree
<1>. QED
  BY <1>1, <1>3, <1>4, <1>5, <1>6, <1>7 DEF SealInv

\* A call that writes or deletes a definition file touches no credential file.
LEMMA WriteYamlInv ==
  ASSUME SealInv, NEW s \in Savers, NEW p, NEW sha, NEW new, NEW next, NEW c,
         IsConv(c), next # "credRecord", WriteYaml(s, p, sha, new, next, c)
  PROVE  SealInv'
<1>1. StoreInv' /\ RepoInv'
  BY StoreKept, RepoKept DEF SealInv, WriteYaml, storeVars
<1>2. PICK o \in GiteaWrite(yaml, p, sha, new) :
        IF o.res = "ok" THEN Goto(s, next) /\ Keep(s, c)
        ELSE Goto(s, Failed(s, o.res)) /\ UNCHANGED conv
  BY DEF WriteYaml
<1>3. CASE o.res = "ok"
  BY <1>1, <1>2, <1>3, SaverMoves DEF SealInv
<1>4. CASE o.res # "ok"
  <2>1. Failed(s, o.res) # "credRecord"
    BY DEF Failed
  <2>. QED
    BY <1>1, <1>2, <1>4, <2>1, SaverSteps DEF SealInv
<1>. QED
  BY <1>1, <1>3, <1>4 DEF SealInv

\* The work on definition files.
LEMMA DefinitionsInv ==
  ASSUME SealInv, NEW s \in Savers,
         \/ \E i \in IDs : UpsertFile(s, i)
         \/ \E p \in Paths : DeleteStaleRendered(s, p)
         \/ PutFile(s) \/ RecordDefinitionRender(s) \/ DeleteFile(s)
  PROVE  SealInv'
<1>0. IsConv(conv[s]) /\ ConvInv
  BY DEF SealInv, ConvInv
<1>1. CASE \E i \in IDs : UpsertFile(s, i)
  <2>1. PICK i \in IDs : UpsertFile(s, i)
    BY <1>1
  <2>. DEFINE rest == [conv[s] EXCEPT !.todo = @ \ {i}]
              held(b) == [rest EXCEPT !.id = i, !.sha = b]
              p == PathOf(s, i)
              new == RenderPipelineFile(conv[s].rows, i)
  <2>2. IsConv(rest) /\ \A b : IsConv(held(b))
    BY <1>0, ConvFieldNames, Zenon DEF IsConv
  <2>. HIDE DEF rest, held, p, new
  <2>3. CASE WriteYaml(s, p, None, new, "record", held(new))
    BY <2>2, <2>3, WriteYamlInv
  <2>4. CASE /\ UNCHANGED <<storeVars, repoVars, faults>>
             /\ \/ \E l \in {"compensate"} : Goto(s, l) /\ UNCHANGED conv
                \/ \E l \in {"work", "record", "put"}, c \in {rest, held(conv[s].yaml[p]), held(yaml[p])} :
                     Goto(s, l) /\ Keep(s, c)
    <3>1. StoreInv' /\ RepoInv'
      BY <2>4, StoreKept, RepoKept DEF SealInv, storeVars, repoVars
    <3>2. ConvInv'
      BY <1>0, <2>2, <2>4, SaverMoves, SaverSteps
    <3>. QED
      BY <3>1, <3>2 DEF SealInv
  <2>. QED
    BY <2>1, <2>3, <2>4, Zenon DEF UpsertFile, rest, held, p, new
<1>2. CASE \E p \in Paths : DeleteStaleRendered(s, p)
  <2>1. PICK p \in Paths : DeleteStaleRendered(s, p)
    BY <1>2
  <2>. DEFINE c1 == [conv[s] EXCEPT !.stale = @ \ {p}]
              c2 == [conv[s] EXCEPT !.path = p]
  <2>2. IsConv(c1) /\ IsConv(c2)
    BY <1>0, ConvFieldNames DEF IsConv
  <2>. HIDE DEF c1, c2
  <2>3. \/ Goto(s, "compensate") /\ UNCHANGED conv
        \/ Goto(s, "work") /\ Keep(s, c1)
        \/ Goto(s, "delete") /\ Keep(s, c2)
    BY <2>1 DEF DeleteStaleRendered, c1, c2
  <2>4. ConvInv'
    BY <1>0, <2>2, <2>3, SaverMoves, SaverSteps
  <2>5. StoreInv' /\ RepoInv'
    BY <2>1, StoreKept, RepoKept DEF DeleteStaleRendered, SealInv, storeVars, repoVars
  <2>. QED
    BY <2>4, <2>5 DEF SealInv
<1>3. CASE PutFile(s)
  <2>. DEFINE new == RenderPipelineFile(conv[s].rows, conv[s].id)
              c == [conv[s] EXCEPT !.sha = new]
  <2>1. IsConv(c)
    BY <1>0, ConvFieldNames DEF IsConv
  <2>. HIDE DEF c
  <2>2. WriteYaml(s, PathOf(s, conv[s].id), conv[s].sha, new, "record", c)
    BY <1>3 DEF PutFile, c
  <2>. QED
    BY <2>1, <2>2, WriteYamlInv
<1>4. CASE RecordDefinitionRender(s)
  <2>1. credRender' = credRender /\ age' = age /\ commits' = commits /\ conv' = conv
    BY <1>4, Zenon DEF RecordDefinitionRender, UpsertPipelineDefinitionRender, storeVars, repoVars
  <2>2. Goto(s, "work")
    BY <1>4 DEF RecordDefinitionRender
  <2>3. ConvInv'
    BY <1>0, <2>1, <2>2, SaverSteps
  <2>. QED
    BY <2>1, <2>3, StoreKept, RepoKept DEF SealInv
<1>5. CASE DeleteFile(s)
  <2>. DEFINE q == conv[s].path
              c == [conv[s] EXCEPT !.stale = @ \ {q}]
  <2>. HIDE DEF q
  <2>1. IsConv(c)
    BY <1>0, ConvFieldNames DEF IsConv
  <2>. HIDE DEF c
  <2>2. WriteYaml(s, q, conv[s].yaml[q], None, "work", c)
    BY <1>5 DEF DeleteFile, c, q
  <2>. QED
    BY <2>1, <2>2, WriteYamlInv
<1>. QED
  BY <1>1, <1>2, <1>3, <1>4, <1>5

\* A call that writes or deletes a credential file.
LEMMA WriteAgeInv ==
  ASSUME SealInv, NEW s \in Savers, NEW p, NEW sha, NEW new, NEW next, NEW c,
         IsConv(c), next = "credRecord" => ByConsole(c.sha), WriteAge(s, p, sha, new, next, c)
  PROVE  SealInv'
<1>1. StoreInv'
  BY StoreKept DEF SealInv, WriteAge, storeVars
<1>2. PICK o \in GiteaWrite(age, p, sha, new) :
        /\ age' = o.files /\ commits' = commits
        /\ IF o.res = "ok" THEN Goto(s, next) /\ Keep(s, c)
           ELSE Goto(s, Failed(s, o.res)) /\ UNCHANGED conv
  BY DEF WriteAge
<1>3. RepoInv'
  <2>1. age' = age \/ age' = [age EXCEPT ![p] = new]
    <3>1. o.files = age \/ (o.files = [age EXCEPT ![p] = new] /\ age[p] = sha)
      BY WriteOutcome, Zenon
    <3>. QED
      BY <1>2, <3>1
  <2>. QED
    BY <1>2, <2>1 DEF SealInv, RepoInv
<1>4. ConvInv'
  <2>1. CASE o.res = "ok"
    BY <1>2, <2>1, SaverMoves DEF SealInv
  <2>2. CASE o.res # "ok"
    <3>1. Failed(s, o.res) # "credRecord"
      BY DEF Failed
    <3>. QED
      BY <1>2, <2>2, <3>1, SaverSteps DEF SealInv
  <2>. QED
    BY <2>1, <2>2
<1>. QED
  BY <1>1, <1>3, <1>4 DEF SealInv

\* The work on credential files.
LEMMA CredentialsInv ==
  ASSUME SealInv, NEW s \in Savers,
         \/ \E i \in IDs : UpsertCredentialFile(s, i)
         \/ RecordCredentialRender(s)
         \/ \E p \in Paths : DeleteStale(s, p)
         \/ Converged(s)
  PROVE  SealInv'
<1>0. IsConv(conv[s]) /\ ConvInv
  BY DEF SealInv, ConvInv
<1>1. CASE \E i \in IDs : UpsertCredentialFile(s, i)
  <2>1. PICK i \in IDs : UpsertCredentialFile(s, i)
    BY <1>1
  <2>. DEFINE rest == [conv[s] EXCEPT !.credTodo = @ \ {i}]
              new == Blob("console", conv[s].creds[i], sealed + 1)
              c == [rest EXCEPT !.id = i, !.sha = new]
  <2>2. IsConv(rest)
    BY <1>0, ConvFieldNames DEF IsConv
  <2>3. IsConv(c) /\ c.sha = new
    <3>. HIDE DEF rest, new
    <3>. QED
      BY <2>2, ConvFieldNames, Zenon DEF IsConv
  <2>4. ByConsole(c.sha)
    BY <2>3 DEF ByConsole, Blob
  <2>. HIDE DEF rest, c
  <2>5. CASE Goto(s, "work") /\ Keep(s, rest) /\ credRender' = credRender /\ UNCHANGED repoVars
    <3>1. ConvInv'
      BY <1>0, <2>2, <2>5, SaverMoves
    <3>. QED
      BY <2>5, <3>1, StoreKept, RepoKept DEF SealInv, repoVars
  <2>6. CASE WriteAge(s, PathOf(s, i), conv[s].age[PathOf(s, i)], new, "credRecord", c)
    BY <2>3, <2>4, <2>6, WriteAgeInv
  <2>. QED
    BY <2>1, <2>5, <2>6, Zenon DEF UpsertCredentialFile, SetPipelineCredentialsExternal, storeVars, rest, c
<1>2. CASE RecordCredentialRender(s)
  <2>1. Goto(s, "work") /\ conv' = conv /\ age' = age /\ commits' = commits /\ pc[s] = "credRecord"
    BY <1>2 DEF RecordCredentialRender, repoVars
  <2>2. ByConsole(conv[s].sha)
    BY <2>1 DEF SealInv, ConvInv
  <2>3. \/ credRender' = credRender
        \/ credRender' = [credRender EXCEPT ![conv[s].id] =
                            CredRender(conv[s].creds[conv[s].id], conv[s].sha)]
    BY <1>2, Zenon DEF RecordCredentialRender, UpsertPipelineCredentialRender, storeVars
  <2>4. StoreInv'
    BY <2>2, <2>3 DEF SealInv, StoreInv, CredRender, ByConsole
  <2>5. ConvInv'
    BY <1>0, <2>1, SaverSteps
  <2>. QED
    BY <2>1, <2>4, <2>5, RepoKept DEF SealInv
<1>3. CASE \E p \in Paths : DeleteStale(s, p)
  <2>1. PICK p \in Paths : DeleteStale(s, p)
    BY <1>3
  <2>. DEFINE c == [conv[s] EXCEPT !.staleAge = @ \ {p}]
  <2>2. IsConv(c)
    BY <1>0, ConvFieldNames, Zenon DEF IsConv
  <2>. HIDE DEF c
  <2>3. WriteAge(s, p, conv[s].age[p], None, "work", c)
    BY <2>1 DEF DeleteStale, c
  <2>. QED
    BY <2>2, <2>3, WriteAgeInv
<1>4. CASE Converged(s)
  <2>1. Goto(s, "done") /\ conv' = conv /\ age' = age /\ commits' = commits /\ credRender' = credRender
    BY <1>4 DEF Converged, repoVars, storeVars
  <2>2. ConvInv'
    BY <1>0, <2>1, SaverSteps
  <2>. QED
    BY <2>1, <2>2, StoreKept, RepoKept DEF SealInv
<1>. QED
  BY <1>1, <1>2, <1>3, <1>4

\* A request starts.
LEMMA BeginsInv ==
  ASSUME SealInv, NEW s \in Savers, Begins(s)
  PROVE  SealInv'
<1>1. conv' = conv /\ age' = age /\ commits' = commits /\ credRender' = credRender
  BY Zenon DEF Begins, CreatePipeline, CreateRow, UpdatePipeline, DeletePipeline, storeVars, repoVars
<1>2. Goto(s, "list") \/ Goto(s, "write")
  BY Zenon DEF Begins, CreatePipeline, UpdatePipeline, DeletePipeline
<1>3. ConvInv'
  BY <1>1, <1>2, SaverSteps DEF SealInv
<1>. QED
  BY <1>1, <1>3, StoreKept, RepoKept DEF SealInv

\* The row statements around the converge drop render rows and write none.
LEMMA ServiceInv ==
  ASSUME SealInv, NEW s \in Savers,
         \/ WriteRow(s) \/ ReclaimFlag(s) \/ ReclaimRender(s) \/ Compensate(s) \/ SyncError(s)
  PROVE  SealInv'
<1>1. conv' = conv /\ age' = age /\ commits' = commits
  BY ZenonT(30) DEF WriteRow, ReclaimFlag, ReclaimRender, Compensate, SyncError, repoVars
<1>2. \E i : credRender' = credRender \/ credRender' = [credRender EXCEPT ![i] = None]
  <2>1. CASE WriteRow(s)
    BY <2>1 DEF WriteRow, UpdateRow, DeleteRow, storeVars
  <2>2. CASE ReclaimFlag(s) \/ ReclaimRender(s) \/ SyncError(s)
    BY <2>2, Zenon DEF ReclaimFlag, ReclaimRender, SyncError, SetPipelineCredentialsExternal,
       DeletePipelineCredentialRender, storeVars
  <2>3. CASE Compensate(s)
    BY <2>3, ZenonT(30) DEF Compensate, Undo, DeleteRow, UpdateRow, CreateRow, storeVars
  <2>. QED
    BY <2>1, <2>2, <2>3
<1>3. \E l \in {"reclaim", "list", "refused", "unrender", "failed", "stranded", "compensate"} : Goto(s, l)
  BY Zenon DEF WriteRow, ReclaimFlag, ReclaimRender, Compensate, SyncError
<1>4. ConvInv'
  BY <1>1, <1>3, SaverSteps DEF SealInv
<1>5. StoreInv'
  BY <1>2, StoreKept DEF SealInv
<1>. QED
  BY <1>1, <1>4, <1>5, RepoKept DEF SealInv

\* A request ends or is lost with its process.
LEMMA EndInv ==
  ASSUME SealInv, NEW s \in Savers, Return(s) \/ Crash(s)
  PROVE  SealInv'
<1>1. Goto(s, "idle") /\ Keep(s, NoConv) /\ credRender' = credRender /\ age' = age /\ commits' = commits
  BY Zenon DEF Return, Crash, storeVars, repoVars
<1>2. ConvInv'
  BY <1>1, NoConvIsConv, SaverMoves DEF SealInv
<1>. QED
  BY <1>1, <1>2, StoreKept, RepoKept DEF SealInv

\* The sweep writes rows and definition bookkeeping only.
LEMMA SweepKeeps ==
  ASSUME AdoptCustomer \/ SweepError
  PROVE  credRender' = credRender /\ age' = age /\ commits' = commits /\ conv' = conv /\ pc' = pc
<1>1. ASSUME NEW i, NEW p, RecordSwept(i, p)
      PROVE  credRender' = credRender /\ othersUnchanged
  BY <1>1, Zenon DEF RecordSwept, UpsertPipelineDefinitionRender, storeVars
<1>2. CASE RecordImport \/ RecordAdopted
  BY <1>1, <1>2 DEF RecordImport, RecordAdopted, othersUnchanged, repoVars, mirrorVars
<1>3. CASE \/ SweepTree \/ SweepRows \/ SweepRenders \/ LoadFlags \/ SweepEnd
           \/ \E p \in Paths : ImportFile(p)
           \/ \E i \in IDs : AdoptDefinition(i)
  <2>1. Reads
    BY <1>3, Zenon DEF SweepTree, SweepRows, SweepRenders, LoadFlags, SweepEnd, ImportFile, AdoptDefinition
  <2>. QED
    BY <2>1 DEF Reads, othersUnchanged, storeVars, repoVars, mirrorVars
<1>4. CASE \/ ImportPipeline \/ AdoptUpdate \/ RefuseAdoption \/ SweepError
           \/ \E i \in IDs : FlagForeignCredentialFile(i)
  <2>1. othersUnchanged
    BY <1>4, Zenon DEF ImportPipeline, AdoptUpdate, RefuseAdoption, SweepError, FlagForeignCredentialFile
  <2>2. credRender' = credRender
    BY <1>4, Zenon DEF ImportPipeline, AdoptUpdate, RefuseAdoption, SweepError, FlagForeignCredentialFile,
       ImportRow, UpdateRow, MarkPipelineDefinitionRefused, SetPipelineCredentialsExternal, storeVars
  <2>. QED
    BY <2>1, <2>2 DEF othersUnchanged, repoVars, mirrorVars
<1>. QED
  BY <1>2, <1>3, <1>4 DEF AdoptCustomer

\* So it keeps the invariant.
LEMMA SweepInv ==
  ASSUME SealInv, AdoptCustomer \/ SweepError
  PROVE  SealInv'
<1>1. credRender' = credRender /\ age' = age /\ commits' = commits /\ conv' = conv /\ pc' = pc
  BY SweepKeeps
<1>. QED
  BY <1>1 DEF SealInv, StoreInv, RepoInv, ConvInv, IsConv, ByConsole

\* A commit of the box counts as one, and touches no bookkeeping.
LEMMA BoxInv ==
  ASSUME SealInv, NEW p \in Paths, BoxCommit(p), UNCHANGED mirrorVars
  PROVE  SealInv' /\ commits' # commits
<1>1. credRender' = credRender /\ conv' = conv /\ pc' = pc
  BY DEF BoxCommit, mirrorVars
<1>2. PICK k \in CommitFields : commits' = [commits EXCEPT ![k] = commits[k] + 1]
  BY Zenon DEF BoxCommit, BoxEditFile, BoxDeleteFile, BoxAddFile, BoxSealCredentials, BoxTick, CommitFields
<1>3. commits[k] \in Nat /\ commits'[k] = commits[k] + 1
  BY <1>2 DEF SealInv, RepoInv
<1>4. age' = age \/ age' = [age EXCEPT ![p] = Blob("box", NoCreds, sealed + 1)]
  BY Zenon DEF BoxCommit, BoxEditFile, BoxDeleteFile, BoxAddFile, BoxSealCredentials
<1>5. RepoInv'
  <2>1. age' = [q \in Paths |-> age'[q]]
    BY <1>4 DEF SealInv, RepoInv
  <2>2. commits' = [f \in CommitFields |-> commits'[f]] /\ \A f \in CommitFields : commits'[f] \in Nat
    BY <1>2 DEF SealInv, RepoInv
  <2>. QED
    BY <2>1, <2>2 DEF RepoInv
<1>6. StoreInv' /\ ConvInv'
  BY <1>1 DEF SealInv, StoreInv, ConvInv, IsConv, ByConsole
<1>. QED
  BY <1>3, <1>5, <1>6 DEF SealInv

\* The seeded render rows name the seeded blobs, which the Console encrypted.
LEMMA InitInv == Init => SealInv
<1>. SUFFICES ASSUME Init PROVE SealInv
  OBVIOUS
<1>1. StoreInv
  <2>1. credRender = [i \in IDs |-> credRender[i]]
    BY DEF Init
  <2>2. \A i \in IDs : credRender[i] = None \/ \E k, n : credRender[i] = CredRender(k, Blob("console", k, n))
    BY DEF Init
  <2>. QED
    BY <2>1, <2>2 DEF StoreInv, CredRender, Blob, ByConsole
<1>2. RepoInv
  <2>1. age = [p \in Paths |-> age[p]]
    BY DEF Init
  <2>2. commits = [edits |-> 0, adds |-> 0, seals |-> 0]
    BY Zenon DEF Init
  <2>. QED
    BY <2>1, <2>2 DEF RepoInv, CommitFields
<1>3. ConvInv
  BY NoConvIsConv DEF Init, ConvInv
<1>. QED
  BY <1>1, <1>2, <1>3 DEF SealInv

\* Every step keeps the invariant.
LEMMA NextInv == SealInv /\ [Next]_vars => SealInv'
<1>. SUFFICES ASSUME SealInv, [Next]_vars PROVE SealInv'
  OBVIOUS
<1>1. CASE UNCHANGED vars
  <2>1. credRender' = credRender /\ age' = age /\ commits' = commits /\ conv' = conv /\ pc' = pc
    BY <1>1 DEF vars, storeVars, repoVars, mirrorVars
  <2>. QED
    BY <2>1 DEF SealInv, StoreInv, RepoInv, ConvInv, IsConv, ByConsole
<1>2. ASSUME NEW s \in Savers, Begins(s) \/ Save(s) \/ Crash(s) \/ SyncError(s)
      PROVE  SealInv'
  <2>1. ASSUME SyncCustomer(s) PROVE SealInv'
    BY <2>1, ReadsInv, DefinitionsInv, CredentialsInv DEF SyncCustomer
  <2>. QED
    BY <1>2, <2>1, BeginsInv, ServiceInv, EndInv DEF Save
<1>3. CASE AdoptCustomer \/ SweepError
  BY <1>3, SweepInv
<1>4. ASSUME NEW p \in Paths, BoxCommit(p), UNCHANGED mirrorVars
      PROVE  SealInv'
  BY <1>4, BoxInv
<1>. QED
  BY <1>1, <1>2, <1>3, <1>4 DEF Next

\* The only step that puts a blob where another one was, other than a commit of
\* the box, is the write of upsertCredentialFile, under the sha of its tree.
LEMMA OverwriteIsUpsert ==
  ASSUME SealInv, [Next]_vars, NEW p \in Paths, SealOverwritten(p)
  PROVE  \E s \in Savers, i \in IDs :
           /\ i \in conv[s].credTodo /\ ~Foreign(s, i)
           /\ PathOf(s, i) = p /\ conv[s].age[p] = age[p]
<1>0. age'[p] # None /\ age'[p] # age[p] /\ age' # age /\ commits' = commits
  BY DEF SealOverwritten
<1>1. ASSUME NEW s \in Savers, NEW i \in IDs, UpsertCredentialFile(s, i)
      PROVE  /\ i \in conv[s].credTodo /\ ~Foreign(s, i)
             /\ PathOf(s, i) = p /\ conv[s].age[p] = age[p]
  <2>. DEFINE q == PathOf(s, i)
              new == Blob("console", conv[s].creds[i], sealed + 1)
              next == [[conv[s] EXCEPT !.credTodo = @ \ {i}] EXCEPT !.id = i, !.sha = new]
  <2>0. /\ i \in conv[s].credTodo
        /\ \/ age' = age
           \/ ~Foreign(s, i) /\ WriteAge(s, q, conv[s].age[q], new, "credRecord", next)
    BY <1>1, Zenon DEF UpsertCredentialFile, repoVars
  <2>. HIDE DEF next
  <2>1. /\ i \in conv[s].credTodo /\ ~Foreign(s, i)
        /\ \E c : WriteAge(s, q, conv[s].age[q], new, "credRecord", c)
    BY <1>0, <2>0
  <2>. DEFINE sha == conv[s].age[q]
  <2>2. PICK o \in GiteaWrite(age, q, sha, new) : age' = o.files
    BY <2>1, Zenon DEF WriteAge
  <2>. HIDE DEF q, new, sha
  <2>3. \/ o.files = age
        \/ o.files = [age EXCEPT ![q] = new] /\ age[q] = sha
    BY <2>2, WriteOutcome, Zenon
  <2>4. q = p /\ age[q] = sha
    BY <1>0, <2>2, <2>3 DEF SealInv, RepoInv
  <2>. QED
    BY <2>1, <2>4 DEF q, sha
<1>2. ASSUME NEW s \in Savers, NEW q \in Paths, DeleteStale(s, q)
      PROVE  FALSE
  <2>. DEFINE sha == conv[s].age[q]
  <2>1. PICK o \in GiteaWrite(age, q, sha, None) : age' = o.files
    BY <1>2 DEF DeleteStale, WriteAge
  <2>. HIDE DEF sha
  <2>2. o.files = age \/ (o.files = [age EXCEPT ![q] = None] /\ age[q] = sha)
    BY <2>1, WriteOutcome, ZenonT(30)
  <2>. QED
    BY <1>0, <2>1, <2>2 DEF SealInv, RepoInv
<1>3. ASSUME NEW s \in Savers, Begins(s) \/ Save(s) \/ Crash(s) \/ SyncError(s)
      PROVE  \E i \in IDs : UpsertCredentialFile(s, i) \/ \E q \in Paths : DeleteStale(s, q)
  <2>1. ~(Begins(s) \/ Crash(s) \/ SyncError(s) \/ WriteRow(s) \/ ReclaimFlag(s) \/ ReclaimRender(s)
          \/ Compensate(s) \/ Return(s))
    BY <1>0, Zenon DEF Begins, CreatePipeline, UpdatePipeline, DeletePipeline, Crash, SyncError, WriteRow,
       ReclaimFlag, ReclaimRender, Compensate, Return, repoVars
  <2>2. ~(ListPipelines(s) \/ ListCredentials(s) \/ GetCredentialRenders(s) \/ DefinitionRenderRows(s)
          \/ ListTree(s) \/ RecordDefinitionRender(s) \/ RecordCredentialRender(s) \/ Converged(s))
    BY <1>0, Zenon DEF ListPipelines, ListCredentials, GetCredentialRenders, DefinitionRenderRows,
       ListTree, RecordDefinitionRender, RecordCredentialRender, Converged, repoVars
  <2>3. ~(PutFile(s) \/ DeleteFile(s))
    BY <1>0 DEF PutFile, DeleteFile, WriteYaml
  <2>4. ASSUME NEW i \in IDs, UpsertFile(s, i) PROVE FALSE
    <3>1. ASSUME NEW q, NEW b, NEW new, NEW l, NEW c, WriteYaml(s, q, b, new, l, c) PROVE age' = age
      BY <3>1 DEF WriteYaml
    <3>2. age' = age
      BY <2>4, <3>1 DEF UpsertFile, repoVars
    <3>. QED
      BY <1>0, <3>2
  <2>5. ~\E q \in Paths : DeleteStaleRendered(s, q)
    BY <1>0, Zenon DEF DeleteStaleRendered, repoVars
  <2>6. (\E i \in IDs : UpsertCredentialFile(s, i)) \/ (\E q \in Paths : DeleteStale(s, q))
    BY <1>3, <2>1, <2>2, <2>3, <2>4, <2>5 DEF Save, SyncCustomer
  <2>. QED
    BY <1>2, <2>6
<1>4. ~(AdoptCustomer \/ SweepError) /\ ~UNCHANGED vars
  BY <1>0, SweepKeeps DEF vars, repoVars
<1>5. ~\E q \in Paths : BoxCommit(q) /\ UNCHANGED mirrorVars
  BY <1>0, BoxInv
<1>6. \E s \in Savers : Begins(s) \/ Save(s) \/ Crash(s) \/ SyncError(s)
  BY <1>4, <1>5 DEF Next
<1>. QED
  BY <1>1, <1>2, <1>3, <1>6

\* A credential file encrypted on the box is overwritten only by a converge
\* that read no render row for its pipeline (upsertCredentialFile,
\* skipTrackedCredentialFile), whatever saves, sweeps, box commits and faults
\* interleave.
THEOREM SealsKept == Spec => ForeignSealsKept
<1>1. SealInv /\ [Next]_vars => [\A p \in Paths : SealOverwritten(p) => WriterUntracked(p)]_vars
  <2>. SUFFICES ASSUME SealInv, [Next]_vars, NEW p \in Paths, SealOverwritten(p)
                PROVE  WriterUntracked(p)
    OBVIOUS
  <2>1. PICK s \in Savers, i \in IDs :
          /\ i \in conv[s].credTodo /\ ~Foreign(s, i)
          /\ PathOf(s, i) = p /\ conv[s].age[p] = age[p]
    BY OverwriteIsUpsert
  <2>2. conv[s].renders[i] # None => ByConsole(conv[s].renders[i].sha)
    BY DEF SealInv, ConvInv, IsConv
  <2>3. conv[s].renders[i] # None => conv[s].renders[i].sha = age[p]
    BY <2>1 DEF Foreign, SealOverwritten
  <2>4. conv[s].renders[i] = None
    BY <2>2, <2>3 DEF ByConsole, SealOverwritten
  <2>. QED
    BY <2>1, <2>4 DEF WriterUntracked
<1>. QED
  BY <1>1, InitInv, NextInv, PTL DEF Spec, ForeignSealsKept

-----------------------------------------------------------------------------
(* One save at a time *)

\* No two saves overlap.  Overlapping ones may undo each other's writes: the
\* snapshot of one is older than the files of the other.
OneAtATime == \A s, t \in Savers : s = t

SweepFields == DOMAIN NoSweep

IsRow(r) == r.name \in Names /\ r.cfg \in Cfgs /\ r.creds \in Secrets
IsFile(f) == f.name \in Names /\ f.cfg \in Cfgs

\* Rows are well-formed, and a render row has the fingerprint of the blob it
\* names, or the path of a file.
TableOK ==
  /\ row = [i \in IDs |-> row[i]]
  /\ \A i \in IDs : row[i] # None => IsRow(row[i])
  /\ \A i \in IDs : credRender[i] # None => credRender[i].sha.creds = credRender[i].fp
  /\ defRender = [i \in IDs |-> defRender[i]]
  /\ \A i \in IDs : defRender[i] # None => defRender[i].path \in Paths

\* Files are well-formed.
FilesOK ==
  /\ yaml = [p \in Paths |-> yaml[p]]
  /\ \A p \in Paths : yaml[p] # None => IsFile(yaml[p])
  /\ \A p \in Paths : age[p] # None => age[p] \in Blobs
  /\ sealed \in Nat

\* The rows a request would write are well-formed.
ReqOK(q) ==
  /\ q.kind = "update" => IsRow(q.old) /\ IsRow(q.new)
  /\ q.kind = "delete" => IsRow(q.old)
ReqsOK == req = [s \in Savers |-> req[s]] /\ \A s \in Savers : ReqOK(req[s])

\* So are the ones the sweep would.
SweepOK(w) ==
  /\ w = [f \in SweepFields |-> w[f]]
  /\ \A i \in IDs : w.rows[i] # None => w.rows[i].creds = NoCreds
  /\ \/ w.pc \in {"idle", "rows", "renders"}
     \/ w.ids \subseteq Live(w.rows) /\ \A i \in w.ids : w.defs[i].path \in Paths
  /\ w.pc \in {"import", "imported", "adopt", "adopted"} => w.path \in Paths
  /\ w.pc \in {"import", "adopt"} => IsFile(w.file)
  /\ w.pc = "adopt" => w.id \in Live(w.rows)

\* What a converge has read.
Snapshot(rs, cr, rn, ta) ==
  /\ \A i \in Live(rs) : rs[i].name \in Names /\ rs[i].cfg \in Cfgs
  /\ \A i \in IDs : cr[i] \in Secrets
  /\ \A i \in IDs : rn[i] # None => rn[i].sha.creds = rn[i].fp
  /\ \A p \in Paths : ta[p] # None => ta[p] \in Blobs

\* One file is replaced.
Put(files, p, new) == [files EXCEPT ![p] = new]

Targets(rs) == {FilePath(rs, i) : i \in Live(rs)}
Sealing(rs, cr) == {i \in Live(rs) : ~rs[i].ext /\ cr[i] # NoCreds}
SealTargets(rs, cr) ==
  {FilePath(rs, i) : i \in Sealing(rs, cr) \cup {j \in Live(rs) : rs[j].ext}}
LeftToBox(rs, rn, ta, i) ==
  LET blob == ta[FilePath(rs, i)] IN blob # None /\ rn[i] # None /\ rn[i].sha # blob

\* The definitions a converge still has to write or delete; a header appears
\* on no other file while it works.
DefsOK(rs, ty, td, st, y) ==
  /\ td \subseteq Live(rs)
  /\ st \subseteq Paths \ Targets(rs)
  /\ \A p \in st : ty[p] # None
  /\ \A p \in Paths \ Targets(rs) : y[p] # None /\ y[p].hdr /\ ty[p] # None => ty[p].hdr
\* What it has done already; held is being written.
DefsDone(rs, td, st, held, y) ==
  /\ \A i \in Live(rs) \ (td \cup held) : y[FilePath(rs, i)] = RenderPipelineFile(rs, i)
  /\ \A p \in Paths \ (Targets(rs) \cup st) : y[p] # None => ~y[p].hdr
\* The same of the credential files.
SealsOK(rs, cr, ct, sa) ==
  ct \subseteq Sealing(rs, cr) /\ sa \subseteq Paths \ SealTargets(rs, cr)
SealsDone(rs, cr, rn, ta, ct, sa, a) ==
  /\ \A i \in ct : a[FilePath(rs, i)] = ta[FilePath(rs, i)]
  /\ \A i \in Sealing(rs, cr) \ ct :
       \/ LeftToBox(rs, rn, ta, i)
       \/ a[FilePath(rs, i)] # None /\ a[FilePath(rs, i)].creds = cr[i]
  /\ \A p \in Paths \ (SealTargets(rs, cr) \cup sa) : a[p] = None

\* What the next call of a converge relies on.
LabelOK(l, c) ==
  /\ l \in {"put", "record"} => c.id \in Live(c.rows) \ c.todo
  /\ l = "delete" => c.path \in c.stale /\ c.yaml[c.path].hdr
  /\ l = "credRecord" => c.sha.creds = c.creds[c.id]
  /\ l = "done" => c.todo = {} /\ c.stale = {} /\ c.credTodo = {} /\ c.staleAge = {}
SeenOK(n, k) ==
  /\ n = [f \in CommitFields |-> n[f]]
  /\ \A f \in CommitFields : n[f] \in Nat /\ n[f] <= k[f]
Held(l, c) == IF l = "put" THEN {c.id} ELSE {}

Working == {"work", "put", "record", "delete", "credRecord", "done"}
\* What is done counts as long as nobody else has committed.
WorkOK(l, c, y, a, k) ==
  /\ DefsOK(c.rows, c.yaml, c.todo, c.stale, y)
  /\ SealsOK(c.rows, c.creds, c.credTodo, c.staleAge)
  /\ LabelOK(l, c)
  /\ SeenOK(c.seen, k)
  /\ k = c.seen => /\ DefsDone(c.rows, c.todo, c.stale, Held(l, c), y)
                   /\ SealsDone(c.rows, c.creds, c.renders, c.age, c.credTodo, c.staleAge, a)

SaverOK(l, c, y, a, k) ==
  /\ Snapshot(c.rows, c.creds, c.renders, c.age)
  /\ l \in Working => WorkOK(l, c, y, a, k)

ConvergeInv ==
  /\ TableOK /\ FilesOK /\ ReqsOK /\ SweepOK(sweep)
  /\ \A s \in Savers : SaverOK(pc[s], conv[s], yaml, age, commits)

-----------------------------------------------------------------------------

\* Two live pipelines never share a file.
LEMMA PathsApart ==
  ASSUME NEW rs, NEW i \in Live(rs), NEW j \in Live(rs), i # j
  PROVE  FilePath(rs, i) # FilePath(rs, j)
  BY DEF FilePath, Slug

\* A pipeline with a name has a file.
LEMMA PathThere ==
  ASSUME NEW rs, NEW i \in IDs, rs[i].name \in Names
  PROVE  FilePath(rs, i) \in Paths
<1>1. i \in 0..MaxIDs /\ 0 \in 0..MaxIDs
  BY StoreAssumption DEF IDs
<1>2. Slug(rs, i) \in Slugs
  BY DEF Slug, Slugs
<1>. QED
  BY <1>1, <1>2 DEF FilePath, Paths

\* A definition is rendered to its file.
LEMMA DefWritten ==
  ASSUME NEW rs, NEW ty, NEW td, NEW st, NEW y, DefsOK(rs, ty, td, st, y),
         y = [p \in Paths |-> y[p]],
         NEW i \in Live(rs), FilePath(rs, i) \in Paths
  PROVE  LET z == Put(y, FilePath(rs, i), RenderPipelineFile(rs, i)) IN
         /\ DefsOK(rs, ty, td \ {i}, st, z)
         /\ \A h \in SUBSET {i} : DefsDone(rs, td, st, h, y) => DefsDone(rs, td \ {i}, st, {}, z)
<1>. DEFINE z == Put(y, FilePath(rs, i), RenderPipelineFile(rs, i))
<1>0. z = [y EXCEPT ![FilePath(rs, i)] = RenderPipelineFile(rs, i)]
  BY DEF Put
<1>. HIDE DEF z
<1>1. z[FilePath(rs, i)] = RenderPipelineFile(rs, i)
  BY <1>0, Zenon
<1>2. \A p \in Paths \ {FilePath(rs, i)} : z[p] = y[p]
  BY <1>0
<1>3. FilePath(rs, i) \in Targets(rs)
  BY DEF Targets
<1>4. DefsOK(rs, ty, td \ {i}, st, z)
  BY <1>2, <1>3 DEF DefsOK
<1>5. ASSUME NEW h \in SUBSET {i}, DefsDone(rs, td, st, h, y)
      PROVE  DefsDone(rs, td \ {i}, st, {}, z)
  <2>1. ASSUME NEW j \in Live(rs) \ ((td \ {i}) \cup {})
        PROVE  z[FilePath(rs, j)] = RenderPipelineFile(rs, j)
    <3>1. CASE j = i
      BY <1>1, <3>1
    <3>2. CASE j # i
      <4>1. FilePath(rs, j) # FilePath(rs, i) /\ j \in Live(rs) \ (td \cup h)
        BY <3>2, PathsApart
      <4>2. y[FilePath(rs, j)] = RenderPipelineFile(rs, j)
        BY <1>5, <4>1, Zenon DEF DefsDone
      <4>3. z[FilePath(rs, j)] = y[FilePath(rs, j)]
        BY <1>0, <4>1
      <4>. QED
        BY <4>2, <4>3
    <3>. QED
      BY <3>1, <3>2
  <2>2. \A p \in Paths \ (Targets(rs) \cup st) : z[p] # None => ~z[p].hdr
    BY <1>2, <1>3, <1>5 DEF DefsDone
  <2>. QED
    BY <2>1, <2>2, Zenon DEF DefsDone
<1>. QED
  BY <1>4, <1>5 DEF z

\* A stale definition is deleted.
LEMMA DefDeleted ==
  ASSUME NEW rs, NEW ty, NEW td, NEW st, NEW y, DefsOK(rs, ty, td, st, y),
         y = [p \in Paths |-> y[p]],
         \A i \in Live(rs) : FilePath(rs, i) \in Paths,
         NEW q \in st
  PROVE  LET z == Put(y, q, None) IN
         /\ DefsOK(rs, ty, td, st \ {q}, z)
         /\ DefsDone(rs, td, st, {}, y) => DefsDone(rs, td, st \ {q}, {}, z)
<1>. DEFINE z == Put(y, q, None)
<1>1. q \in Paths /\ \A i \in Live(rs) : FilePath(rs, i) # q
  BY DEF DefsOK, Targets
<1>2. z[q] = None /\ \A p \in Paths \ {q} : z[p] = y[p]
  BY <1>1 DEF Put
<1>. HIDE DEF z
<1>3. DefsOK(rs, ty, td, st \ {q}, z)
  BY <1>1, <1>2 DEF DefsOK
<1>4. ASSUME DefsDone(rs, td, st, {}, y)
      PROVE  DefsDone(rs, td, st \ {q}, {}, z)
  <2>1. \A i \in Live(rs) \ (td \cup {}) : z[FilePath(rs, i)] = RenderPipelineFile(rs, i)
    BY <1>1, <1>2, <1>4 DEF DefsDone
  <2>2. \A p \in Paths \ (Targets(rs) \cup (st \ {q})) : z[p] # None => ~z[p].hdr
    BY <1>2, <1>4 DEF DefsDone
  <2>. QED
    BY <2>1, <2>2 DEF DefsDone
<1>. QED
  BY <1>3, <1>4 DEF z

\* A credential file is written for a pipeline that has none the Console
\* knows.
LEMMA SealWritten ==
  ASSUME NEW rs, NEW cr, NEW rn, NEW ta, NEW ct, NEW sa, NEW a, SealsOK(rs, cr, ct, sa),
         a = [p \in Paths |-> a[p]],
         \A j \in Live(rs) : FilePath(rs, j) \in Paths,
         NEW i \in ct, NEW b, b # None, b.creds = cr[i]
  PROVE  LET z == Put(a, FilePath(rs, i), b) IN
         /\ SealsOK(rs, cr, ct \ {i}, sa)
         /\ SealsDone(rs, cr, rn, ta, ct, sa, a) => SealsDone(rs, cr, rn, ta, ct \ {i}, sa, z)
<1>1. i \in Sealing(rs, cr) /\ i \in Live(rs) /\ FilePath(rs, i) \in Paths
  BY DEF SealsOK, Sealing
<1>. DEFINE z == Put(a, FilePath(rs, i), b)
<1>2. z[FilePath(rs, i)] = b /\ \A p \in Paths \ {FilePath(rs, i)} : z[p] = a[p]
  BY <1>1 DEF Put
<1>. HIDE DEF z
<1>3. \A j \in Sealing(rs, cr) \ {i} : z[FilePath(rs, j)] = a[FilePath(rs, j)]
  <2>1. \A j \in Sealing(rs, cr) \ {i} : j \in Live(rs) /\ FilePath(rs, j) # FilePath(rs, i)
    BY <1>1, PathsApart DEF Sealing
  <2>. QED
    BY <1>2, <2>1
<1>4. FilePath(rs, i) \in SealTargets(rs, cr)
  BY <1>1 DEF SealTargets
<1>5. ASSUME SealsDone(rs, cr, rn, ta, ct, sa, a)
      PROVE  SealsDone(rs, cr, rn, ta, ct \ {i}, sa, z)
  <2>1. \A j \in ct \ {i} : z[FilePath(rs, j)] = ta[FilePath(rs, j)]
    BY <1>3, <1>5 DEF SealsDone, SealsOK
  <2>2. ASSUME NEW j \in Sealing(rs, cr) \ (ct \ {i})
        PROVE  \/ LeftToBox(rs, rn, ta, j)
               \/ z[FilePath(rs, j)] # None /\ z[FilePath(rs, j)].creds = cr[j]
    <3>1. CASE j = i
      BY <1>2, <3>1
    <3>2. CASE j # i
      BY <1>3, <1>5, <3>2 DEF SealsDone
    <3>. QED
      BY <3>1, <3>2
  <2>3. \A p \in Paths \ (SealTargets(rs, cr) \cup sa) : z[p] = None
    BY <1>2, <1>4, <1>5 DEF SealsDone
  <2>. QED
    BY <2>1, <2>2, <2>3, Zenon DEF SealsDone
<1>6. SealsOK(rs, cr, ct \ {i}, sa)
  BY DEF SealsOK
<1>. QED
  BY <1>5, <1>6 DEF z

\* A credential file is found current, or foreign.
LEMMA SealSkipped ==
  ASSUME NEW rs, NEW cr, NEW rn, NEW ta, NEW ct, NEW sa, NEW a, SealsOK(rs, cr, ct, sa),
         NEW i \in ct,
         LeftToBox(rs, rn, ta, i) \/ (ta[FilePath(rs, i)] # None /\ ta[FilePath(rs, i)].creds = cr[i])
  PROVE  /\ SealsOK(rs, cr, ct \ {i}, sa)
         /\ SealsDone(rs, cr, rn, ta, ct, sa, a) => SealsDone(rs, cr, rn, ta, ct \ {i}, sa, a)
<1>1. SealsOK(rs, cr, ct \ {i}, sa)
  BY DEF SealsOK
<1>2. ASSUME SealsDone(rs, cr, rn, ta, ct, sa, a)
      PROVE  SealsDone(rs, cr, rn, ta, ct \ {i}, sa, a)
  <2>1. a[FilePath(rs, i)] = ta[FilePath(rs, i)]
    BY <1>2, Zenon DEF SealsDone
  <2>2. ASSUME NEW j \in Sealing(rs, cr) \ (ct \ {i})
        PROVE  \/ LeftToBox(rs, rn, ta, j)
               \/ a[FilePath(rs, j)] # None /\ a[FilePath(rs, j)].creds = cr[j]
    <3>1. CASE j = i
      BY <2>1, <3>1
    <3>2. CASE j # i
      BY <1>2, <3>2 DEF SealsDone
    <3>. QED
      BY <3>1, <3>2
  <2>. QED
    BY <1>2, <2>2, Zenon DEF SealsDone
<1>. QED
  BY <1>1, <1>2

\* A stale credential file is deleted.
LEMMA SealDeleted ==
  ASSUME NEW rs, NEW cr, NEW rn, NEW ta, NEW ct, NEW sa, NEW a, SealsOK(rs, cr, ct, sa),
         a = [p \in Paths |-> a[p]],
         \A j \in Live(rs) : FilePath(rs, j) \in Paths,
         NEW q \in sa
  PROVE  LET z == Put(a, q, None) IN
         /\ SealsOK(rs, cr, ct, sa \ {q})
         /\ SealsDone(rs, cr, rn, ta, ct, sa, a) => SealsDone(rs, cr, rn, ta, ct, sa \ {q}, z)
<1>1. q \in Paths \ SealTargets(rs, cr)
  BY DEF SealsOK
<1>. DEFINE z == Put(a, q, None)
<1>2. z[q] = None /\ \A p \in Paths \ {q} : z[p] = a[p]
  BY <1>1 DEF Put
<1>. HIDE DEF z
<1>3. \A j \in Sealing(rs, cr) : z[FilePath(rs, j)] = a[FilePath(rs, j)]
  <2>1. \A j \in Sealing(rs, cr) : j \in Live(rs) /\ FilePath(rs, j) # q
    BY <1>1 DEF SealTargets, Sealing
  <2>. QED
    BY <1>2, <2>1
<1>4. ASSUME SealsDone(rs, cr, rn, ta, ct, sa, a)
      PROVE  SealsDone(rs, cr, rn, ta, ct, sa \ {q}, z)
  <2>1. \A j \in ct : z[FilePath(rs, j)] = ta[FilePath(rs, j)]
    BY <1>3, <1>4 DEF SealsDone, SealsOK
  <2>2. \A j \in Sealing(rs, cr) \ ct :
          \/ LeftToBox(rs, rn, ta, j)
          \/ z[FilePath(rs, j)] # None /\ z[FilePath(rs, j)].creds = cr[j]
    BY <1>3, <1>4 DEF SealsDone
  <2>3. \A p \in Paths \ (SealTargets(rs, cr) \cup (sa \ {q})) : z[p] = None
    BY <1>2, <1>4 DEF SealsDone
  <2>. QED
    BY <2>1, <2>2, <2>3, Zenon DEF SealsDone
<1>5. SealsOK(rs, cr, ct, sa \ {q})
  BY DEF SealsOK
<1>. QED
  BY <1>4, <1>5 DEF z

\* A converge's files are paths of the repository.
LEMMA SnapshotPaths ==
  ASSUME NEW rs, NEW cr, NEW rn, NEW ta, Snapshot(rs, cr, rn, ta)
  PROVE  \A i \in Live(rs) : FilePath(rs, i) \in Paths
  BY PathThere DEF Snapshot, Live

\* The only request moves.
LEMMA OnlySaver ==
  ASSUME OneAtATime, ConvInv, NEW s \in Savers, NEW l, NEW c, Goto(s, l), Keep(s, c),
         SaverOK(l, c, yaml', age', commits')
  PROVE  \A t \in Savers : SaverOK(pc'[t], conv'[t], yaml', age', commits')
<1>1. pc'[s] = l /\ conv'[s] = c
  BY Zenon DEF ConvInv, Goto, Keep
<1>2. \A t \in Savers : t = s
  BY DEF OneAtATime
<1>. QED
  BY <1>1, <1>2, Zenon

\* Row statements keep the table well-formed.
LEMMA TableStep ==
  ASSUME TableOK, StoreInv,
         NEW i, NEW r, i \in IDs => r = None \/ IsRow(r),
         row' = row \/ row' = [row EXCEPT ![i] = r],
         NEW j, NEW d, j \in IDs => d = None \/ d.sha.creds = d.fp,
         credRender' = credRender \/ credRender' = [credRender EXCEPT ![j] = d],
         NEW n, NEW e, n \in IDs => e = None \/ e.path \in Paths,
         defRender' = defRender \/ defRender' = [defRender EXCEPT ![n] = e]
  PROVE  TableOK'
<1>1. row' = [k \in IDs |-> row'[k]] /\ \A k \in IDs : row'[k] = row[k] \/ (k = i /\ row'[k] = r)
  BY DEF TableOK
<1>2. \A k \in IDs : credRender'[k] = credRender[k] \/ (k = j /\ credRender'[k] = d)
  BY DEF StoreInv
<1>3. \A k \in IDs : row'[k] # None => IsRow(row'[k])
  BY <1>1 DEF TableOK
<1>4. \A k \in IDs : credRender'[k] # None => credRender'[k].sha.creds = credRender'[k].fp
  BY <1>2 DEF TableOK
<1>5. /\ defRender' = [k \in IDs |-> defRender'[k]]
      /\ \A k \in IDs : defRender'[k] = defRender[k] \/ (k = n /\ defRender'[k] = e)
  BY DEF TableOK
<1>6. \A k \in IDs : defRender'[k] # None => defRender'[k].path \in Paths
  BY <1>5 DEF TableOK
<1>. QED
  BY <1>1, <1>3, <1>4, <1>5, <1>6 DEF TableOK, IsRow

\* The save goes on and leaves the repository alone.
LEMMA MovedOK ==
  ASSUME OneAtATime, SealInv, ConvergeInv, NEW s \in Savers, NEW l, NEW c,
         Goto(s, l), Keep(s, c), SaverOK(l, c, yaml, age, commits),
         UNCHANGED <<repoVars, serviceVars, sweep>>, TableOK'
  PROVE  ConvergeInv'
<1>1. yaml' = yaml /\ age' = age /\ sealed' = sealed /\ commits' = commits /\ req' = req /\ sweep' = sweep
  BY DEF repoVars, serviceVars
<1>2. \A t \in Savers : SaverOK(pc'[t], conv'[t], yaml', age', commits')
  BY <1>1, OnlySaver DEF SealInv
<1>3. FilesOK'
  BY <1>1 DEF ConvergeInv, FilesOK, IsFile
<1>4. ReqsOK' /\ SweepOK(sweep)'
  BY <1>1 DEF ConvergeInv, ReqsOK
<1>. QED
  BY <1>2, <1>3, <1>4 DEF ConvergeInv

\* The same, with the record it leaves given by its fields.
LEMMA SteppedOK ==
  ASSUME OneAtATime, SealInv, ConvergeInv, NEW s \in Savers, NEW l,
         Goto(s, l), conv' = conv, SaverOK(l, conv[s], yaml, age, commits),
         UNCHANGED <<repoVars, serviceVars, sweep>>, TableOK'
  PROVE  ConvergeInv'
<1>1. Keep(s, conv[s])
  BY DEF SealInv, ConvInv, Keep
<1>. QED
  BY <1>1, MovedOK

\* A request outside the work on files carries its snapshot.
LEMMA IdlyOK ==
  ASSUME ConvergeInv, NEW s \in Savers, NEW l, l \notin Working, NEW y, NEW a, NEW k
  PROVE  SaverOK(l, conv[s], y, a, k)
  BY DEF ConvergeInv, SaverOK

\* A write to a definition file: applied and acknowledged, or the work ends.
LEMMA WriteYamlOK ==
  ASSUME OneAtATime, SealInv, ConvergeInv, NEW s \in Savers,
         NEW p, NEW sha, NEW new, NEW next, NEW c, WriteYaml(s, p, sha, new, next, c),
         UNCHANGED <<serviceVars, sweep>>, new = None \/ IsFile(new),
         yaml[p] = sha => SaverOK(next, c, Put(yaml, p, new), age, commits)
  PROVE  ConvergeInv'
<1>1. PICK o \in GiteaWrite(yaml, p, sha, new) :
        /\ yaml' = o.files
        /\ IF o.res = "ok" THEN Goto(s, next) /\ Keep(s, c)
           ELSE Goto(s, Failed(s, o.res)) /\ UNCHANGED conv
  BY DEF WriteYaml
<1>2. yaml' = yaml \/ yaml' = [yaml EXCEPT ![p] = new]
  <2>1. o.files = yaml \/ (o.files = [yaml EXCEPT ![p] = new] /\ yaml[p] = sha)
    BY WriteOutcome, Zenon
  <2>. QED
    BY <1>1, <2>1
<1>3. age' = age /\ sealed' = sealed /\ commits' = commits /\ req' = req /\ sweep' = sweep
      /\ row' = row /\ credRender' = credRender /\ defRender' = defRender
  BY DEF WriteYaml, storeVars, serviceVars
<1>4. FilesOK'
  <2>1. yaml' = [q \in Paths |-> yaml'[q]] /\ \A q \in Paths : yaml'[q] \in {yaml[q], new}
    BY <1>2 DEF ConvergeInv, FilesOK
  <2>2. \A q \in Paths : yaml'[q] # None => IsFile(yaml'[q])
    BY <2>1 DEF ConvergeInv, FilesOK
  <2>. QED
    BY <1>3, <2>1, <2>2 DEF ConvergeInv, FilesOK, IsFile
<1>5. \A t \in Savers : SaverOK(pc'[t], conv'[t], yaml', age', commits')
  <2>1. CASE o.res = "ok"
    <3>1. yaml[p] = sha /\ yaml' = Put(yaml, p, new)
      BY <1>1, <2>1 DEF GiteaWrite, Put
    <3>. QED
      BY <1>1, <1>3, <2>1, <3>1, OnlySaver, Zenon DEF SealInv
  <2>2. CASE o.res # "ok"
    <3>1. Failed(s, o.res) \notin Working
      BY Zenon DEF Failed, Working
    <3>2. SaverOK(Failed(s, o.res), conv[s], yaml', age', commits')
      BY <3>1, IdlyOK
    <3>3. Keep(s, conv[s])
      BY <1>1, <2>2 DEF SealInv, ConvInv, Keep
    <3>. QED
      BY <1>1, <2>2, <3>2, <3>3, OnlySaver, ZenonT(30) DEF SealInv
  <2>. QED
    BY <2>1, <2>2
<1>6. TableOK' /\ ReqsOK' /\ SweepOK(sweep)'
  BY <1>3 DEF ConvergeInv, TableOK, ReqsOK, IsRow
<1>. QED
  BY <1>4, <1>5, <1>6 DEF ConvergeInv

\* The same for a credential file.
LEMMA WriteAgeOK ==
  ASSUME OneAtATime, SealInv, ConvergeInv, NEW s \in Savers,
         NEW p, NEW sha, NEW new, NEW next, NEW c, WriteAge(s, p, sha, new, next, c),
         UNCHANGED <<serviceVars, sweep>>, new = None \/ new \in Blobs, sealed' \in Nat,
         age[p] = sha => SaverOK(next, c, yaml, Put(age, p, new), commits)
  PROVE  ConvergeInv'
<1>1. PICK o \in GiteaWrite(age, p, sha, new) :
        /\ age' = o.files
        /\ IF o.res = "ok" THEN Goto(s, next) /\ Keep(s, c)
           ELSE Goto(s, Failed(s, o.res)) /\ UNCHANGED conv
  BY DEF WriteAge
<1>2. age' = age \/ age' = [age EXCEPT ![p] = new]
  <2>1. o.files = age \/ (o.files = [age EXCEPT ![p] = new] /\ age[p] = sha)
    BY WriteOutcome, Zenon
  <2>. QED
    BY <1>1, <2>1
<1>3. yaml' = yaml /\ commits' = commits /\ req' = req /\ sweep' = sweep
      /\ row' = row /\ credRender' = credRender /\ defRender' = defRender
  BY DEF WriteAge, storeVars, serviceVars
<1>4. FilesOK'
  <2>1. \A q \in Paths : age'[q] \in {age[q], new}
    BY <1>2 DEF SealInv, RepoInv
  <2>2. \A q \in Paths : age'[q] # None => age'[q] \in Blobs
    BY <2>1 DEF ConvergeInv, FilesOK
  <2>. QED
    BY <1>3, <2>2 DEF ConvergeInv, FilesOK, IsFile
<1>5. \A t \in Savers : SaverOK(pc'[t], conv'[t], yaml', age', commits')
  <2>1. CASE o.res = "ok"
    <3>1. age[p] = sha /\ age' = Put(age, p, new)
      BY <1>1, <2>1 DEF GiteaWrite, Put
    <3>. QED
      BY <1>1, <1>3, <2>1, <3>1, OnlySaver, Zenon DEF SealInv
  <2>2. CASE o.res # "ok"
    <3>1. Failed(s, o.res) \notin Working
      BY DEF Failed, Working
    <3>2. SaverOK(Failed(s, o.res), conv[s], yaml', age', commits')
      BY <3>1, IdlyOK
    <3>3. Keep(s, conv[s])
      BY <1>1, <2>2 DEF SealInv, ConvInv, Keep
    <3>. QED
      BY <1>1, <2>2, <3>2, <3>3, OnlySaver DEF SealInv
  <2>. QED
    BY <2>1, <2>2, ZenonT(30)
<1>6. TableOK' /\ ReqsOK' /\ SweepOK(sweep)'
  BY <1>3 DEF ConvergeInv, TableOK, ReqsOK, IsRow
<1>. QED
  BY <1>4, <1>5, <1>6, Zenon DEF ConvergeInv

\* The snapshot and the lists of two states of a converge.
SameSnapshot(d, c) ==
  d.rows = c.rows /\ d.creds = c.creds /\ d.renders = c.renders /\ d.age = c.age
SameTree(d, c) == SameSnapshot(d, c) /\ d.yaml = c.yaml /\ d.seen = c.seen
SameSeals(d, c) == d.credTodo = c.credTodo /\ d.staleAge = c.staleAge
SameDefs(d, c) == d.todo = c.todo /\ d.stale = c.stale

\* A step of the work on definition files.
LEMMA DefStep ==
  ASSUME NEW l, NEW c, NEW y, NEW a, NEW k, SaverOK(l, c, y, a, k), l \in Working,
         NEW m, NEW d, NEW z, m \in Working \ {"credRecord", "done"},
         SameTree(d, c), SameSeals(d, c),
         DefsOK(c.rows, c.yaml, d.todo, d.stale, z),
         DefsDone(c.rows, c.todo, c.stale, Held(l, c), y) => DefsDone(c.rows, d.todo, d.stale, Held(m, d), z),
         m \in {"put", "record"} => d.id \in Live(c.rows) \ d.todo,
         m = "delete" => d.path \in d.stale /\ c.yaml[d.path].hdr
  PROVE  SaverOK(m, d, z, a, k)
<1>1. d.rows = c.rows /\ d.creds = c.creds /\ d.renders = c.renders /\ d.age = c.age
      /\ d.yaml = c.yaml /\ d.seen = c.seen /\ d.credTodo = c.credTodo /\ d.staleAge = c.staleAge
  BY ZenonT(30) DEF SameTree, SameSnapshot, SameSeals
<1>2. Snapshot(d.rows, d.creds, d.renders, d.age) /\ WorkOK(l, c, y, a, k)
  BY <1>1, ZenonT(30) DEF SaverOK
<1>3. LabelOK(m, d)
  BY <1>1, ZenonT(30) DEF LabelOK
<1>4. WorkOK(m, d, z, a, k)
  BY <1>1, <1>2, <1>3, ZenonT(30) DEF WorkOK
<1>. QED
  BY <1>2, <1>4, ZenonT(30) DEF SaverOK

\* A step of the work on credential files.
LEMMA SealStep ==
  ASSUME NEW l, NEW c, NEW y, NEW a, NEW k, SaverOK(l, c, y, a, k), l \in Working \ {"put"},
         NEW m, NEW d, NEW b, m \in {"work", "credRecord"},
         SameTree(d, c), SameDefs(d, c),
         SealsOK(c.rows, c.creds, d.credTodo, d.staleAge),
         SealsDone(c.rows, c.creds, c.renders, c.age, c.credTodo, c.staleAge, a) =>
           SealsDone(c.rows, c.creds, c.renders, c.age, d.credTodo, d.staleAge, b),
         m = "credRecord" => d.sha.creds = c.creds[d.id]
  PROVE  SaverOK(m, d, y, b, k)
<1>1. d.rows = c.rows /\ d.creds = c.creds /\ d.renders = c.renders /\ d.age = c.age
      /\ d.yaml = c.yaml /\ d.seen = c.seen /\ d.todo = c.todo /\ d.stale = c.stale
  BY DEF SameTree, SameSnapshot, SameDefs
<1>2. Snapshot(d.rows, d.creds, d.renders, d.age) /\ WorkOK(l, c, y, a, k)
  BY <1>1, ZenonT(30) DEF SaverOK
<1>3. LabelOK(m, d)
  BY <1>1 DEF LabelOK
<1>4. Held(m, d) = Held(l, c)
  BY DEF Held
<1>5. WorkOK(m, d, y, b, k)
  BY <1>1, <1>2, <1>3, <1>4, Zenon DEF WorkOK
<1>. QED
  BY <1>2, <1>5 DEF SaverOK

\* What a converge under way can rely on.
LEMMA SaverFacts ==
  ASSUME SealInv, ConvergeInv, NEW s \in Savers
  PROVE  /\ IsConv(conv[s]) /\ SaverOK(pc[s], conv[s], yaml, age, commits)
         /\ Snapshot(conv[s].rows, conv[s].creds, conv[s].renders, conv[s].age)
         /\ yaml = [p \in Paths |-> yaml[p]] /\ age = [p \in Paths |-> age[p]]
         /\ TableOK /\ StoreInv
<1>1. IsConv(conv[s])
  BY DEF SealInv, ConvInv
<1>2. SaverOK(pc[s], conv[s], yaml, age, commits)
  BY DEF ConvergeInv
<1>. QED
  BY <1>1, <1>2 DEF SealInv, RepoInv, ConvergeInv, FilesOK, SaverOK

\* No row statement.
LEMMA TableSame ==
  ASSUME TableOK, row' = row, credRender' = credRender, defRender' = defRender
  PROVE  TableOK'
  BY DEF TableOK, IsRow

\* upsertFile.
LEMMA UpsertFileOK ==
  ASSUME OneAtATime, SealInv, ConvergeInv, NEW s \in Savers, NEW i \in IDs, UpsertFile(s, i),
         UNCHANGED <<serviceVars, sweep>>
  PROVE  ConvergeInv'
<1>. DEFINE c == conv[s]
            p == PathOf(s, i)
            new == RenderPipelineFile(c.rows, i)
            rest == [c EXCEPT !.todo = @ \ {i}]
            held(b) == [rest EXCEPT !.id = i, !.sha = b]
<1>1. /\ IsConv(c) /\ SaverOK("work", c, yaml, age, commits)
      /\ Snapshot(c.rows, c.creds, c.renders, c.age)
      /\ yaml = [q \in Paths |-> yaml[q]] /\ TableOK /\ "work" \in Working
      /\ p = FilePath(c.rows, i) /\ pc[s] = "work"
  BY SaverFacts DEF UpsertFile, PathOf, Working
<1>2. i \in c.todo /\ i \in Live(c.rows) /\ DefsOK(c.rows, c.yaml, c.todo, c.stale, yaml)
  BY <1>1, Zenon DEF UpsertFile, SaverOK, WorkOK, DefsOK
<1>3. SameTree(rest, c) /\ SameSeals(rest, c) /\ rest.todo = c.todo \ {i} /\ rest.stale = c.stale
  BY <1>1, ConvFieldNames DEF IsConv, SameTree, SameSnapshot, SameSeals
<1>4. \A b : /\ SameTree(held(b), c) /\ SameSeals(held(b), c)
             /\ held(b).todo = c.todo \ {i} /\ held(b).stale = c.stale /\ held(b).id = i
  BY <1>1, ConvFieldNames DEF IsConv, SameTree, SameSnapshot, SameSeals
<1>5. p \in Paths /\ IsFile(new)
  <2>1. c.rows[i].name \in Names /\ c.rows[i].cfg \in Cfgs
    BY <1>1, <1>2, Zenon DEF Snapshot
  <2>2. IsFile(new)
    BY <2>1 DEF IsFile, RenderPipelineFile, File
  <2>3. p \in Paths
    BY <1>1, <1>2, SnapshotPaths, Zenon
  <2>. QED
    BY <2>2, <2>3
<1>. HIDE DEF c, p, new, rest, held
<1>6. Held("work", c) = {} /\ Held("work", rest) = {} /\ \A b : Held("record", held(b)) = {}
  BY DEF Held
<1>7. LET z == Put(yaml, p, new) IN
        /\ DefsOK(c.rows, c.yaml, c.todo \ {i}, c.stale, z)
        /\ DefsDone(c.rows, c.todo, c.stale, {}, yaml) => DefsDone(c.rows, c.todo \ {i}, c.stale, {}, z)
  BY <1>1, <1>2, <1>5, DefWritten DEF new
<1>8. CASE WriteYaml(s, p, None, new, "record", held(new))
  <2>. DEFINE d == held(new)
  <2>0. SameTree(d, c) /\ SameSeals(d, c) /\ d.todo = c.todo \ {i} /\ d.stale = c.stale
        /\ Held("record", d) = {} /\ d.id \in Live(c.rows) \ d.todo
    BY <1>2, <1>4, <1>6, Zenon
  <2>. HIDE DEF d
  <2>1. SaverOK("record", d, Put(yaml, p, new), age, commits)
    BY <1>1, <1>6, <1>7, <2>0, DefStep DEF Working
  <2>. QED
    BY <1>5, <1>8, <2>1, WriteYamlOK DEF d
<1>9. CASE /\ UNCHANGED <<storeVars, repoVars, faults>>
           /\ Goto(s, "compensate") /\ UNCHANGED conv
  <2>1. TableOK'
    BY <1>1, <1>9, TableSame DEF storeVars
  <2>2. SaverOK("compensate", conv[s], yaml, age, commits)
    BY IdlyOK DEF Working
  <2>. QED
    BY <1>9, <2>1, <2>2, SteppedOK
<1>10. CASE /\ UNCHANGED <<storeVars, repoVars, faults>>
            /\ yaml[p] = new
            /\ \/ Goto(s, "work") /\ Keep(s, rest)
               \/ Goto(s, "record") /\ Keep(s, held(c.yaml[p]))
  <2>1. yaml = Put(yaml, p, new)
    BY <1>1, <1>10 DEF Put
  <2>2. TableOK'
    BY <1>1, <1>10, TableSame DEF storeVars
  <2>3. /\ DefsOK(c.rows, c.yaml, c.todo \ {i}, c.stale, yaml)
        /\ DefsDone(c.rows, c.todo, c.stale, {}, yaml) => DefsDone(c.rows, c.todo \ {i}, c.stale, {}, yaml)
    BY <1>7, <2>1, Zenon
  <2>4. SaverOK("work", rest, yaml, age, commits)
    BY <1>1, <1>3, <1>6, <2>3, DefStep DEF Working
  <2>. DEFINE d == held(c.yaml[p])
  <2>5. SameTree(d, c) /\ SameSeals(d, c) /\ d.todo = c.todo \ {i} /\ d.stale = c.stale
        /\ Held("record", d) = {} /\ d.id \in Live(c.rows) \ d.todo
    BY <1>2, <1>4, <1>6, Zenon
  <2>. HIDE DEF d
  <2>6. SaverOK("record", d, yaml, age, commits)
    BY <1>1, <1>6, <2>3, <2>5, DefStep DEF Working
  <2>. QED
    BY <1>10, <2>2, <2>4, <2>6, MovedOK, Zenon DEF d
<1>11. CASE /\ UNCHANGED <<storeVars, repoVars, faults>>
            /\ Goto(s, "put") /\ Keep(s, held(yaml[p]))
  <2>1. TableOK'
    BY <1>1, <1>11, TableSame DEF storeVars
  <2>2. /\ DefsOK(c.rows, c.yaml, c.todo \ {i}, c.stale, yaml)
        /\ DefsDone(c.rows, c.todo, c.stale, {}, yaml) => DefsDone(c.rows, c.todo \ {i}, c.stale, {i}, yaml)
    BY <1>2, ZenonT(30) DEF DefsOK, DefsDone
  <2>. DEFINE d == held(yaml[p])
  <2>3. SameTree(d, c) /\ SameSeals(d, c) /\ d.todo = c.todo \ {i} /\ d.stale = c.stale /\ d.id = i
    BY <1>4
  <2>. HIDE DEF d
  <2>4. Held("put", d) = {i} /\ d.id \in Live(c.rows) \ d.todo
    BY <1>2, <2>3, Zenon DEF Held
  <2>5. SaverOK("put", d, yaml, age, commits)
    BY <1>1, <1>6, <2>2, <2>3, <2>4, DefStep DEF Working
  <2>. QED
    BY <1>11, <2>1, <2>5, MovedOK DEF d
<1>. QED
  BY <1>8, <1>9, <1>10, <1>11, Zenon DEF UpsertFile, c, p, new, rest, held

=============================================================================
