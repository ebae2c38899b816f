---------------------------- MODULE PipelineAdopt ----------------------------
(***************************************************************************)
(* The adopt sweep: files the database does not track become rows (import, *)
(* wired on a box), commits made on the box to tracked files are taken     *)
(* into their rows or refused, and credential files re-encrypted on the    *)
(* box hand ownership to it.  The sweep only reads the repository.         *)
(***************************************************************************)
EXTENDS PipelineService

CONSTANTS Adopting,   \* a sweep comes due within the behaviour
          Importing   \* an Importer is wired

ASSUME SweepAssumption == Adopting \in BOOLEAN /\ Importing \in BOOLEAN

VARIABLES sweep  \* the pass in progress

NoSweep ==
  [pc |-> "idle",
   yaml |-> [p \in Paths |-> None], age |-> [p \in Paths |-> None],
   rows |-> [i \in IDs |-> None], defs |-> [i \in IDs |-> None],
   files |-> {}, ids |-> {}, flags |-> {},
   taken |-> {}, path |-> None, id |-> 0, file |-> None]

othersUnchanged == UNCHANGED <<repoVars, mirrorVars, serviceVars>>
Reads == UNCHANGED <<storeVars, faults>> /\ othersUnchanged
At(l) == sweep.pc = l
To(l, c) == sweep' = [c EXCEPT !.pc = l]
\* An error ends the pass; the next tick starts over.
Abort == sweep' = NoSweep

-----------------------------------------------------------------------------
(* loadAdoptState *)

SweepTree ==
  /\ Adopting
  /\ At("idle")
  /\ To("rows", [sweep EXCEPT !.yaml = yaml, !.age = age])
  /\ Reads

SweepRows ==
  /\ At("rows")
  /\ To("renders", [sweep EXCEPT !.rows = ListPipelinesByCustomer,
                                 !.taken = {<<i, row[i].name>> : i \in Live(row)}])
  /\ Reads

\* Untracked files are to be imported; of the tracked ones, those whose blob
\* is neither the recorded nor the refused one are to be adopted.
SweepRenders ==
  /\ At("renders")
  /\ LET tracked == {i \in IDs : defRender[i] # None}
         blob(i) == sweep.yaml[defRender[i].path]
     IN  To("work", [sweep EXCEPT
           !.defs = defRender,
           !.files = {p \in Paths : /\ Importing
                                    /\ sweep.yaml[p] # None
                                    /\ p \notin {defRender[i].path : i \in tracked}},
           !.ids = {i \in tracked \cap Live(sweep.rows) :
                      blob(i) \notin {None, defRender[i].sha, defRender[i].refused}}])
  /\ Reads

-----------------------------------------------------------------------------
(* importUnrendered *)

Importable(f) == f.id # 0 /\ \A t \in sweep.taken : t[1] # f.id /\ t[2] # f.name

\* Mutant: a file that cannot be imported aborts the pass.
ImportFileOrAbort(p) ==
  /\ At("work") /\ p \in sweep.files
  /\ \/ yaml[p] = None /\ Abort
     \/ yaml[p] # None /\ ~Importable(yaml[p]) /\ Abort
     \/ /\ yaml[p] # None /\ Importable(yaml[p])
        /\ To("import", [sweep EXCEPT !.files = @ \ {p}, !.path = p, !.file = yaml[p]])
  /\ Reads

ImportFile(p) ==
  /\ At("work") /\ p \in sweep.files
  /\ \/ yaml[p] = None /\ Abort
     \/ /\ yaml[p] # None /\ ~Importable(yaml[p])
        /\ To("work", [sweep EXCEPT !.files = @ \ {p}])
     \/ /\ yaml[p] # None /\ Importable(yaml[p])
        /\ To("import", [sweep EXCEPT !.files = @ \ {p}, !.path = p, !.file = yaml[p]])
  /\ Reads

\* Credentials are external when the tree has a .age file beside the file.
ImportPipeline ==
  LET f == sweep.file IN
  /\ At("import")
  /\ \/ /\ ImportRow(f.id, Row(f.name, f.cfg, NoCreds, sweep.age[sweep.path] # None))
        /\ To("imported", [sweep EXCEPT !.taken = @ \cup {<<f.id, f.name>>}])
     \/ ~CanImport(f.id, f.name) /\ UNCHANGED storeVars /\ To("work", sweep)
  /\ UNCHANGED faults /\ othersUnchanged

\* Mutant: the sha is looked up again when it is recorded.
RecordSweptNow(i, p) ==
  /\ \/ yaml[p] # None /\ UpsertPipelineDefinitionRender(i, p, yaml[p]) /\ Count(FALSE)
     \/ (row[i] = None \/ yaml[p] = None) /\ UNCHANGED storeVars /\ Count(FALSE)
     \/ MayFail /\ UNCHANGED storeVars /\ Count(TRUE)
  /\ To("work", [sweep EXCEPT !.path = None, !.id = 0, !.file = None])
  /\ othersUnchanged

\* recordDefinitionRender with the sha of the tree.
RecordSwept(i, p) ==
  /\ \/ UpsertPipelineDefinitionRender(i, p, sweep.yaml[p]) /\ Count(FALSE)
     \/ row[i] = None /\ UNCHANGED storeVars /\ Count(FALSE)
     \/ MayFail /\ UNCHANGED storeVars /\ Count(TRUE)
  /\ To("work", [sweep EXCEPT !.path = None, !.id = 0, !.file = None])
  /\ othersUnchanged

RecordImport == At("imported") /\ RecordSwept(sweep.file.id, sweep.path)

-----------------------------------------------------------------------------
(* adoptDefinition *)

\* The content is fetched now; the sha stays that of the tree.
AdoptDefinition(i) ==
  LET p == sweep.defs[i].path
      rest == [sweep EXCEPT !.ids = @ \ {i}, !.id = i, !.path = p, !.file = yaml[p]]
  IN
  /\ At("work") /\ sweep.files = {} /\ i \in sweep.ids
  /\ \/ yaml[p] = None /\ Abort
     \/ yaml[p] # None /\ yaml[p].id = i /\ To("adopt", rest)
     \/ yaml[p] # None /\ yaml[p].id # i /\ To("refuse", rest)
  /\ Reads

\* parseAdoptablePipeline keeps the credentials of the listed row.
AdoptUpdate ==
  LET i == sweep.id
      r == Row(sweep.file.name, sweep.file.cfg, sweep.rows[i].creds, sweep.rows[i].ext)
  IN
  /\ At("adopt")
  /\ \/ UpdateRow(i, r) /\ To("adopted", sweep)
     \/ ~CanUpdate(i, r.name) /\ UNCHANGED storeVars /\ Abort
  /\ UNCHANGED faults /\ othersUnchanged

RecordAdopted == At("adopted") /\ RecordSwept(sweep.id, sweep.path)

\* Mutant: the refused sha is not recorded.
RefuseUnrecorded ==
  /\ At("refuse")
  /\ To("work", [sweep EXCEPT !.path = None, !.id = 0, !.file = None])
  /\ UNCHANGED <<storeVars, faults>>
  /\ othersUnchanged

RefuseAdoption ==
  /\ At("refuse")
  /\ \/ MarkPipelineDefinitionRefused(sweep.id, sweep.yaml[sweep.path]) /\ Count(FALSE)
     \/ MayFail /\ UNCHANGED storeVars /\ Count(TRUE)
  /\ To("work", [sweep EXCEPT !.path = None, !.id = 0, !.file = None])
  /\ othersUnchanged

-----------------------------------------------------------------------------
(* flagForeignCredentialFiles *)

LoadFlags ==
  /\ At("work") /\ sweep.files = {} /\ sweep.ids = {}
  /\ LET blob(i) == sweep.age[FilePath(sweep.rows, i)]
     IN  To("flag", [sweep EXCEPT !.flags =
           {i \in Live(sweep.rows) : /\ ~sweep.rows[i].ext
                                     /\ credRender[i] # None
                                     /\ blob(i) \notin {None, credRender[i].sha}}])
  /\ Reads

FlagForeignCredentialFile(i) ==
  /\ At("flag") /\ i \in sweep.flags
  /\ \/ SetPipelineCredentialsExternal(i, TRUE) /\ Count(FALSE)
     \/ row[i] = None /\ UNCHANGED storeVars /\ Count(FALSE)
     \/ MayFail /\ UNCHANGED storeVars /\ Count(TRUE)
  /\ To("flag", [sweep EXCEPT !.flags = @ \ {i}])
  /\ othersUnchanged

SweepEnd == At("flag") /\ sweep.flags = {} /\ sweep' = NoSweep /\ Reads

\* A failed read or statement, or a restart of the process.
SweepError ==
  /\ ~At("idle")
  /\ MayFail
  /\ Count(TRUE)
  /\ Abort
  /\ UNCHANGED storeVars /\ othersUnchanged

AdoptCustomer ==
  \/ SweepTree \/ SweepRows \/ SweepRenders
  \/ \E p \in Paths : ImportFile(p)
  \/ ImportPipeline \/ RecordImport
  \/ \E i \in IDs : AdoptDefinition(i) \/ FlagForeignCredentialFile(i)
  \/ AdoptUpdate \/ RecordAdopted \/ RefuseAdoption
  \/ LoadFlags \/ SweepEnd

=============================================================================
