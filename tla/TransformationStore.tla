------------------------ MODULE TransformationStore ------------------------
(***************************************************************************)
(* The tables of the transformations plane of one workspace: configs, the  *)
(* bookkeeping of their rendered files and their runs, beside the          *)
(* pipelines they may be chained to.  One operator per SQL statement; a    *)
(* statement that finds no row or breaks a constraint is not enabled, and  *)
(* its caller takes the error path.                                        *)
(*                                                                         *)
(* repo_url, repo_ref, schedule and selector travel with a config exactly  *)
(* as the enabled flag does and are represented by it.                     *)
(***************************************************************************)
EXTENDS Naturals

CONSTANTS MaxIDs,     \* bound: transformation ids, 1..MaxIDs; 0 is no usable id
          Names,      \* display names
          SlugOf,     \* nameFileSlug: names may share a slug
          Pipelines,  \* pipeline ids of all workspaces
          Foreign,    \* those of other workspaces
          MaxRuns,    \* bound: run rows ever created
          None        \* no row, file, pipeline

ASSUME StoreAssumption ==
  /\ MaxIDs \in Nat \ {0} /\ MaxRuns \in Nat /\ Names # {}
  /\ Foreign \subseteq Pipelines /\ None \notin Pipelines

VARIABLES pipes,   \* rows of table pipelines
          row,     \* table transformations: id -> row or None
          render,  \* table transformation_definition_renders
          used,    \* ids ever minted or committed
          run      \* table transformation_runs: id -> [of, status]

storeVars == <<pipes, row, render, used, run>>

IDs == 1..MaxIDs
RunIDs == 1..MaxRuns
Slugs == {SlugOf[n] : n \in Names}
\* transformations/<slug>.yaml, or <slug>-<id[:8]>.yaml.
Paths == Slugs \X (0..MaxIDs)
Triggers == Pipelines \cup {None}

Row(n, e, t, k) == [name |-> n, on |-> e, trig |-> t, creds |-> k]
Render(p, f, x) == [path |-> p, sha |-> f, refused |-> x]
\* transformationFile; hdr: it opens with the rendered header.
File(h, i, n, e, t) == [hdr |-> h, id |-> i, name |-> n, on |-> e, trig |-> t]
Run(i, s) == [of |-> i, status |-> s]
NoRun == Run(0, "none")

Live(rs) == {i \in IDs : rs[i] # None}
\* UNIQUE (customer_slug, name), and the foreign key of the trigger.
Fits(i, r) ==
  /\ \A j \in Live(row) \ {i} : row[j].name # r.name
  /\ r.trig \in pipes \cup {None}

\* gen_random_uuid: an id never seen before.
CreateTransformation(i, r) ==
  /\ i \notin used /\ \A j \in IDs \ used : i <= j
  /\ Fits(i, r)
  /\ row' = [row EXCEPT ![i] = r]
  /\ used' = used \cup {i}
  /\ UNCHANGED <<pipes, render, run>>

ImportTransformation(i, r) ==
  /\ row[i] = None /\ Fits(i, r)
  /\ row' = [row EXCEPT ![i] = r]
  /\ UNCHANGED <<pipes, render, used, run>>

\* git_credentials is not among the listed columns.
ListTransformationsByCustomer ==
  [i \in IDs |-> IF row[i] = None THEN None
                 ELSE Row(row[i].name, row[i].on, row[i].trig, FALSE)]

UpdateTransformation(i, r) ==
  /\ row[i] # None /\ Fits(i, r)
  /\ row' = [row EXCEPT ![i] = r]
  /\ UNCHANGED <<pipes, render, used, run>>

\* ON DELETE CASCADE takes bookkeeping and runs.
DeleteRow(i) ==
  /\ row[i] # None
  /\ row' = [row EXCEPT ![i] = None]
  /\ render' = [render EXCEPT ![i] = None]
  /\ run' = [r \in RunIDs |-> IF run[r].of = i THEN NoRun ELSE run[r]]
  /\ UNCHANGED <<pipes, used>>

\* Mutant: ON DELETE NO ACTION, deferred past the end.
DeletePipelineKeepTriggers(p) ==
  /\ p \in pipes
  /\ pipes' = pipes \ {p}
  /\ UNCHANGED <<row, render, used, run>>

\* A pipeline is deleted: ON DELETE SET NULL clears the triggers, and no file.
DeletePipeline(p) ==
  /\ p \in pipes
  /\ pipes' = pipes \ {p}
  /\ row' = [i \in IDs |-> IF row[i] # None /\ row[i].trig = p
                           THEN Row(row[i].name, row[i].on, None, row[i].creds) ELSE row[i]]
  /\ UNCHANGED <<render, used, run>>

\* The upsert needs the transformation and clears refused_blob_sha.
UpsertTransformationDefinitionRender(i, p, f) ==
  /\ row[i] # None
  /\ render' = [render EXCEPT ![i] = Render(p, f, None)]
  /\ UNCHANGED <<pipes, row, used, run>>

\* An update: nothing happens when the transformation is gone.
MarkTransformationDefinitionRefused(i, f) ==
  /\ render' = [render EXCEPT ![i] = IF @ = None THEN None ELSE Render(@.path, @.sha, f)]
  /\ UNCHANGED <<pipes, row, used, run>>

\* COALESCE(id, gen_random_uuid()); primary and foreign key.
CreateTransformationRun(r, i, s) ==
  /\ run[r].status = "none" /\ row[i] # None
  /\ run' = [run EXCEPT ![r] = Run(i, s)]
  /\ UNCHANGED <<pipes, row, render, used>>

\* WHERE id AND transformation_id, whatever the stored status.
UpdateTransformationRun(r, i, s) ==
  /\ run[r].status # "none" /\ run[r].of = i
  /\ run' = [run EXCEPT ![r] = Run(i, s)]
  /\ UNCHANGED <<pipes, row, render, used>>

Pending(i) == {r \in RunIDs : run[r] = Run(i, "pending")}
OldestPending(i) == {r \in Pending(i) : \A q \in Pending(i) : r <= q}

\* A disabled transformation is not served, queued runs or not.
GetEnabledTransformations == {i \in Live(row) : row[i].on}

-----------------------------------------------------------------------------
(* renderTransformationFiles *)

Slug(rs, i) == SlugOf[rs[i].name]
\* Every member of a collision group gets the id suffix.
FilePath(rs, i) ==
  <<Slug(rs, i), IF \E j \in Live(rs) \ {i} : Slug(rs, j) = Slug(rs, i) THEN i ELSE 0>>
RenderTransformationFile(rs, i) == File(TRUE, i, rs[i].name, rs[i].on, rs[i].trig)

-----------------------------------------------------------------------------
Rows == [name : Names, on : BOOLEAN, trig : Triggers, creds : BOOLEAN]
Files == [hdr : BOOLEAN, id : 0..MaxIDs, name : Names, on : BOOLEAN, trig : Triggers]
Statuses == {"none", "pending", "running", "success", "failed"}

=============================================================================
