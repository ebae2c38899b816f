------------------------ MODULE TransformationMirror ------------------------
(***************************************************************************)
(* The git side of the transformations plane: the converge a Console save  *)
(* runs against transformations/*.yaml, and the sweep that imports and     *)
(* adopts commits made on the box.  Every database statement and every     *)
(* call to the box's Gitea is a step of its own.                           *)
(*                                                                         *)
(* A blob sha stands for its content.  One save is in flight at a time;    *)
(* concurrent saves are explored on the pipelines plane, whose converge    *)
(* has the same shape.                                                     *)
(***************************************************************************)
EXTENDS TransformationStore

CONSTANT MaxEvents  \* bound: requests, box commits, deletions and faults together

VARIABLES repo,    \* transformations/*.yaml: path -> file or None
          unread,  \* own pipelines that are committed but not imported yet
          save,    \* the request being served
          sweep,   \* the sweep's pass
          events

mirrorVars == <<repo, unread, save, sweep>>

NoRows == [i \in IDs |-> None]
NoFiles == [p \in Paths |-> None]
Idle ==
  [pc |-> "idle", op |-> "none", id |-> 0, old |-> None, new |-> None, rows |-> NoRows,
   renders |-> NoRows, tree |-> NoFiles, todo |-> {}, stale |-> {}, path |-> None,
   file |-> None, sha |-> None, again |-> FALSE, seen |-> 0]

Tick == events < MaxEvents /\ events' = events + 1
Calm == UNCHANGED events
Goto(l) == save' = [save EXCEPT !.pc = l]

-----------------------------------------------------------------------------
(* SyncCustomer *)

ListRows ==
  /\ save.pc = "list" /\ Calm
  /\ save' = [save EXCEPT !.pc = "renders", !.rows = ListTransformationsByCustomer]
  /\ UNCHANGED <<storeVars, repo, unread, sweep>>

DefinitionRenderRows ==
  /\ save.pc = "renders" /\ Calm
  /\ save' = [save EXCEPT !.pc = "tree", !.renders = render]
  /\ UNCHANGED <<storeVars, repo, unread, sweep>>

Desired(rs) == {FilePath(rs, i) : i \in Live(rs)}
TransformationTreeYAML == {p \in Paths : repo[p] # None}
\* converge: rows and bookkeeping are not read again on the retry.
ListTree ==
  /\ save.pc = "tree" /\ Calm
  /\ save' = [save EXCEPT !.pc = "work", !.tree = repo, !.todo = Live(save.rows),
                          !.seen = events, !.stale = TransformationTreeYAML \ Desired(save.rows)]
  /\ UNCHANGED <<storeVars, repo, unread, sweep>>

\* adoptInSyncRender: the bookkeeping does not say what the tree says.
AdoptInSyncRender(i, p) ==
  LET r == save.renders[i] IN r = None \/ r.sha # save.tree[p] \/ r.path # p

\* Mutant: the comparison trusts the tree, and skips files it holds.
UpsertFileOnce(i) ==
  LET p == FilePath(save.rows, i) IN
  /\ save.pc = "work" /\ i \in save.todo /\ Calm
  /\ save' = IF save.tree[p] = None
             THEN [save EXCEPT !.pc = "put", !.id = i, !.path = p, !.sha = None,
                               !.file = RenderTransformationFile(save.rows, i)]
             ELSE [save EXCEPT !.todo = @ \ {i}]
  /\ UNCHANGED <<storeVars, repo, unread, sweep>>

\* Created when absent from the tree; else fetched, and replaced when it differs.
UpsertFile(i) ==
  LET p == FilePath(save.rows, i)
      f == RenderTransformationFile(save.rows, i)
      next == [save EXCEPT !.path = p, !.file = f] IN
  /\ save.pc = "work" /\ i \in save.todo /\ Calm
  /\ \/ save.tree[p] = None /\ save' = [next EXCEPT !.pc = "put", !.sha = None]
     \/ save.tree[p] # None /\ repo[p] = None /\ Goto("compensate")
     \/ /\ save.tree[p] # None /\ repo[p] = f
        /\ save' = IF AdoptInSyncRender(i, p)
                   THEN [next EXCEPT !.pc = "record", !.sha = save.tree[p]]
                   ELSE [save EXCEPT !.todo = @ \ {i}]
     \/ /\ save.tree[p] # None /\ repo[p] \notin {f, None}
        /\ save' = [next EXCEPT !.pc = "put", !.sha = repo[p]]
  /\ UNCHANGED <<storeVars, repo, unread, sweep>>

\* A commit names the blob it replaces; another blob there is a conflict, and
\* the first conflict starts the converge over with a fresh tree.
Conflict ==
  save' = IF save.again THEN [save EXCEPT !.pc = "compensate"]
          ELSE [save EXCEPT !.pc = "tree", !.again = TRUE]
Commit(p, sha, f, then) ==
  \/ repo[p] = sha /\ Calm /\ repo' = [repo EXCEPT ![p] = f] /\ save' = then
  \/ repo[p] # sha /\ Calm /\ Conflict /\ UNCHANGED repo
  \* The call fails, before or after Gitea applied it.
  \/ /\ Tick /\ Goto("compensate")
     /\ repo' \in {repo} \cup (IF repo[p] = sha THEN {[repo EXCEPT ![p] = f]} ELSE {})

PutContents ==
  /\ save.pc = "put"
  /\ Commit(save.path, save.sha, save.file, [save EXCEPT !.pc = "record", !.sha = save.file])
  /\ UNCHANGED <<storeVars, unread, sweep>>

\* Best effort: a lost write costs one drift signal.
RecordDefinitionRender ==
  LET i == save.file.id IN
  /\ save.pc = "record"
  /\ save' = [save EXCEPT !.pc = "work", !.todo = @ \ {i}]
  /\ \/ UpsertTransformationDefinitionRender(i, save.path, save.sha) /\ Calm
     \/ UNCHANGED storeVars /\ IF row[i] = None THEN Calm ELSE Tick
  /\ UNCHANGED <<repo, unread, sweep>>

\* deleteStaleRendered: fetched; only a rendered header makes it ours to delete.
DeleteStaleRendered(p) ==
  /\ save.pc = "work" /\ save.todo = {} /\ p \in save.stale /\ Calm
  /\ \/ repo[p] = None /\ Goto("compensate")
     \/ repo[p] # None /\ ~repo[p].hdr /\ save' = [save EXCEPT !.stale = @ \ {p}]
     \/ repo[p] # None /\ repo[p].hdr /\ save' = [save EXCEPT !.pc = "delete", !.path = p]
  /\ UNCHANGED <<storeVars, repo, unread, sweep>>

DeleteContents ==
  LET p == save.path IN
  /\ save.pc = "delete"
  /\ Commit(p, save.tree[p], None, [save EXCEPT !.pc = "work", !.stale = @ \ {p}])
  /\ UNCHANGED <<storeVars, unread, sweep>>

Converged ==
  /\ save.pc = "work" /\ save.todo = {} /\ save.stale = {} /\ Calm
  /\ Goto("done")
  /\ UNCHANGED <<storeVars, repo, unread, sweep>>

\* A read fails, or the 20 s of the sync are over.
SyncError ==
  /\ save.pc \in {"list", "renders", "tree", "work"} /\ Tick
  /\ Goto("compensate")
  /\ UNCHANGED <<storeVars, repo, unread, sweep>>

SyncCustomer ==
  \/ ListRows \/ DefinitionRenderRows \/ ListTree
  \/ \E i \in IDs : UpsertFile(i)
  \/ \E p \in Paths : DeleteStaleRendered(p)
  \/ PutContents \/ RecordDefinitionRender \/ DeleteContents \/ Converged \/ SyncError

-----------------------------------------------------------------------------
(* AdoptCustomer *)

NoPass == [pc |-> "idle", tree |-> NoFiles, rows |-> NoRows, renders |-> NoRows,
           files |-> {}, ids |-> {}, new |-> {}, at |-> None, id |-> 0, row |-> None]
Pass(r) == sweep' = r

\* AdoptSweeper.sweep: the pipelines plane goes first, and its failure does
\* not keep the transformations from their turn.
SweepPipelines ==
  /\ sweep.pc = "idle"
  /\ Pass([sweep EXCEPT !.pc = "tree"])
  /\ \/ pipes' = pipes \cup unread /\ unread' = {} /\ Calm
     \/ UNCHANGED <<pipes, unread>> /\ Tick
  /\ UNCHANGED <<row, render, used, run, repo, save>>

LoadAdoptState ==
  /\ Calm
  /\ \/ sweep.pc = "tree" /\ Pass([sweep EXCEPT !.pc = "rows", !.tree = repo])
     \/ /\ sweep.pc = "rows"
        /\ Pass([sweep EXCEPT !.pc = "renders", !.rows = ListTransformationsByCustomer])
     \/ /\ sweep.pc = "renders"
        /\ Pass([sweep EXCEPT !.pc = "import", !.renders = render, !.ids = Live(sweep.rows),
                 !.files = {p \in Paths : sweep.tree[p] # None /\ \A i \in IDs :
                                            render[i] = None \/ render[i].path # p}])
  /\ UNCHANGED <<storeVars, repo, unread, save>>

\* GetPipeline finds it, in this workspace.
TriggerOK(t) == t = None \/ t \in pipes \ Foreign

TakenIDs == Live(sweep.rows) \cup {r.id : r \in sweep.new}
TakenNames == {sweep.rows[i].name : i \in Live(sweep.rows)} \cup {r.name : r \in sweep.new}
\* Mutant: only files this plane rendered are taken.
ImportableRendered(f) ==
  f.hdr /\ f.id # 0 /\ f.id \notin TakenIDs /\ f.name \notin TakenNames /\ TriggerOK(f.trig)
\* parseImportableTransformation, importableTrigger.
Importable(f) ==
  f.id # 0 /\ f.id \notin TakenIDs /\ f.name \notin TakenNames /\ TriggerOK(f.trig)

\* importUnrendered: a file it cannot take is left in place.
ImportRead(p) ==
  /\ sweep.pc = "import" /\ p \in sweep.files /\ Calm
  /\ \/ repo[p] = None /\ Pass(NoPass)
     \/ /\ repo[p] # None /\ ~Importable(repo[p])
        /\ Pass([sweep EXCEPT !.files = @ \ {p}])
     \/ /\ repo[p] # None /\ Importable(repo[p])
        /\ Pass([sweep EXCEPT !.pc = "insert", !.at = p, !.id = repo[p].id,
                              !.row = Row(repo[p].name, repo[p].on, repo[p].trig, FALSE)])
  /\ UNCHANGED <<storeVars, repo, unread, save>>

\* A unique violation is skipped, a trigger deleted since aborts the pass.
ImportFile ==
  LET i == sweep.id IN
  /\ sweep.pc = "insert" /\ Calm
  /\ \/ /\ ImportTransformation(i, sweep.row)
        /\ Pass([sweep EXCEPT !.pc = "importStamp",
                 !.new = @ \cup {[id |-> i, name |-> sweep.row.name]}])
     \/ /\ ~Fits(i, sweep.row) \/ row[i] # None
        /\ UNCHANGED storeVars
        /\ IF row[i] # None \/ \E j \in Live(row) : row[j].name = sweep.row.name
           THEN Pass([sweep EXCEPT !.pc = "import", !.files = @ \ {sweep.at}])
           ELSE Pass(NoPass)
  /\ UNCHANGED <<repo, unread, save>>

\* recordDefinitionRender with the sha of the tree the pass read.
Stamp(from, then) ==
  /\ sweep.pc = from
  /\ Pass(then)
  /\ \/ UpsertTransformationDefinitionRender(sweep.id, sweep.at, sweep.tree[sweep.at]) /\ Calm
     \/ UNCHANGED storeVars /\ IF row[sweep.id] = None THEN Calm ELSE Tick
  /\ UNCHANGED <<repo, unread, save>>
ImportStamp == Stamp("importStamp", [sweep EXCEPT !.pc = "import", !.files = @ \ {sweep.at}])

\* A tracked file whose blob is neither the recorded nor the refused one.
ForeignCommit(i) ==
  LET r == sweep.renders[i] IN
  r # None /\ sweep.tree[r.path] \notin {None, r.sha, r.refused}
\* parseAdoptableTransformation.
Adoptable(i, f) == f.id = i /\ TriggerOK(f.trig)

\* adoptDefinition: the content is fetched now, the sha is the tree's.
\* GitCredentials come from the listed row, which does not carry them.
AdoptRead(i) ==
  LET p == sweep.renders[i].path IN
  /\ sweep.pc = "import" /\ sweep.files = {} /\ i \in sweep.ids /\ Calm
  /\ \/ ~ForeignCommit(i) /\ Pass([sweep EXCEPT !.ids = @ \ {i}])
     \/ ForeignCommit(i) /\ repo[p] = None /\ Pass(NoPass)
     \/ /\ ForeignCommit(i) /\ repo[p] # None
        /\ Pass(IF Adoptable(i, repo[p])
                THEN [sweep EXCEPT !.pc = "update", !.at = p, !.id = i,
                                   !.row = Row(repo[p].name, repo[p].on, repo[p].trig, FALSE)]
                ELSE [sweep EXCEPT !.pc = "refuse", !.at = p, !.id = i])
  /\ UNCHANGED <<storeVars, repo, unread, save>>

\* Any failure of the update, a taken name included, aborts the pass.
AdoptDefinition ==
  /\ sweep.pc = "update" /\ Calm
  /\ \/ /\ UpdateTransformation(sweep.id, sweep.row)
        /\ Pass([sweep EXCEPT !.pc = "adoptStamp"])
     \/ /\ row[sweep.id] = None \/ ~Fits(sweep.id, sweep.row)
        /\ Pass(NoPass) /\ UNCHANGED storeVars
  /\ UNCHANGED <<repo, unread, save>>
AdoptStamp == Stamp("adoptStamp", [sweep EXCEPT !.pc = "import", !.ids = @ \ {sweep.id}])

RefuseAdoption ==
  /\ sweep.pc = "refuse"
  /\ Pass([sweep EXCEPT !.pc = "import", !.ids = @ \ {sweep.id}])
  /\ \/ MarkTransformationDefinitionRefused(sweep.id, sweep.tree[sweep.at]) /\ Calm
     \/ Tick /\ UNCHANGED storeVars
  /\ UNCHANGED <<repo, unread, save>>

PassEnds ==
  /\ sweep.pc = "import" /\ sweep.files = {} /\ sweep.ids = {} /\ Calm
  /\ Pass(NoPass)
  /\ UNCHANGED <<storeVars, repo, unread, save>>
\* A repository or database read fails, or the process restarts.
PassFails ==
  /\ sweep.pc # "idle" /\ Tick
  /\ Pass(NoPass)
  /\ UNCHANGED <<storeVars, repo, unread, save>>

AdoptCustomer ==
  \/ SweepPipelines \/ LoadAdoptState \/ ImportFile \/ ImportStamp
  \/ \E p \in Paths : ImportRead(p)
  \/ \E i \in IDs : AdoptRead(i)
  \/ AdoptDefinition \/ AdoptStamp \/ RefuseAdoption \/ PassEnds \/ PassFails

-----------------------------------------------------------------------------
\* A commit made on the box: a flag, the trigger, the id or the header of a
\* file changes, or the file goes.  Files the database does not know come with
\* the empty database of Init.
BoxEdits(f) ==
  {[f EXCEPT !.on = ~@], [f EXCEPT !.id = 0], [f EXCEPT !.hdr = FALSE], None}
  \cup {[f EXCEPT !.trig = t] : t \in Triggers}
BoxCommit(p) ==
  /\ Tick /\ repo[p] # None
  /\ \E f \in BoxEdits(repo[p]) \ {repo[p]} : repo' = [repo EXCEPT ![p] = f]
  /\ UNCHANGED <<storeVars, unread, save, sweep>>

=============================================================================
