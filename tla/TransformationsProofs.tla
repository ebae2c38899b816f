------------------------ MODULE TransformationsProofs ------------------------
(***************************************************************************)
(* For every number of ids, runs and events, every set of names and        *)
(* pipelines and every way names share a slug: a transformation is chained *)
(* only to pipelines of its own workspace that exist, and a converge that  *)
(* reports success has left the repository as the rows it listed.          *)
(*                                                                         *)
(* For any number of calls and deployments: calls that race share one key  *)
(* set, and what a deployment advertises it serves.                        *)
(***************************************************************************)
EXTENDS Transformations, BoxTrust, Surfaces, TLAPS

-----------------------------------------------------------------------------
(* Types *)

SavePcs == {"idle", "write", "list", "renders", "tree", "work", "put", "record", "delete", "done", "compensate"}
SaveOps == {"none", "create", "update", "delete"}
PassPcs == {"idle", "tree", "rows", "renders", "import", "insert", "importStamp", "update", "adoptStamp", "refuse"}
Blobs == Files \cup {None}
MaybeRows == Rows \cup {None}
Renders == [path : Paths, sha : Blobs, refused : Blobs]
RowTable == [IDs -> MaybeRows]
RenderTable == [IDs -> Renders \cup {None}]
Trees == [Paths -> Blobs]
Saves ==
  [pc : SavePcs, op : SaveOps, id : 0..MaxIDs, old : MaybeRows, new : MaybeRows, rows : RowTable, renders : RenderTable,
   tree : Trees, todo : SUBSET IDs, stale : SUBSET Paths, path : Paths \cup {None}, file : Blobs, sha : Blobs,
   again : BOOLEAN, seen : Nat]
Passes ==
  [pc : PassPcs, tree : Trees, rows : RowTable, renders : RenderTable, files : SUBSET Paths, ids : SUBSET IDs,
   new : SUBSET [id : IDs, name : Names], at : Paths \cup {None}, id : 0..MaxIDs, row : MaybeRows]

-----------------------------------------------------------------------------
(* The inductive invariant *)

\* A row whose trigger passed the check of the workspace, whenever that was.
Own(r) == r = None \/ r.trig \notin Foreign

StoreInv ==
  /\ row \in RowTable /\ render \in RenderTable /\ repo \in Trees
  /\ unread \cap Foreign = {}
  /\ TriggerOwned

Working == {"work", "put", "record", "delete", "done"}
\* What a converge still has to look at, and the file it is writing.
Shape(s) ==
  /\ s.todo \subseteq Live(s.rows) /\ s.stale \subseteq Paths \ Desired(s.rows)
  /\ s.pc \in {"put", "record"} =>
       \E i \in Live(s.rows) : s.path = FilePath(s.rows, i) /\ s.file = RenderTransformationFile(s.rows, i)
  /\ s.pc = "delete" => s.path \in s.stale
  /\ s.pc = "done" => s.todo = {} /\ s.stale = {}
\* The rows it has dealt with are in the repository, the other files it has
\* looked at are none of this plane's.
Current(s, files) ==
  \A i \in Live(s.rows) \ s.todo : files[FilePath(s.rows, i)] = RenderTransformationFile(s.rows, i)
Cleared(s, files) ==
  \A p \in Paths \ (Desired(s.rows) \cup s.stale) : files[p] # None => ~files[p].hdr
Conv(s, files, n) ==
  s.pc \in Working =>
    /\ Shape(s)
    /\ n = s.seen => /\ Current(s, files) /\ Cleared(s, files)
                     /\ s.pc = "record" => files[s.path] = s.file
SaveInv ==
  /\ save \in Saves /\ events \in Nat /\ save.seen <= events
  /\ Own(save.old) /\ Own(save.new)
  /\ Conv(save, repo, events)

\* A file the sweep has fetched and checked.
Fetched(s) ==
  /\ s.pc \in {"insert", "importStamp", "update", "adoptStamp", "refuse"} => s.at \in Paths /\ s.id \in IDs
  /\ s.pc \in {"insert", "update"} => s.row \in Rows /\ s.row.trig \notin Foreign
PassInv == sweep \in Passes /\ Fetched(sweep)

TransInv == StoreInv /\ SaveInv /\ PassInv

-----------------------------------------------------------------------------
(* Rows and paths *)

LEMMA RowTyped ==
  ASSUME NEW n \in Names, NEW e \in BOOLEAN, NEW t \in Triggers, NEW k \in BOOLEAN
  PROVE  Row(n, e, t, k) \in Rows /\ Row(n, e, t, k).trig = t /\ Row(n, e, t, k).name = n
  BY DEF Row, Rows

LEMMA LiveRow ==
  ASSUME NEW rs \in RowTable, NEW i \in Live(rs)
  PROVE  i \in IDs /\ rs[i] \in Rows /\ rs[i].name \in Names /\ rs[i].trig \in Triggers /\ rs[i].on \in BOOLEAN
         /\ rs[i].creds \in BOOLEAN
<1>1. i \in IDs /\ rs[i] \in Rows
  BY DEF Live, RowTable, MaybeRows
<1>. QED
  BY <1>1 DEF Rows

LEMMA RenderTyped ==
  ASSUME NEW rs, NEW i \in IDs, rs[i] \in Rows
  PROVE  /\ FilePath(rs, i) \in Paths /\ RenderTransformationFile(rs, i) \in Files
         /\ RenderTransformationFile(rs, i).id = i
<1>1. i \in 0..MaxIDs /\ rs[i].name \in Names /\ rs[i].trig \in Triggers /\ rs[i].on \in BOOLEAN /\ 0 \in 0..MaxIDs
  BY StoreAssumption DEF IDs, Rows
<1>2. Slug(rs, i) \in Slugs
  BY <1>1 DEF Slug, Slugs
<1>3. FilePath(rs, i) \in Paths
  BY <1>1, <1>2 DEF FilePath, Paths
<1>4. RenderTransformationFile(rs, i) \in Files /\ RenderTransformationFile(rs, i).id = i
  BY <1>1 DEF RenderTransformationFile, File, Files
<1>. QED
  BY <1>3, <1>4

LEMMA PathTyped ==
  ASSUME NEW rs \in RowTable, NEW i \in Live(rs)
  PROVE  /\ FilePath(rs, i) \in Paths /\ FilePath(rs, i) \in Desired(rs)
         /\ RenderTransformationFile(rs, i) \in Files /\ RenderTransformationFile(rs, i).id = i
<1>1. i \in IDs /\ rs[i] \in Rows
  BY LiveRow
<1>2. FilePath(rs, i) \in Desired(rs)
  BY DEF Desired
<1>. QED
  BY <1>1, <1>2, RenderTyped

\* Two configs are never rendered to one file, whatever slugs they share.
LEMMA PathsDiffer ==
  ASSUME NEW rs, NEW i \in Live(rs), NEW j \in Live(rs), i # j
  PROVE  FilePath(rs, i) # FilePath(rs, j)
<1>1. CASE Slug(rs, i) # Slug(rs, j)
  BY <1>1 DEF FilePath
<1>2. CASE Slug(rs, i) = Slug(rs, j)
  <2>1. FilePath(rs, i) = <<Slug(rs, i), i>> /\ FilePath(rs, j) = <<Slug(rs, j), j>>
    BY <1>2 DEF FilePath
  <2>. QED
    BY <2>1
<1>. QED
  BY <1>1, <1>2

LEMMA IdleTyped == Idle \in Saves /\ Idle.pc = "idle" /\ Idle.seen = 0 /\ Idle.old = None /\ Idle.new = None
<1>1. NoRows \in RowTable /\ NoRows \in RenderTable /\ NoFiles \in Trees /\ 0 \in 0..MaxIDs
  BY StoreAssumption DEF NoRows, NoFiles, RowTable, RenderTable, Trees, MaybeRows, Blobs
<1>. QED
  BY <1>1 DEF Idle, Saves, SavePcs, SaveOps, MaybeRows, Blobs

LEMMA NoPassTyped == NoPass \in Passes /\ NoPass.pc = "idle"
<1>1. NoRows \in RowTable /\ NoRows \in RenderTable /\ NoFiles \in Trees /\ 0 \in 0..MaxIDs
  BY StoreAssumption DEF NoRows, NoFiles, RowTable, RenderTable, Trees, MaybeRows, Blobs
<1>. QED
  BY <1>1 DEF NoPass, Passes, PassPcs, MaybeRows

-----------------------------------------------------------------------------
(* The store *)

\* A statement that writes a row whose trigger was checked earlier: the
\* foreign key checks that the pipeline still exists.
LEMMA RowWritten ==
  ASSUME StoreInv, NEW i, NEW r \in MaybeRows, row' = [row EXCEPT ![i] = r], Own(r),
         r = None \/ r.trig \in pipes \cup {None}, UNCHANGED <<pipes, unread, repo>>, render' \in RenderTable
  PROVE  StoreInv'
<1>1. row' \in RowTable /\ \A j \in IDs : row'[j] \in {row[j], r}
  BY Zenon DEF StoreInv, RowTable
<1>2. TriggerOwned'
  BY <1>1 DEF TriggerOwned, StoreInv, Own, Live
<1>. QED
  BY <1>1, <1>2 DEF StoreInv

LEMMA RowsKept ==
  ASSUME StoreInv, UNCHANGED <<pipes, row, unread>>, render' \in RenderTable, repo' \in Trees PROVE StoreInv'
  BY DEF StoreInv, TriggerOwned, Live

LEMMA RendersTyped ==
  ASSUME StoreInv, NEW i, NEW p \in Paths, NEW f \in Blobs, UpsertTransformationDefinitionRender(i, p, f)
  PROVE  render' \in RenderTable /\ UNCHANGED <<pipes, row>>
<1>1. Render(p, f, None) \in Renders
  BY DEF Render, Renders, Blobs
<1>2. render' = [render EXCEPT ![i] = Render(p, f, None)] /\ UNCHANGED <<pipes, row>>
  BY DEF UpsertTransformationDefinitionRender
<1>. QED
  BY <1>1, <1>2, Zenon DEF StoreInv, RenderTable

LEMMA RowDeleted ==
  ASSUME StoreInv, NEW i, DeleteRow(i), UNCHANGED <<unread, repo>> PROVE StoreInv'
<1>1. row' = [row EXCEPT ![i] = None] /\ render' = [render EXCEPT ![i] = None] /\ UNCHANGED pipes
  BY DEF DeleteRow
<1>2. render' \in RenderTable /\ None \in MaybeRows
  BY <1>1, Zenon DEF StoreInv, RenderTable, MaybeRows
<1>. QED
  BY <1>1, <1>2, RowWritten, Zenon DEF Own

\* ON DELETE SET NULL: no row keeps the pipeline that goes.
LEMMA PipelineGone ==
  ASSUME StoreInv, NEW p \in Pipelines, DeletePipeline(p), UNCHANGED <<unread, repo>> PROVE StoreInv'
<1>1. /\ pipes' = pipes \ {p} /\ UNCHANGED render
      /\ row' = [i \in IDs |-> IF row[i] # None /\ row[i].trig = p
                               THEN Row(row[i].name, row[i].on, None, row[i].creds) ELSE row[i]]
  BY DEF DeletePipeline
<1>2. \A i \in Live(row) : Row(row[i].name, row[i].on, None, row[i].creds) \in Rows
                           /\ Row(row[i].name, row[i].on, None, row[i].creds).trig = None
  BY LiveRow, RowTyped DEF StoreInv, Triggers
<1>3. \A i \in IDs : row'[i] \in MaybeRows
                     /\ (row'[i] # None => row[i] # None)
                     /\ (row'[i] # None => row'[i].trig = None \/ (row'[i] = row[i] /\ row[i].trig # p))
  BY <1>1, <1>2 DEF Live, MaybeRows, StoreInv, RowTable
<1>4. row' \in RowTable
  BY <1>1, <1>3 DEF RowTable
<1>5. TriggerOwned'
  BY <1>1, <1>3 DEF TriggerOwned, Live, StoreInv
<1>. QED
  BY <1>1, <1>4, <1>5 DEF StoreInv

-----------------------------------------------------------------------------
(* The save *)

\* What a step of a save leaves of the request it serves.
Serves(s, t) == t \in Saves /\ t.old = s.old /\ t.new = s.new /\ t.seen = s.seen
SameConverge(s, t) == Serves(s, t) /\ t.rows = s.rows

LEMMA SaveGoes ==
  ASSUME NEW s \in Saves, NEW l \in SavePcs, NEW t, t = [s EXCEPT !.pc = l]
  PROVE  /\ SameConverge(s, t) /\ t.pc = l
         /\ t.todo = s.todo /\ t.stale = s.stale /\ t.path = s.path /\ t.file = s.file
  BY DEF Saves, Serves, SameConverge

LEMMA SaveLists ==
  ASSUME NEW s \in Saves, NEW rs \in RowTable, NEW t, t = [s EXCEPT !.pc = "renders", !.rows = rs]
  PROVE  Serves(s, t) /\ t.pc = "renders"
  BY Zenon DEF Saves, SavePcs, Serves

LEMMA SaveLoads ==
  ASSUME NEW s \in Saves, NEW rs \in RenderTable, NEW t, t = [s EXCEPT !.pc = "tree", !.renders = rs]
  PROVE  Serves(s, t) /\ t.pc = "tree"
  BY Zenon DEF Saves, SavePcs, Serves

LEMMA SaveSkips ==
  ASSUME NEW s \in Saves, NEW i, NEW t, t = [s EXCEPT !.todo = s.todo \ {i}]
  PROVE  SameConverge(s, t) /\ t.pc = s.pc /\ t.todo = s.todo \ {i} /\ t.stale = s.stale
  BY DEF Saves, Serves, SameConverge

LEMMA SavePuts ==
  ASSUME NEW s \in Saves, NEW t, t = [s EXCEPT !.pc = "record", !.sha = s.file]
  PROVE  SameConverge(s, t) /\ t.pc = "record" /\ t.todo = s.todo /\ t.stale = s.stale /\ t.path = s.path /\ t.file = s.file
  BY Zenon DEF Saves, SavePcs, Serves, SameConverge

LEMMA SavePasses ==
  ASSUME NEW s \in Saves, NEW p, NEW t, t = [s EXCEPT !.stale = s.stale \ {p}]
  PROVE  SameConverge(s, t) /\ t.pc = s.pc /\ t.todo = s.todo /\ t.stale = s.stale \ {p}
  BY DEF Saves, Serves, SameConverge

LEMMA SaveAgain ==
  ASSUME NEW s \in Saves, NEW t, t = [s EXCEPT !.pc = "tree", !.again = TRUE]
  PROVE  Serves(s, t) /\ t.pc = "tree"
  BY Zenon DEF Saves, SavePcs, Serves

\* Every step ticks or is calm, and a tick outdates every tree that was read.
Moves == events' = events \/ events' = events + 1

LEMMA SaveOut ==
  ASSUME SaveInv, Moves, Serves(save, save'), save'.pc \notin Working PROVE SaveInv'
<1>1. events' \in Nat /\ save'.seen <= events'
  BY DEF SaveInv, Moves, Serves, Saves
<1>. QED
  BY <1>1 DEF SaveInv, Serves, Conv

LEMMA SaveIn ==
  ASSUME SaveInv, events' = events, Serves(save, save'), Conv(save', repo', events) PROVE SaveInv'
  BY DEF SaveInv, Serves

\* Nothing else is committed while events stand still.
LEMMA SaveStays ==
  ASSUME SaveInv, UNCHANGED save, (events' = events /\ UNCHANGED repo) \/ events' = events + 1 PROVE SaveInv'
<1>1. CASE events' = events /\ UNCHANGED repo
  BY <1>1 DEF SaveInv
<1>2. CASE events' = events + 1
  <2>1. events' \in Nat /\ save.seen \in Nat /\ save.seen < events'
    BY <1>2 DEF SaveInv, Saves
  <2>. QED
    BY <2>1 DEF SaveInv, Conv
<1>. QED
  BY <1>1, <1>2

LEMMA SaveIdles == ASSUME SaveInv, save' = Idle, Moves PROVE SaveInv'
<1>1. events' \in Nat /\ 0 <= events'
  BY DEF SaveInv, Moves
<1>. QED
  BY <1>1, IdleTyped DEF SaveInv, Own, Conv, Working

-----------------------------------------------------------------------------
(* The steps of a converge *)

LEMMA ListTyped == ASSUME StoreInv PROVE ListTransformationsByCustomer \in RowTable
<1>1. ASSUME NEW i \in IDs, row[i] # None PROVE Row(row[i].name, row[i].on, row[i].trig, FALSE) \in MaybeRows
  <2>1. row[i].name \in Names /\ row[i].on \in BOOLEAN /\ row[i].trig \in Triggers
    BY <1>1, LiveRow DEF Live, StoreInv
  <2>. QED
    BY <2>1, RowTyped, Zenon DEF MaybeRows
<1>. QED
  BY <1>1, Zenon DEF ListTransformationsByCustomer, RowTable, MaybeRows

LEMMA ListingKeeps ==
  ASSUME StoreInv, SaveInv, ListRows \/ DefinitionRenderRows \/ SyncError PROVE StoreInv' /\ SaveInv'
<1>0. save \in Saves /\ UNCHANGED <<pipes, row, unread, repo, render>> /\ Moves
  BY DEF SaveInv, ListRows, DefinitionRenderRows, SyncError, storeVars, Calm, Tick, Moves
<1>1. StoreInv'
  BY <1>0, RowsKept DEF StoreInv
<1>2. CASE ListRows
  <2>1. ListTransformationsByCustomer \in RowTable
    BY ListTyped
  <2>2. save' = [save EXCEPT !.pc = "renders", !.rows = ListTransformationsByCustomer]
    BY <1>2 DEF ListRows
  <2>3. Serves(save, save') /\ save'.pc = "renders"
    BY <1>0, <2>1, <2>2, SaveLists, Zenon
  <2>. QED
    BY <1>0, <1>1, <2>3, SaveOut DEF Working
<1>3. CASE DefinitionRenderRows
  <2>1. save' = [save EXCEPT !.pc = "tree", !.renders = render] /\ render \in RenderTable
    BY <1>3 DEF DefinitionRenderRows, StoreInv
  <2>2. Serves(save, save') /\ save'.pc = "tree"
    BY <1>0, <2>1, SaveLoads, Zenon
  <2>. QED
    BY <1>0, <1>1, <2>2, SaveOut DEF Working
<1>4. CASE SyncError
  <2>1. save' = [save EXCEPT !.pc = "compensate"]
    BY <1>4 DEF SyncError, Goto
  <2>2. Serves(save, save') /\ save'.pc = "compensate"
    BY <1>0, <2>1, SaveGoes DEF SavePcs, SameConverge
  <2>. QED
    BY <1>0, <1>1, <2>2, SaveOut DEF Working
<1>. QED
  BY <1>2, <1>3, <1>4

LEMMA TreeKeeps ==
  ASSUME StoreInv, SaveInv, ListTree PROVE StoreInv' /\ SaveInv'
<1>. DEFINE live == Live(save.rows)
            stale == TransformationTreeYAML \ Desired(save.rows)
<1>0. /\ save \in Saves /\ events \in Nat /\ repo \in Trees /\ UNCHANGED <<pipes, row, unread, repo, render>>
      /\ events' = events
      /\ save' = [save EXCEPT !.pc = "work", !.tree = repo, !.todo = live, !.seen = events, !.stale = stale]
  BY DEF SaveInv, StoreInv, ListTree, storeVars, Calm
<1>1. StoreInv'
  BY <1>0, RowsKept DEF StoreInv
<1>2. live \in SUBSET IDs /\ stale \in SUBSET Paths
  BY DEF Live, TransformationTreeYAML
<1>3. /\ save' \in Saves /\ save'.old = save.old /\ save'.new = save.new /\ save'.rows = save.rows
      /\ save'.pc = "work" /\ save'.todo = live /\ save'.stale = stale /\ save'.seen = events
  <2>. HIDE DEF live, stale
  <2>. QED
    BY <1>0, <1>2, Zenon DEF Saves, SavePcs
<1>4. Shape(save')
  BY <1>3 DEF Shape, TransformationTreeYAML
<1>5. Current(save', repo')
  BY <1>3 DEF Current
<1>6. Cleared(save', repo')
  BY <1>0, <1>3 DEF Cleared, TransformationTreeYAML
<1>7. events' \in Nat /\ save'.seen <= events'
  BY <1>0, <1>3
<1>. QED
  BY <1>1, <1>3, <1>4, <1>5, <1>6, <1>7 DEF SaveInv, Conv

\* Setting one more row's file aside, or one more stale file.
LEMMA RowDone ==
  ASSUME NEW s \in Saves, NEW t \in Saves, NEW files, NEW n, NEW i, Conv(s, files, n), s.pc \in Working,
         t.pc = "work", t.rows = s.rows, t.seen = s.seen, t.todo = s.todo \ {i}, t.stale = s.stale,
         n = s.seen /\ i \in Live(s.rows) => files[FilePath(s.rows, i)] = RenderTransformationFile(s.rows, i)
  PROVE  Conv(t, files, n)
<1>1. Shape(t)
  BY DEF Shape, Conv
<1>2. n = s.seen => Current(t, files) /\ Cleared(t, files)
  BY DEF Conv, Current, Cleared
<1>. QED
  BY <1>1, <1>2 DEF Conv

LEMMA FileDone ==
  ASSUME NEW s \in Saves, NEW t \in Saves, NEW files, NEW n, NEW p, Conv(s, files, n), s.pc \in Working,
         t.pc = "work", t.rows = s.rows, t.seen = s.seen, t.todo = s.todo, t.stale = s.stale \ {p},
         n = s.seen /\ files[p] # None => ~files[p].hdr
  PROVE  Conv(t, files, n)
<1>1. Shape(t)
  BY DEF Shape, Conv
<1>2. n = s.seen => Current(t, files) /\ Cleared(t, files)
  BY DEF Conv, Current, Cleared
<1>. QED
  BY <1>1, <1>2 DEF Conv

LEMMA UpsertKeeps ==
  ASSUME StoreInv, SaveInv, NEW i \in IDs, UpsertFile(i) PROVE StoreInv' /\ SaveInv'
<1>. DEFINE p == FilePath(save.rows, i)
            f == RenderTransformationFile(save.rows, i)
<1>0. /\ save \in Saves /\ repo \in Trees /\ UNCHANGED <<pipes, row, unread, repo, render>> /\ events' = events
      /\ save.pc = "work" /\ i \in save.todo /\ Conv(save, repo, events)
  BY DEF SaveInv, StoreInv, UpsertFile, storeVars, Calm
<1>1. StoreInv'
  BY <1>0, RowsKept DEF StoreInv
<1>2. i \in Live(save.rows) /\ Shape(save) /\ save.rows \in RowTable /\ save.tree \in Trees
  BY <1>0 DEF Conv, Shape, Working, Saves
<1>3. p \in Paths /\ f \in Blobs /\ repo[p] \in Blobs /\ save.tree[p] \in Blobs /\ None \in Blobs
  BY <1>0, <1>2, PathTyped DEF Trees, Blobs
<1>4. ASSUME NEW l \in {"put", "record"}, NEW x \in Blobs, save' = [save EXCEPT !.path = p, !.file = f, !.pc = l, !.sha = x],
             l = "record" => repo[p] = f
      PROVE  SaveInv'
  <2>1. /\ SameConverge(save, save') /\ save'.pc = l /\ save'.todo = save.todo /\ save'.stale = save.stale
        /\ save'.path = p /\ save'.file = f
    <3>. HIDE DEF p, f
    <3>. QED
      BY <1>0, <1>3, <1>4, Zenon DEF Saves, SavePcs, SameConverge, Serves
  <2>2. Shape(save')
    BY <1>2, <2>1 DEF Shape, SameConverge
  <2>3. events = save.seen => Current(save', repo) /\ Cleared(save', repo)
    BY <1>0, <2>1 DEF Conv, Working, Current, Cleared, SameConverge
  <2>4. Conv(save', repo', events)
    <3>. HIDE DEF p, f
    <3>. QED
      BY <1>0, <1>4, <2>1, <2>2, <2>3 DEF Conv, SameConverge, Serves
  <2>. QED
    BY <1>0, <2>1, <2>4, SaveIn DEF SameConverge
<1>5. CASE Goto("compensate")
  <2>1. Serves(save, save') /\ save'.pc = "compensate"
    BY <1>0, <1>5, SaveGoes DEF Goto, SavePcs, SameConverge
  <2>. QED
    BY <1>0, <1>1, <2>1, SaveOut DEF Moves, Working
<1>6. CASE repo[p] = f /\ save' = [save EXCEPT !.todo = @ \ {i}]
  <2>1. SameConverge(save, save') /\ save'.pc = "work" /\ save'.todo = save.todo \ {i} /\ save'.stale = save.stale
    BY <1>0, <1>6, SaveSkips
  <2>2. Conv(save', repo', events)
    BY <1>0, <1>6, <2>1, RowDone, ZenonT(30) DEF Working, SameConverge, Serves
  <2>. QED
    BY <1>0, <1>1, <2>1, <2>2, SaveIn DEF SameConverge
<1>7. CASE save' = [save EXCEPT !.path = p, !.file = f, !.pc = "put", !.sha = None]
  BY <1>1, <1>3, <1>4, <1>7, Zenon
<1>8. CASE repo[p] = f /\ save' = [save EXCEPT !.path = p, !.file = f, !.pc = "record", !.sha = save.tree[p]]
  BY <1>1, <1>3, <1>4, <1>8, ZenonT(30)
<1>9. CASE save' = [save EXCEPT !.path = p, !.file = f, !.pc = "put", !.sha = repo[p]]
  BY <1>1, <1>3, <1>4, <1>9, Zenon
<1>10. \/ Goto("compensate")
       \/ repo[p] = f /\ save' = [save EXCEPT !.todo = @ \ {i}]
       \/ save' = [save EXCEPT !.path = p, !.file = f, !.pc = "put", !.sha = None]
       \/ repo[p] = f /\ save' = [save EXCEPT !.path = p, !.file = f, !.pc = "record", !.sha = save.tree[p]]
       \/ save' = [save EXCEPT !.path = p, !.file = f, !.pc = "put", !.sha = repo[p]]
  BY DEF UpsertFile
<1>. QED
  BY <1>5, <1>6, <1>7, <1>8, <1>9, <1>10

LEMMA RecordKeeps ==
  ASSUME StoreInv, SaveInv, RecordDefinitionRender PROVE StoreInv' /\ SaveInv'
<1>0. /\ save \in Saves /\ save.pc = "record" /\ Conv(save, repo, events) /\ Shape(save) /\ save.rows \in RowTable
      /\ UNCHANGED <<repo, unread>> /\ save.sha \in Blobs
  BY DEF SaveInv, RecordDefinitionRender, Conv, Working, Saves
<1>1. PICK i \in Live(save.rows) : save.path = FilePath(save.rows, i) /\ save.file = RenderTransformationFile(save.rows, i)
  BY <1>0 DEF Shape
<1>2. save.file.id = i /\ save.path \in Paths
  BY <1>0, <1>1, PathTyped
<1>3. /\ save' = [save EXCEPT !.pc = "work", !.todo = @ \ {i}]
      /\ \/ UpsertTransformationDefinitionRender(i, save.path, save.sha) /\ Calm
         \/ UNCHANGED storeVars /\ IF row[i] = None THEN Calm ELSE Tick
  BY <1>2 DEF RecordDefinitionRender
<1>4. StoreInv'
  <2>1. CASE UpsertTransformationDefinitionRender(i, save.path, save.sha)
    BY <1>0, <1>2, <2>1, RendersTyped, RowsKept DEF StoreInv
  <2>2. CASE UNCHANGED storeVars
    BY <1>0, <2>2, RowsKept DEF StoreInv, storeVars
  <2>. QED
    BY <1>3, <2>1, <2>2
<1>5. SameConverge(save, save') /\ save'.pc = "work" /\ save'.todo = save.todo \ {i} /\ save'.stale = save.stale
  BY <1>0, <1>3, Zenon DEF Saves, SavePcs, SameConverge, Serves
<1>6. events = save.seen => repo[FilePath(save.rows, i)] = RenderTransformationFile(save.rows, i)
  BY <1>0, <1>1 DEF Conv, Working
<1>7. Conv(save', repo', events)
  BY <1>0, <1>5, <1>6, RowDone DEF Working, SameConverge, Serves
<1>8. CASE events' = events
  BY <1>4, <1>5, <1>7, <1>8, SaveIn DEF SameConverge
<1>9. CASE events' = events + 1
  <2>1. events' \in Nat /\ save'.seen \in Nat /\ save'.seen < events'
    BY <1>5, <1>9 DEF SaveInv, Saves, SameConverge, Serves
  <2>2. Conv(save', repo', events')
    BY <1>7, <2>1 DEF Conv
  <2>. QED
    BY <1>4, <1>5, <2>1, <2>2 DEF SaveInv, SameConverge, Serves
<1>. QED
  BY <1>3, <1>8, <1>9 DEF Calm, Tick

LEMMA StaleKeeps ==
  ASSUME StoreInv, SaveInv, NEW p \in Paths, DeleteStaleRendered(p) PROVE StoreInv' /\ SaveInv'
<1>0. /\ save \in Saves /\ UNCHANGED <<pipes, row, unread, repo, render>> /\ events' = events
      /\ save.pc = "work" /\ p \in save.stale /\ Conv(save, repo, events)
  BY DEF SaveInv, StoreInv, DeleteStaleRendered, storeVars, Calm
<1>1. StoreInv'
  BY <1>0, RowsKept DEF StoreInv
<1>2. CASE Goto("compensate")
  <2>1. Serves(save, save') /\ save'.pc = "compensate"
    BY <1>0, <1>2, SaveGoes DEF Goto, SavePcs, SameConverge
  <2>. QED
    BY <1>0, <1>1, <2>1, SaveOut DEF Moves, Working
<1>3. CASE ~repo[p].hdr /\ save' = [save EXCEPT !.stale = @ \ {p}]
  <2>1. SameConverge(save, save') /\ save'.pc = "work" /\ save'.todo = save.todo /\ save'.stale = save.stale \ {p}
    BY <1>0, <1>3, SavePasses
  <2>2. Conv(save', repo', events)
    BY <1>0, <1>3, <2>1, FileDone, Zenon DEF Working, SameConverge, Serves
  <2>. QED
    BY <1>0, <1>1, <2>1, <2>2, SaveIn DEF SameConverge
<1>4. CASE save' = [save EXCEPT !.pc = "delete", !.path = p]
  <2>1. /\ SameConverge(save, save') /\ save'.pc = "delete" /\ save'.todo = save.todo /\ save'.stale = save.stale
        /\ save'.path = p
    BY <1>0, <1>4, Zenon DEF Saves, SavePcs, SameConverge, Serves
  <2>2. Conv(save', repo', events)
    BY <1>0, <2>1 DEF Conv, Working, Shape, Current, Cleared, SameConverge, Serves
  <2>. QED
    BY <1>0, <1>1, <2>1, <2>2, SaveIn DEF SameConverge
<1>. QED
  BY <1>2, <1>3, <1>4 DEF DeleteStaleRendered

LEMMA ConvergedKeeps ==
  ASSUME StoreInv, SaveInv, Converged PROVE StoreInv' /\ SaveInv'
<1>0. /\ save \in Saves /\ UNCHANGED <<pipes, row, unread, repo, render>> /\ events' = events
      /\ save.pc = "work" /\ save.todo = {} /\ save.stale = {} /\ Conv(save, repo, events)
      /\ save' = [save EXCEPT !.pc = "done"]
  BY DEF SaveInv, StoreInv, Converged, storeVars, Calm, Goto
<1>1. StoreInv'
  BY <1>0, RowsKept DEF StoreInv
<1>2. SameConverge(save, save') /\ save'.pc = "done" /\ save'.todo = save.todo /\ save'.stale = save.stale
  BY <1>0, SaveGoes DEF SavePcs
<1>3. Conv(save', repo', events)
  BY <1>0, <1>2 DEF Conv, Working, Shape, Current, Cleared, SameConverge, Serves
<1>. QED
  BY <1>0, <1>1, <1>2, <1>3, SaveIn DEF SameConverge

\* A commit of the converge: what happens besides its taking effect.
LEMMA CommitKeeps ==
  ASSUME StoreInv, SaveInv, NEW p, NEW sha, NEW f \in Blobs, NEW then, Commit(p, sha, f, then),
         UNCHANGED <<storeVars, unread>>,
         repo' = [repo EXCEPT ![p] = f] /\ events' = events /\ save' = then => SaveInv'
  PROVE  StoreInv' /\ SaveInv'
<1>0. save \in Saves /\ UNCHANGED <<pipes, row, unread, render>>
  BY DEF SaveInv, storeVars
<1>1. repo' \in {repo, [repo EXCEPT ![p] = f]} /\ Moves
  BY DEF Commit, Calm, Tick, Moves
<1>2. repo' \in Trees
  BY <1>1 DEF StoreInv, Trees
<1>3. StoreInv'
  BY <1>0, <1>2, RowsKept DEF StoreInv
<1>4. CASE repo' = [repo EXCEPT ![p] = f] /\ events' = events /\ save' = then
  BY <1>3, <1>4
<1>5. CASE Goto("compensate")
  <2>1. Serves(save, save') /\ save'.pc = "compensate"
    BY <1>0, <1>5, SaveGoes DEF Goto, SavePcs, SameConverge
  <2>. QED
    BY <1>1, <1>3, <2>1, SaveOut DEF Working
<1>6. CASE Conflict
  <2>1. Serves(save, save') /\ save'.pc \in {"compensate", "tree"}
    <3>1. CASE save' = [save EXCEPT !.pc = "compensate"]
      BY <1>0, <3>1, SaveGoes DEF SavePcs, SameConverge
    <3>2. CASE save' = [save EXCEPT !.pc = "tree", !.again = TRUE]
      BY <1>0, <3>2, SaveAgain, Zenon
    <3>. QED
      BY <1>6, <3>1, <3>2 DEF Conflict
  <2>. QED
    BY <1>1, <1>3, <2>1, SaveOut DEF Working
<1>. QED
  BY <1>4, <1>5, <1>6 DEF Commit, Calm

LEMMA PutKeeps ==
  ASSUME StoreInv, SaveInv, PutContents PROVE StoreInv' /\ SaveInv'
<1>. DEFINE then == [save EXCEPT !.pc = "record", !.sha = save.file]
<1>0. /\ save \in Saves /\ save.pc = "put" /\ Conv(save, repo, events) /\ Shape(save) /\ save.rows \in RowTable
      /\ UNCHANGED <<storeVars, unread>> /\ save.file \in Blobs /\ repo \in Trees
      /\ Commit(save.path, save.sha, save.file, then)
  BY DEF SaveInv, StoreInv, PutContents, Conv, Working, Saves
<1>1. PICK i \in Live(save.rows) : save.path = FilePath(save.rows, i) /\ save.file = RenderTransformationFile(save.rows, i)
  BY <1>0 DEF Shape
<1>2. save.path \in Paths /\ save.path \in Desired(save.rows)
  BY <1>0, <1>1, PathTyped
<1>3. ASSUME repo' = [repo EXCEPT ![save.path] = save.file], events' = events, save' = then PROVE SaveInv'
  <2>1. /\ SameConverge(save, save') /\ save'.pc = "record" /\ save'.todo = save.todo /\ save'.stale = save.stale
        /\ save'.path = save.path /\ save'.file = save.file
    BY <1>0, <1>3, SavePuts, Zenon
  <2>2. repo'[save.path] = save.file /\ \A q \in Paths \ {save.path} : repo'[q] = repo[q]
    BY <1>0, <1>2, <1>3 DEF Trees
  <2>3. Shape(save')
    BY <1>0, <2>1 DEF Shape, SameConverge
  <2>4. events = save.seen => Current(save', repo')
    <3>1. SUFFICES ASSUME events = save.seen, NEW j \in Live(save.rows) \ save.todo
                   PROVE  repo'[FilePath(save.rows, j)] = RenderTransformationFile(save.rows, j)
      BY <2>1 DEF Current, SameConverge
    <3>2. repo[FilePath(save.rows, j)] = RenderTransformationFile(save.rows, j)
      BY <1>0, <3>1 DEF Conv, Working, Current
    <3>3. FilePath(save.rows, j) \in Paths
      BY <1>0, PathTyped
    <3>4. CASE j = i
      BY <1>1, <2>2, <3>4
    <3>5. CASE j # i
      <4>1. FilePath(save.rows, j) # save.path
        BY <1>1, <3>5, PathsDiffer
      <4>. QED
        BY <2>2, <3>2, <3>3, <4>1
    <3>. QED
      BY <3>4, <3>5
  <2>5. events = save.seen => Cleared(save', repo')
    BY <1>0, <1>2, <2>1, <2>2 DEF Conv, Working, Cleared, SameConverge
  <2>6. Conv(save', repo', events)
    BY <2>1, <2>2, <2>3, <2>4, <2>5 DEF Conv, SameConverge, Serves
  <2>. QED
    BY <1>3, <2>1, <2>6, SaveIn DEF SameConverge
<1>. QED
  BY <1>0, <1>3, CommitKeeps, Zenon

LEMMA DeleteKeeps ==
  ASSUME StoreInv, SaveInv, DeleteContents PROVE StoreInv' /\ SaveInv'
<1>. DEFINE p == save.path
            then == [save EXCEPT !.pc = "work", !.stale = @ \ {p}]
<1>0. /\ save \in Saves /\ save.pc = "delete" /\ Conv(save, repo, events) /\ Shape(save) /\ save.rows \in RowTable
      /\ UNCHANGED <<storeVars, unread>> /\ repo \in Trees /\ Commit(p, save.tree[p], None, then) /\ None \in Blobs
  BY DEF SaveInv, StoreInv, DeleteContents, Conv, Working, Saves, Blobs
<1>1. p \in Paths /\ p \notin Desired(save.rows)
  BY <1>0 DEF Shape
<1>2. ASSUME repo' = [repo EXCEPT ![p] = None], events' = events, save' = then PROVE SaveInv'
  <2>1. SameConverge(save, save') /\ save'.pc = "work" /\ save'.todo = save.todo /\ save'.stale = save.stale \ {p}
    BY <1>0, <1>2, Zenon DEF Saves, SavePcs, SameConverge, Serves
  <2>2. repo'[p] = None /\ \A q \in Paths \ {p} : repo'[q] = repo[q]
    BY <1>0, <1>1, <1>2 DEF Trees
  <2>3. Shape(save')
    BY <1>0, <2>1 DEF Shape, SameConverge
  <2>4. events = save.seen => Current(save', repo')
    <3>1. SUFFICES ASSUME events = save.seen, NEW j \in Live(save.rows) \ save.todo
                   PROVE  repo'[FilePath(save.rows, j)] = RenderTransformationFile(save.rows, j)
      BY <2>1 DEF Current, SameConverge
    <3>2. repo[FilePath(save.rows, j)] = RenderTransformationFile(save.rows, j)
      BY <1>0, <3>1 DEF Conv, Working, Current
    <3>3. FilePath(save.rows, j) \in Paths /\ FilePath(save.rows, j) \in Desired(save.rows)
      BY <1>0, PathTyped
    <3>. QED
      BY <1>1, <2>2, <3>2, <3>3
  <2>5. events = save.seen => Cleared(save', repo')
    BY <1>0, <2>1, <2>2 DEF Conv, Working, Cleared, SameConverge
  <2>6. Conv(save', repo', events)
    BY <2>1, <2>3, <2>4, <2>5 DEF Conv, SameConverge, Serves
  <2>. QED
    BY <1>2, <2>1, <2>6, SaveIn DEF SameConverge
<1>. QED
  BY <1>0, <1>2, CommitKeeps, Zenon

LEMMA SyncKeeps == ASSUME StoreInv, SaveInv, SyncCustomer PROVE StoreInv' /\ SaveInv'
  BY ListingKeeps, TreeKeeps, UpsertKeeps, RecordKeeps, StaleKeeps, ConvergedKeeps, PutKeeps, DeleteKeeps DEF SyncCustomer

-----------------------------------------------------------------------------
(* Requests and their writes *)

LEMMA RequestKeeps ==
  ASSUME StoreInv, SaveInv, NEW kind \in SaveOps, NEW i \in 0..MaxIDs, NEW old \in MaybeRows, NEW new \in MaybeRows,
         Own(old), Own(new), Begin(kind, i, old, new)
  PROVE  StoreInv' /\ SaveInv'
<1>0. /\ save \in Saves /\ UNCHANGED <<pipes, row, unread, repo, render>> /\ events \in Nat /\ events' = events + 1
      /\ save.seen \in Nat /\ save.seen <= events
      /\ save' = [save EXCEPT !.pc = "write", !.op = kind, !.id = i, !.old = old, !.new = new]
  BY DEF SaveInv, Saves, Begin, storeVars, Tick
<1>1. StoreInv'
  BY <1>0, RowsKept DEF StoreInv
<1>2. save' \in Saves /\ save'.pc = "write" /\ save'.old = old /\ save'.new = new /\ save'.seen = save.seen
  BY <1>0, Zenon DEF Saves, SavePcs
<1>3. events' \in Nat /\ save'.seen <= events'
  BY <1>0, <1>2
<1>. QED
  BY <1>1, <1>2, <1>3 DEF SaveInv, Conv, Working

LEMMA RequestsKeep ==
  ASSUME StoreInv, SaveInv,
         \/ \E n \in Names, t \in Triggers : CreateRequest(n, t)
         \/ \E i \in IDs, n \in Names, e \in BOOLEAN, t \in Triggers : UpdateRequest(i, n, e, t)
         \/ \E i \in IDs : DeleteRequest(i)
  PROVE  StoreInv' /\ SaveInv' /\ UNCHANGED sweep
<1>0. IDs \subseteq 0..MaxIDs /\ 0 \in 0..MaxIDs /\ None \in MaybeRows /\ Own(None) /\ None \notin Foreign
  BY StoreAssumption DEF IDs, MaybeRows, Own
<1>1. ASSUME NEW i \in IDs, row[i] # None
      PROVE  row[i] \in MaybeRows /\ Own(row[i]) /\ row[i].creds \in BOOLEAN
  BY <1>0, <1>1, LiveRow DEF Live, StoreInv, TriggerOwned, Own, MaybeRows
<1>2. ASSUME NEW n \in Names, NEW t \in Triggers, CreateRequest(n, t) PROVE StoreInv' /\ SaveInv' /\ UNCHANGED sweep
  <2>1. Begin("create", 0, None, Row(n, TRUE, t, FALSE)) /\ t \notin Foreign
    BY <1>0, <1>2, Zenon DEF CreateRequest, ValidateTrigger
  <2>2. Row(n, TRUE, t, FALSE) \in MaybeRows /\ Own(Row(n, TRUE, t, FALSE))
    BY <2>1, RowTyped, Zenon DEF Own, MaybeRows
  <2>. QED
    BY <1>0, <2>1, <2>2, RequestKeeps, Zenon DEF SaveOps, Begin
<1>3. ASSUME NEW i \in IDs, NEW n \in Names, NEW e \in BOOLEAN, NEW t \in Triggers, UpdateRequest(i, n, e, t)
      PROVE  StoreInv' /\ SaveInv' /\ UNCHANGED sweep
  <2>1. row[i] # None /\ Begin("update", i, row[i], Row(n, e, t, row[i].creds)) /\ t \notin Foreign
    BY <1>0, <1>3 DEF UpdateRequest, ValidateTrigger
  <2>2. row[i] \in MaybeRows /\ Own(row[i]) /\ row[i].creds \in BOOLEAN
    BY <1>1, <2>1
  <2>3. Row(n, e, t, row[i].creds) \in MaybeRows /\ Own(Row(n, e, t, row[i].creds))
    BY <2>1, <2>2, RowTyped DEF Own, MaybeRows
  <2>. QED
    BY <1>0, <2>1, <2>2, <2>3, RequestKeeps, Zenon DEF SaveOps, Begin
<1>4. ASSUME NEW i \in IDs, DeleteRequest(i) PROVE StoreInv' /\ SaveInv' /\ UNCHANGED sweep
  <2>1. row[i] # None /\ Begin("delete", i, row[i], None)
    BY <1>4 DEF DeleteRequest
  <2>2. row[i] \in MaybeRows /\ Own(row[i])
    BY <1>1, <2>1
  <2>. QED
    BY <1>0, <2>1, <2>2, RequestKeeps, Zenon DEF SaveOps, Begin
<1>. QED
  BY <1>2, <1>3, <1>4

LEMMA WritesKeep ==
  ASSUME StoreInv, SaveInv, CreateWrites \/ UpdateWrites \/ DeleteWrites \/ WriteRefused \/ Compensate \/ Done
  PROVE  StoreInv' /\ SaveInv' /\ UNCHANGED sweep
<1>0. /\ save \in Saves /\ save.old \in MaybeRows /\ save.new \in MaybeRows /\ Own(save.old) /\ Own(save.new)
      /\ render \in RenderTable
  BY DEF SaveInv, StoreInv, Saves
<1>1. UNCHANGED <<repo, unread, sweep>> /\ Moves
  BY ZenonT(30) DEF CreateWrites, UpdateWrites, DeleteWrites, WriteRefused, Written, Compensate, Done, Calm, Tick, Moves
<1>2. StoreInv'
  <2>1. ASSUME NEW i, NEW r \in MaybeRows, Own(r), CreateTransformation(i, r) \/ UpdateTransformation(i, r) PROVE StoreInv'
    <3>1. row' = [row EXCEPT ![i] = r] /\ r.trig \in pipes \cup {None} /\ UNCHANGED <<pipes, render>>
      BY <2>1 DEF CreateTransformation, UpdateTransformation, Fits
    <3>. QED
      BY <1>0, <1>1, <2>1, <3>1, RowWritten, Zenon
  <2>2. ASSUME UNCHANGED storeVars PROVE StoreInv'
    BY <1>0, <1>1, <2>2, RowsKept DEF storeVars, StoreInv
  <2>. QED
    BY <1>0, <1>1, <2>1, <2>2, RowDeleted, Zenon DEF CreateWrites, UpdateWrites, DeleteWrites, WriteRefused, Compensate, Done
<1>3. SaveInv'
  <2>1. CASE save' = Idle
    BY <1>1, <2>1, SaveIdles
  <2>2. CASE Goto("list")
    <3>1. Serves(save, save') /\ save'.pc = "list"
      BY <1>0, <2>2, SaveGoes DEF Goto, SavePcs, SameConverge
    <3>. QED
      BY <1>1, <3>1, SaveOut DEF Working
  <2>3. ASSUME NEW i \in IDs, save' = [save EXCEPT !.pc = "list", !.id = i] PROVE SaveInv'
    <3>1. i \in 0..MaxIDs
      BY StoreAssumption DEF IDs
    <3>2. Serves(save, save') /\ save'.pc = "list"
      BY <1>0, <2>3, <3>1, Zenon DEF Saves, SavePcs, Serves
    <3>. QED
      BY <1>1, <3>2, SaveOut DEF Working
  <2>. QED
    BY <2>1, <2>2, <2>3, Zenon DEF CreateWrites, UpdateWrites, DeleteWrites, WriteRefused, Compensate, Done
<1>. QED
  BY <1>1, <1>2, <1>3

-----------------------------------------------------------------------------
(* The sweep *)

\* Its steps leave the repository and the save alone.
LEMMA SweepLeaves ==
  ASSUME SaveInv, AdoptCustomer PROVE SaveInv' /\ UNCHANGED repo
<1>1. UNCHANGED <<repo, save>> /\ (events' = events \/ events' = events + 1)
  BY Zenon DEF AdoptCustomer, SweepPipelines, LoadAdoptState, ImportFile, ImportStamp, ImportRead, AdoptRead, AdoptDefinition,
     AdoptStamp, RefuseAdoption, PassEnds, PassFails, Stamp, Calm, Tick
<1>. QED
  BY <1>1, SaveStays

LEMMA PassIdles == ASSUME Pass(NoPass) PROVE PassInv'
  BY NoPassTyped DEF Pass, PassInv, Fetched

\* A step that neither fetches nor writes.
LEMMA LoadingKeeps ==
  ASSUME StoreInv, PassInv, SweepPipelines \/ LoadAdoptState \/ PassEnds \/ PassFails,
         UNCHANGED repo
  PROVE  StoreInv' /\ PassInv'
<1>0. sweep \in Passes /\ row \in RowTable /\ render \in RenderTable /\ repo \in Trees
  BY DEF PassInv, StoreInv
<1>1. CASE SweepPipelines
  <2>1. /\ sweep' = [sweep EXCEPT !.pc = "tree"] /\ UNCHANGED <<row, render>> /\ pipes \subseteq pipes'
        /\ unread' \subseteq unread
    BY <1>1 DEF SweepPipelines, Pass
  <2>2. sweep' \in Passes /\ sweep'.pc = "tree"
    BY <1>0, <2>1 DEF Passes, PassPcs
  <2>3. StoreInv'
    BY <2>1 DEF StoreInv, TriggerOwned, Live
  <2>. QED
    BY <2>2, <2>3 DEF PassInv, Fetched
<1>2. CASE LoadAdoptState \/ PassEnds \/ PassFails
  <2>1. StoreInv'
    BY <1>0, <1>2, RowsKept DEF LoadAdoptState, PassEnds, PassFails, storeVars
  <2>2. CASE Pass(NoPass)
    BY <2>1, <2>2, PassIdles
  <2>3. CASE Pass([sweep EXCEPT !.pc = "rows", !.tree = repo])
    <3>1. sweep' \in Passes /\ sweep'.pc = "rows"
      BY <1>0, <2>3, Zenon DEF Pass, Passes, PassPcs
    <3>. QED
      BY <2>1, <3>1 DEF PassInv, Fetched
  <2>4. CASE Pass([sweep EXCEPT !.pc = "renders", !.rows = ListTransformationsByCustomer])
    <3>1. sweep' \in Passes /\ sweep'.pc = "renders"
      BY <1>0, <2>4, ListTyped, Zenon DEF Pass, Passes, PassPcs
    <3>. QED
      BY <2>1, <3>1 DEF PassInv, Fetched
  <2>5. ASSUME NEW files \in SUBSET Paths, NEW ids \in SUBSET IDs,
               Pass([sweep EXCEPT !.pc = "import", !.renders = render, !.ids = ids, !.files = files])
        PROVE  PassInv'
    <3>1. sweep' \in Passes /\ sweep'.pc = "import"
      BY <1>0, <2>5, Zenon DEF Pass, Passes, PassPcs
    <3>. QED
      BY <3>1 DEF PassInv, Fetched
  <2>6. \/ Pass(NoPass) \/ Pass([sweep EXCEPT !.pc = "rows", !.tree = repo])
        \/ Pass([sweep EXCEPT !.pc = "renders", !.rows = ListTransformationsByCustomer])
        \/ Pass([sweep EXCEPT !.pc = "import", !.renders = render, !.ids = Live(sweep.rows),
                 !.files = {p \in Paths : sweep.tree[p] # None /\ \A i \in IDs :
                                            render[i] = None \/ render[i].path # p}])
    BY <1>2, Zenon DEF LoadAdoptState, PassEnds, PassFails
  <2>7. Live(sweep.rows) \in SUBSET IDs
    BY DEF Live
  <2>. QED
    BY <2>1, <2>2, <2>3, <2>4, <2>5, <2>6, <2>7, Zenon
<1>. QED
  BY <1>1, <1>2

\* Fetching a file that it then imports, adopts or refuses.
LEMMA FetchKeeps ==
  ASSUME StoreInv, PassInv, UNCHANGED repo, (\E p \in Paths : ImportRead(p)) \/ (\E i \in IDs : AdoptRead(i))
  PROVE  StoreInv' /\ PassInv'
<1>0. sweep \in Passes /\ repo \in Trees /\ sweep.renders \in RenderTable /\ None \notin Foreign
  BY StoreAssumption DEF PassInv, StoreInv, Passes
<1>1. StoreInv'
  BY RowsKept, Zenon DEF ImportRead, AdoptRead, storeVars, StoreInv
<1>2. ASSUME NEW p \in Paths, NEW i \in IDs, NEW l \in {"insert", "update"}, repo[p] # None, TriggerOK(repo[p].trig),
             Pass([sweep EXCEPT !.pc = l, !.at = p, !.id = i, !.row = Row(repo[p].name, repo[p].on, repo[p].trig, FALSE)])
      PROVE  PassInv'
  <2>. DEFINE r == Row(repo[p].name, repo[p].on, repo[p].trig, FALSE)
  <2>1. repo[p].name \in Names /\ repo[p].on \in BOOLEAN /\ repo[p].trig \in Triggers
    BY <1>0, <1>2 DEF Trees, Blobs, Files
  <2>2. r \in Rows /\ r.trig \notin Foreign
    <3>1. repo[p].trig \notin Foreign
      BY <1>0, <1>2 DEF TriggerOK
    <3>. QED
      BY <2>1, <3>1 DEF Row, Rows
  <2>3. i \in 0..MaxIDs
    BY StoreAssumption DEF IDs
  <2>4. Pass([sweep EXCEPT !.pc = l, !.at = p, !.id = i, !.row = r])
    BY <1>2
  <2>. HIDE DEF r
  <2>5. sweep' \in Passes /\ sweep'.pc = l /\ sweep'.at = p /\ sweep'.id = i /\ sweep'.row = r
    BY <1>0, <2>2, <2>3, <2>4, Zenon DEF Pass, Passes, PassPcs, MaybeRows
  <2>. QED
    BY <2>2, <2>5 DEF PassInv, Fetched
<1>3. ASSUME NEW p \in Paths, ImportRead(p) PROVE PassInv'
  <2>1. CASE Pass(NoPass)
    BY <2>1, PassIdles
  <2>2. CASE Pass([sweep EXCEPT !.files = @ \ {p}])
    <3>1. sweep' \in Passes /\ sweep'.pc = "import"
      BY <1>0, <1>3, <2>2, ZenonT(30) DEF Pass, Passes, ImportRead
    <3>. QED
      BY <3>1 DEF PassInv, Fetched
  <2>3. CASE /\ repo[p] # None /\ Importable(repo[p])
             /\ Pass([sweep EXCEPT !.pc = "insert", !.at = p, !.id = repo[p].id,
                              !.row = Row(repo[p].name, repo[p].on, repo[p].trig, FALSE)])
    <3>1. repo[p].id \in 0..MaxIDs
      BY <1>0, <2>3 DEF Trees, Blobs, Files
    <3>2. repo[p].id \in IDs /\ TriggerOK(repo[p].trig)
      BY <2>3, <3>1, StoreAssumption DEF Importable, IDs
    <3>. QED
      BY <1>2, <2>3, <3>2, Zenon
  <2>. QED
    BY <1>3, <2>1, <2>2, <2>3, Zenon DEF ImportRead
<1>4. ASSUME NEW i \in IDs, AdoptRead(i) PROVE PassInv'
  <2>. DEFINE p == sweep.renders[i].path
  <2>1. CASE Pass(NoPass)
    BY <2>1, PassIdles
  <2>2. CASE Pass([sweep EXCEPT !.ids = @ \ {i}])
    <3>1. sweep' \in Passes /\ sweep'.pc = "import"
      BY <1>0, <1>4, <2>2, Zenon DEF Pass, Passes, AdoptRead
    <3>. QED
      BY <3>1 DEF PassInv, Fetched
  <2>3. ForeignCommit(i) => p \in Paths
    BY <1>0 DEF ForeignCommit, RenderTable, Renders
  <2>4. CASE ForeignCommit(i) /\ repo[p] # None /\ Adoptable(i, repo[p])
             /\ Pass([sweep EXCEPT !.pc = "update", !.at = p, !.id = i,
                                   !.row = Row(repo[p].name, repo[p].on, repo[p].trig, FALSE)])
    <3>1. TriggerOK(repo[p].trig)
      BY <2>4 DEF Adoptable
    <3>. QED
      BY <1>2, <2>3, <2>4, <3>1, Zenon
  <2>5. CASE ForeignCommit(i) /\ Pass([sweep EXCEPT !.pc = "refuse", !.at = p, !.id = i])
    <3>1. p \in Paths /\ i \in 0..MaxIDs
      BY <2>3, <2>5, StoreAssumption DEF IDs
    <3>2. sweep' \in Passes /\ sweep'.pc = "refuse" /\ sweep'.at = p /\ sweep'.id = i
      <4>. HIDE DEF p
      <4>. QED
        BY <1>0, <2>5, <3>1, Zenon DEF Pass, Passes, PassPcs
    <3>. QED
      BY <3>1, <3>2 DEF PassInv, Fetched
  <2>. QED
    BY <1>4, <2>1, <2>2, <2>4, <2>5, Zenon DEF AdoptRead
<1>. QED
  BY <1>1, <1>3, <1>4

\* Writing the row it fetched, and its bookkeeping.
LEMMA StoringKeeps ==
  ASSUME StoreInv, PassInv, UNCHANGED repo,
         ImportFile \/ ImportStamp \/ AdoptDefinition \/ AdoptStamp \/ RefuseAdoption
  PROVE  StoreInv' /\ PassInv'
<1>0. /\ sweep \in Passes /\ render \in RenderTable /\ sweep.tree \in Trees /\ UNCHANGED unread
      /\ sweep.at \in Paths /\ sweep.id \in IDs /\ sweep.new \subseteq [id : IDs, name : Names]
      /\ sweep.pc \in {"insert", "update"} => sweep.row \in Rows /\ sweep.row.trig \notin Foreign
  BY DEF PassInv, StoreInv, Passes, Fetched, ImportFile, ImportStamp, AdoptDefinition, AdoptStamp, RefuseAdoption, Stamp
<1>1. sweep.tree[sweep.at] \in Blobs
  BY <1>0 DEF Trees
<1>2. ASSUME UNCHANGED storeVars PROVE StoreInv'
  BY <1>0, <1>2, RowsKept DEF storeVars, StoreInv
<1>3. ASSUME UpsertTransformationDefinitionRender(sweep.id, sweep.at, sweep.tree[sweep.at]) PROVE StoreInv'
  BY <1>0, <1>1, <1>3, RendersTyped, RowsKept DEF StoreInv
<1>4. ASSUME MarkTransformationDefinitionRefused(sweep.id, sweep.tree[sweep.at]) PROVE StoreInv'
  <2>. DEFINE b == sweep.tree[sweep.at]
              i == sweep.id
              x == IF render[i] = None THEN None ELSE Render(render[i].path, render[i].sha, b)
  <2>1. render' = [render EXCEPT ![i] = x] /\ UNCHANGED <<pipes, row>>
    BY <1>4 DEF MarkTransformationDefinitionRefused
  <2>2. x \in Renders \cup {None}
    BY <1>0, <1>1 DEF RenderTable, Renders, Render
  <2>3. render' \in RenderTable
    <3>. HIDE DEF x
    <3>. QED
      BY <1>0, <2>1, <2>2 DEF RenderTable
  <2>. QED
    BY <1>0, <2>1, <2>3, RowsKept DEF StoreInv
<1>5. ASSUME ImportFile \/ AdoptDefinition, ImportTransformation(sweep.id, sweep.row) \/ UpdateTransformation(sweep.id, sweep.row)
      PROVE  StoreInv'
  <2>1. /\ row' = [row EXCEPT ![sweep.id] = sweep.row] /\ sweep.row.trig \in pipes \cup {None}
        /\ UNCHANGED <<pipes, render>>
    BY <1>5 DEF ImportTransformation, UpdateTransformation, Fits
  <2>2. sweep.row \in MaybeRows /\ Own(sweep.row)
    BY <1>0, <1>5 DEF ImportFile, AdoptDefinition, Own, MaybeRows
  <2>. QED
    BY <1>0, <2>1, <2>2, RowWritten, Zenon
<1>6. StoreInv'
  BY <1>2, <1>3, <1>4, <1>5 DEF ImportFile, ImportStamp, AdoptDefinition, AdoptStamp, RefuseAdoption, Stamp
<1>7. PassInv'
  <2>1. CASE Pass(NoPass)
    BY <2>1, PassIdles
  <2>2. CASE ImportFile /\ Pass([sweep EXCEPT !.pc = "importStamp", !.new = @ \cup {[id |-> sweep.id, name |-> sweep.row.name]}])
    <3>. DEFINE new == sweep.new \cup {[id |-> sweep.id, name |-> sweep.row.name]}
    <3>1. new \in SUBSET [id : IDs, name : Names]
      BY <1>0, <2>2 DEF ImportFile, Rows
    <3>2. sweep' = [sweep EXCEPT !.pc = "importStamp", !.new = new]
      BY <2>2 DEF Pass
    <3>. HIDE DEF new
    <3>3. sweep' \in Passes /\ sweep'.pc = "importStamp" /\ sweep'.at = sweep.at /\ sweep'.id = sweep.id
      BY <1>0, <3>1, <3>2, Zenon DEF Passes, PassPcs
    <3>. QED
      BY <1>0, <3>3 DEF PassInv, Fetched
  <2>3. CASE Pass([sweep EXCEPT !.pc = "import", !.files = @ \ {sweep.at}])
    <3>1. sweep' \in Passes /\ sweep'.pc = "import"
      BY <1>0, <2>3, Zenon DEF Pass, Passes, PassPcs
    <3>. QED
      BY <3>1 DEF PassInv, Fetched
  <2>4. CASE Pass([sweep EXCEPT !.pc = "import", !.ids = @ \ {sweep.id}])
    <3>1. sweep' \in Passes /\ sweep'.pc = "import"
      BY <1>0, <2>4, Zenon DEF Pass, Passes, PassPcs
    <3>. QED
      BY <3>1 DEF PassInv, Fetched
  <2>5. CASE Pass([sweep EXCEPT !.pc = "adoptStamp"])
    <3>1. sweep' \in Passes /\ sweep'.pc = "adoptStamp" /\ sweep'.at = sweep.at /\ sweep'.id = sweep.id
      BY <1>0, <2>5 DEF Pass, Passes, PassPcs
    <3>. QED
      BY <1>0, <3>1 DEF PassInv, Fetched
  <2>. QED
    BY <2>1, <2>2, <2>3, <2>4, <2>5 DEF ImportFile, ImportStamp, AdoptDefinition, AdoptStamp, RefuseAdoption, Stamp
<1>. QED
  BY <1>6, <1>7

-----------------------------------------------------------------------------
(* The plane *)

LEMMA InitTransInv == Init => TransInv
<1>. SUFFICES ASSUME Init PROVE TransInv
  OBVIOUS
<1>0. save = Idle /\ sweep = NoPass /\ events = 0
  BY Zenon DEF Init
<1>1. SaveInv
  BY <1>0, IdleTyped DEF SaveInv, Own, Conv, Working
<1>2. PassInv
  BY <1>0, NoPassTyped DEF PassInv, Fetched
<1>3. StoreInv
  <2>. DEFINE n == CHOOSE x \in Names : TRUE
  <2>1. PICK t \in Pipelines, fresh \in BOOLEAN :
          LET rs == [NoRows EXCEPT ![1] = Row(n, TRUE, t, TRUE)]
              p == FilePath(rs, 1)
              f == RenderTransformationFile(rs, 1) IN
          /\ t \in Foreign => fresh
          /\ used = {1} /\ repo = [NoFiles EXCEPT ![p] = f]
          /\ row = IF fresh THEN NoRows ELSE rs
          /\ render = IF fresh THEN NoRows ELSE [NoRows EXCEPT ![1] = Render(p, f, None)]
          /\ pipes = IF fresh THEN Foreign ELSE Pipelines
          /\ unread = IF fresh THEN Pipelines \ Foreign ELSE {}
    BY Zenon DEF Init
  <2>. DEFINE r == Row(n, TRUE, t, TRUE)
              rs == [NoRows EXCEPT ![1] = r]
              p == FilePath(rs, 1)
              f == RenderTransformationFile(rs, 1)
  <2>2. /\ t \in Foreign => fresh
        /\ repo = [NoFiles EXCEPT ![p] = f]
        /\ row = IF fresh THEN NoRows ELSE rs
        /\ render = IF fresh THEN NoRows ELSE [NoRows EXCEPT ![1] = Render(p, f, None)]
        /\ pipes = IF fresh THEN Foreign ELSE Pipelines
        /\ unread = IF fresh THEN Pipelines \ Foreign ELSE {}
    BY <2>1, Zenon
  <2>3. n \in Names /\ t \in Triggers
    BY StoreAssumption DEF Triggers
  <2>. HIDE DEF n
  <2>4. r \in Rows /\ r.trig = t
    BY <2>3, RowTyped, ZenonT(30)
  <2>. HIDE DEF r
  <2>5. 1 \in IDs /\ NoRows \in RowTable /\ NoRows \in RenderTable /\ NoFiles \in Trees /\ \A i \in IDs : NoRows[i] = None
    BY StoreAssumption DEF IDs, NoRows, NoFiles, RowTable, RenderTable, Trees, MaybeRows, Blobs
  <2>6. rs \in RowTable /\ rs[1] = r /\ \A i \in IDs : rs[i] \in {r, None}
    BY <2>4, <2>5 DEF RowTable, MaybeRows
  <2>. HIDE DEF rs
  <2>7. p \in Paths /\ f \in Files
    BY <2>4, <2>5, <2>6, RenderTyped
  <2>8. Render(p, f, None) \in Renders
    BY <2>7 DEF Render, Renders, Blobs
  <2>. HIDE DEF p, f
  <2>9. repo \in Trees /\ render \in RenderTable /\ row \in RowTable
    BY <2>2, <2>5, <2>6, <2>7, <2>8 DEF Trees, RenderTable, Blobs
  <2>10. TriggerOwned
    <3>1. SUFFICES ASSUME NEW i \in IDs, row[i] # None PROVE row[i].trig \in (pipes \ Foreign) \cup {None}
      BY DEF TriggerOwned, Live
    <3>2. ~fresh /\ row[i] = r
      BY <2>2, <2>5, <2>6, <3>1
    <3>. QED
      BY <2>2, <2>4, <3>2
  <2>. QED
    BY <2>2, <2>9, <2>10 DEF StoreInv
<1>. QED
  BY <1>1, <1>2, <1>3 DEF TransInv

LEMMA NextTransInv == TransInv /\ [Next]_vars => TransInv'
<1>. SUFFICES ASSUME TransInv, [Next]_vars PROVE TransInv'
  OBVIOUS
<1>0. StoreInv /\ SaveInv /\ PassInv
  BY DEF TransInv
<1>1. ASSUME UNCHANGED sweep PROVE PassInv'
  BY <1>0, <1>1 DEF PassInv
<1>2. ASSUME UNCHANGED <<pipes, row, render, mirrorVars>>, Moves PROVE TransInv'
  <2>1. UNCHANGED <<repo, unread, save, sweep>>
    BY <1>2 DEF mirrorVars
  <2>2. StoreInv'
    BY <1>0, <1>2, <2>1, RowsKept DEF StoreInv
  <2>3. SaveInv'
    BY <1>0, <1>2, <2>1, SaveStays DEF Moves
  <2>. QED
    BY <1>1, <2>1, <2>2, <2>3 DEF TransInv
<1>3. CASE \/ \E n \in Names, t \in Triggers : CreateRequest(n, t)
           \/ \E i \in IDs, n \in Names, e \in BOOLEAN, t \in Triggers : UpdateRequest(i, n, e, t)
           \/ \E i \in IDs : DeleteRequest(i)
  BY <1>0, <1>1, <1>3, RequestsKeep DEF TransInv
<1>4. CASE \E i \in IDs : TriggerTransformation(i) \/ GetTransformationConfigs(i)
  BY <1>2, <1>4 DEF TriggerTransformation, GetTransformationConfigs, CreateTransformationRun, storeVars, Calm, Tick, Moves
<1>5. CASE \E i \in IDs, s \in {"running", "success"} : WorkerRun(i, s)
  BY <1>2, <1>5 DEF WorkerRun, storeVars, Tick, Moves
<1>6. CASE Save
  <2>1. CASE SyncCustomer
    <3>1. UNCHANGED sweep
      BY <2>1, Zenon DEF SyncCustomer, ListRows, DefinitionRenderRows, ListTree, UpsertFile, DeleteStaleRendered, PutContents,
         RecordDefinitionRender, DeleteContents, Converged, SyncError
    <3>. QED
      BY <1>0, <1>1, <2>1, <3>1, SyncKeeps DEF TransInv
  <2>2. CASE CreateWrites \/ UpdateWrites \/ DeleteWrites \/ WriteRefused \/ Compensate \/ Done
    BY <1>0, <1>1, <2>2, WritesKeep DEF TransInv
  <2>. QED
    BY <1>6, <2>1, <2>2 DEF Save
<1>7. CASE AdoptCustomer
  <2>1. SaveInv' /\ UNCHANGED repo
    BY <1>0, <1>7, SweepLeaves
  <2>2. StoreInv' /\ PassInv'
    BY <1>0, <1>7, <2>1, LoadingKeeps, FetchKeeps, StoringKeeps DEF AdoptCustomer
  <2>. QED
    BY <2>1, <2>2 DEF TransInv
<1>8. CASE \E r \in RunIDs : Worker(r) \/ WorkerLost(r)
  BY <1>2, <1>8 DEF Worker, WorkerLost, ReportChecked, ReportTransformationRun, UpdateTransformationRun,
     CreateTransformationRun, storeVars, Calm, Tick, Moves
<1>9. CASE \E p \in Pipelines : PipelineDeleted(p)
  <2>1. PICK p \in Pipelines : PipelineDeleted(p)
    BY <1>9
  <2>2. DeletePipeline(p) /\ UNCHANGED <<repo, unread, save, sweep>> /\ events' = events + 1
    BY <2>1 DEF PipelineDeleted, mirrorVars, Tick
  <2>. QED
    BY <1>0, <1>1, <2>2, PipelineGone, SaveStays DEF TransInv
<1>10. CASE \E p \in Paths : BoxCommit(p)
  <2>1. PICK p \in Paths : BoxCommit(p)
    BY <1>10
  <2>2. PICK f \in BoxEdits(repo[p]) : repo' = [repo EXCEPT ![p] = f]
    BY <2>1, Zenon DEF BoxCommit
  <2>3. repo[p] \in Files /\ UNCHANGED <<pipes, row, render, unread, save, sweep>> /\ events' = events + 1
    BY <1>0, <2>1 DEF BoxCommit, StoreInv, Trees, Blobs, storeVars, Tick
  <2>4. f \in Blobs
    <3>1. 0 \in 0..MaxIDs /\ repo[p].on \in BOOLEAN
      BY <2>3, StoreAssumption DEF Files
    <3>2. \/ f = [repo[p] EXCEPT !.on = ~repo[p].on] \/ f = [repo[p] EXCEPT !.id = 0]
          \/ f = [repo[p] EXCEPT !.hdr = FALSE] \/ f = None
          \/ \E t \in Triggers : f = [repo[p] EXCEPT !.trig = t]
      BY <2>2 DEF BoxEdits
    <3>. QED
      BY <2>3, <3>1, <3>2, Zenon DEF Files, Blobs
  <2>5. repo' \in Trees
    BY <1>0, <2>2, <2>4 DEF StoreInv, Trees
  <2>. QED
    BY <1>0, <1>1, <2>3, <2>5, RowsKept, SaveStays DEF TransInv, StoreInv
<1>11. CASE UNCHANGED vars
  BY <1>2, <1>11 DEF vars, storeVars, Moves
<1>. QED
  BY <1>3, <1>4, <1>5, <1>6, <1>7, <1>8, <1>9, <1>10, <1>11 DEF Next

\* A transformation is never chained to another workspace's pipeline or to one
\* that is gone, by saves, compensations, imports, adoptions and deletions in
\* every order (ValidateTrigger, importableTrigger, ON DELETE SET NULL).
THEOREM TriggersOwned == Spec => []TriggerOwned
<1>1. TransInv => TriggerOwned
  BY DEF TransInv, StoreInv
<1>. QED
  BY <1>1, InitTransInv, NextTransInv, PTL DEF Spec

\* A converge that reports success with nothing committed since it read the
\* tree has left the repository as the rows it listed (SyncCustomer), for
\* every number of configs and every way their names share a slug.
THEOREM SavesConverge == Spec => []SaveConverges
<1>1. TransInv => SaveConverges
  <2>. SUFFICES ASSUME TransInv, save.pc = "done", events = save.seen
                PROVE  /\ \A i \in Live(save.rows) :
                            repo[FilePath(save.rows, i)] = RenderTransformationFile(save.rows, i)
                       /\ \A p \in Paths \ Desired(save.rows) : repo[p] # None => ~repo[p].hdr
    BY DEF SaveConverges
  <2>1. Shape(save) /\ Current(save, repo) /\ Cleared(save, repo)
    BY DEF TransInv, SaveInv, Conv, Working
  <2>2. save.todo = {} /\ save.stale = {}
    BY <2>1 DEF Shape
  <2>. QED
    BY <2>1, <2>2 DEF Current, Cleared
<1>. QED
  BY <1>1, InitTransInv, NextTransInv, PTL DEF Spec

-----------------------------------------------------------------------------
(* The trust anchor: OneKeySet is inductive once two facts join it: a call *)
(* about to store holds a key set, and a cached key set is never replaced. *)

LookupStates ==
  [pc : {"idle", "check", "fetch", "store", "done", "refused"}, box : Boxes, kf : Nat]

TrustTypes ==
  /\ keyCache \in [Boxes -> Nat] /\ loaded \in Nat
  /\ lookup \in [Lookups -> LookupStates]

StoresSome == \A l \in Lookups : lookup[l].pc = "store" => lookup[l].kf # 0

TrustInv == TrustTypes /\ StoresSome /\ OneKeySet

CacheKept == \A b \in Boxes : keyCache[b] # 0 => keyCache'[b] = keyCache[b]

LEMMA InitTrustInv == TInit => TrustInv
<1>. SUFFICES ASSUME TInit PROVE TrustInv
  OBVIOUS
<1>1. (CHOOSE b \in Boxes : TRUE) \in Boxes
  BY BoxesAssumption
<1>. QED
  BY <1>1 DEF TInit, TrustInv, TrustTypes, LookupStates, StoresSome, OneKeySet

LEMMA NextTrustInv == TrustInv /\ [TNext]_trustVars => TrustInv' /\ CacheKept
<1>. SUFFICES ASSUME TrustInv, [TNext]_trustVars PROVE TrustInv' /\ CacheKept
  OBVIOUS
<1>. USE DEF TrustInv, TrustTypes, LookupStates
<1>1. ASSUME NEW l \in Lookups, NEW b \in Boxes, keyfuncFor(l, b) PROVE TrustInv' /\ CacheKept
  <2>. DEFINE c == [pc |-> IF keyCache[b] # 0 THEN "done" ELSE "check", box |-> b, kf |-> keyCache[b]]
  <2>1. lookup' = [lookup EXCEPT ![l] = c] /\ UNCHANGED <<keyCache, loaded>>
    BY <1>1 DEF keyfuncFor
  <2>2. c \in LookupStates /\ c.pc \in {"done", "check"} /\ c.kf = keyCache[c.box] /\ (c.pc = "done" => c.kf # 0)
    OBVIOUS
  <2>. HIDE DEF c
  <2>. QED
    BY <2>1, <2>2 DEF StoresSome, OneKeySet, CacheKept
<1>2. ASSUME NEW l \in Lookups, IsVMCustomer(l) PROVE TrustInv' /\ CacheKept
  BY <1>2 DEF IsVMCustomer, Advance, StoresSome, OneKeySet, CacheKept
<1>3. ASSUME NEW l \in Lookups, newKeyfunc(l) PROVE TrustInv' /\ CacheKept
  BY <1>3 DEF newKeyfunc, Advance, StoresSome, OneKeySet, CacheKept
<1>4. ASSUME NEW l \in Lookups, StoreKeys(l) PROVE TrustInv' /\ CacheKept
  <2>1. Adopt(l) \in Nat \ {0} /\ (keyCache[lookup[l].box] # 0 => Adopt(l) = keyCache[lookup[l].box])
    BY <1>4 DEF StoreKeys, Adopt, StoresSome
  <2>2. /\ keyCache' = [keyCache EXCEPT ![lookup[l].box] = Adopt(l)]
        /\ lookup' = [lookup EXCEPT ![l].pc = "done", ![l].kf = Adopt(l)]
        /\ UNCHANGED loaded
    BY <1>4 DEF StoreKeys, Advance
  <2>3. CacheKept
    BY <2>1, <2>2 DEF CacheKept
  <2>4. TrustTypes' /\ StoresSome'
    BY <2>1, <2>2, ZenonT(30) DEF StoresSome
  <2>5. OneKeySet'
    BY <2>1, <2>2, <2>3 DEF OneKeySet, CacheKept
  <2>. QED
    BY <2>3, <2>4, <2>5
<1>5. ASSUME NEW b \in Boxes, Provision(b) PROVE TrustInv' /\ CacheKept
  BY <1>5 DEF Provision, StoresSome, OneKeySet, CacheKept
<1>6. CASE UNCHANGED trustVars
  BY <1>6 DEF trustVars, StoresSome, OneKeySet, CacheKept
<1>. QED
  BY <1>1, <1>2, <1>3, <1>4, <1>5, <1>6 DEF TNext

\* However many calls of keyfuncFor fetch a box's key set at once, the ones
\* that succeed all hold the cached set (the second critical section).
THEOREM RacesShareKeys == TrustSpec => []OneKeySet
<1>1. TrustInv => OneKeySet
  BY DEF TrustInv
<1>. QED
  BY InitTrustInv, NextTrustInv, <1>1, PTL DEF TrustSpec

\* A key set, once cached, stays: keyfuncFor never drops a set whose refresh
\* goroutine requests already rely on.
THEOREM CachedKeysStay == TrustSpec => [][CacheKept]_trustVars
  BY InitTrustInv, NextTrustInv, PTL DEF TrustSpec

-----------------------------------------------------------------------------
(* The surfaces: a copy of the document that is the running deployment's   *)
(* says what that deployment serves, because the flow and the sidecar are  *)
(* mounted from the same settings the document is built from.              *)

Boxed == [up : BOOLEAN, rill : BOOLEAN, cube : BOOLEAN, engine : BOOLEAN, oauth : BOOLEAN, snapshot : BOOLEAN]
Pages == [known : BOOLEAN, current : BOOLEAN, rill : BOOLEAN, cube : BOOLEAN, duckflight : BOOLEAN,
          filedrop : BOOLEAN, oauth : BOOLEAN]

CopyTrue == page.known /\ page.current => page.rill = box.rill /\ page.oauth = box.oauth

SurfaceInv == box \in Boxed /\ page \in Pages /\ CopyTrue /\ AdvertisedServed

LEMMA InitSurfaceInv == SInit => SurfaceInv
  BY DEF SInit, Down, NoPage, Silent, SurfaceInv, Boxed, Pages, CopyTrue, AdvertisedServed

LEMMA AnswerServed ==
  ASSUME SurfaceInv, NEW surface, NEW out, Answer(surface, out),
         surface \in {"snapshot", "snapshots"} /\ out # "invalid" => (box.rill <=> out # "not enabled"),
         surface \in {"oauth", "integrations"} => (box.oauth <=> out # "not enabled")
  PROVE  SurfaceInv'
<1>1. told'.surface = surface /\ told'.out = out /\ UNCHANGED <<box, page>>
  BY Zenon DEF Answer
<1>. QED
  BY <1>1, Zenon DEF SurfaceInv, CopyTrue, AdvertisedServed

LEMMA NextSurfaceInv == SurfaceInv /\ [SNext]_surfaceVars => SurfaceInv'
<1>. SUFFICES ASSUME SurfaceInv, [SNext]_surfaceVars PROVE SurfaceInv'
  OBVIOUS
<1>1. CASE Deploy
  <2>1. page' \in Pages /\ page'.current = FALSE
    BY <1>1, Zenon DEF Deploy, SurfaceInv, Pages
  <2>2. box' \in Boxed
    <3>1. CASE box' = Down
      BY <3>1 DEF Down, Boxed
    <3>2. CASE \E f \in Features :
                 box' = [up |-> TRUE, rill |-> f.rill # "false", cube |-> f.cube = "true", engine |-> f.token,
                         oauth |-> buildGoogleOAuth(f), snapshot |-> f.snapshot]
      <4>1. PICK f \in Features :
              box' = [up |-> TRUE, rill |-> f.rill # "false", cube |-> f.cube = "true", engine |-> f.token,
                      oauth |-> buildGoogleOAuth(f), snapshot |-> f.snapshot]
        BY <3>2, Zenon
      <4>2. /\ (f.rill # "false") \in BOOLEAN /\ (f.cube = "true") \in BOOLEAN /\ f.token \in BOOLEAN
            /\ buildGoogleOAuth(f) \in BOOLEAN /\ f.snapshot \in BOOLEAN
        BY Zenon DEF Features, buildGoogleOAuth
      <4>. QED
        BY <4>1, <4>2 DEF Boxed
    <3>. QED
      BY <1>1, <3>1, <3>2 DEF Deploy
  <2>. QED
    BY <2>1, <2>2, Zenon DEF SurfaceInv, CopyTrue, AdvertisedServed
<1>2. CASE ChangePair
  BY <1>2, Zenon DEF ChangePair, Silent, SurfaceInv, CopyTrue, AdvertisedServed
<1>3. CASE WorkspaceBootstrapHandler
  BY <1>3, Zenon DEF WorkspaceBootstrapHandler, BootstrapFromWorkspace, Silent, SurfaceInv, Boxed, Pages, CopyTrue,
              AdvertisedServed
<1>4. ASSUME NEW app \in {"rill", "cube", "other"}, NEW surface \in {"snapshot", "snapshots"},
             Answer(surface, sidecarTarget(app))
      PROVE  SurfaceInv'
  <2>1. sidecarTarget(app) # "invalid" => (box.rill <=> sidecarTarget(app) # "not enabled")
    BY DEF sidecarTarget
  <2>. QED
    BY <1>4, <2>1, AnswerServed, Zenon
<1>5. CASE Query
  BY <1>5, AnswerServed, Zenon DEF Query
<1>6. CASE GoogleOAuthStart
  BY <1>6, AnswerServed, Zenon DEF GoogleOAuthStart
<1>7. CASE GetOAuthClient
  BY <1>7, AnswerServed, Zenon DEF GetOAuthClient, state
<1>8. CASE UNCHANGED surfaceVars
  BY <1>8, Zenon DEF surfaceVars, SurfaceInv, CopyTrue, AdvertisedServed
<1>. QED
  BY <1>1, <1>2, <1>3, <1>4, <1>5, <1>6, <1>7, <1>8 DEF SNext, TriggerSnapshot, ListSnapshots

\* However often the deployment is replaced and the OAuth application changes,
\* the Console's current copy of the document names exactly the surfaces that
\* are not turned away (BootstrapFromWorkspace, sidecarTarget,
\* GoogleOAuthStartHandler).
THEOREM DocumentTrue == SurfacesSpec => []AdvertisedServed
<1>1. SurfaceInv => AdvertisedServed
  BY DEF SurfaceInv
<1>. QED
  BY InitSurfaceInv, NextSurfaceInv, <1>1, PTL DEF SurfacesSpec

=============================================================================
