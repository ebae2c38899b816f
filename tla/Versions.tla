------------------------------ MODULE Versions ------------------------------
(***************************************************************************)
(* The version history of pipelines (workspace/pipeline.go,                *)
(* workspace/pipelinemirror.go): what the Console lists for a pipeline is  *)
(* the history of its file, and a restore reads the file as of one of      *)
(* those commits and saves it like an edit.  A file is named after its     *)
(* pipeline and moves when the pipeline, or one with a like name, comes,   *)
(* goes or is renamed; so a path may have been another pipeline's.         *)
(*                                                                         *)
(* A commit sha is the commit's place in the repo.  The converge of a save *)
(* is one step here; PipelineMirror has its calls.                         *)
(***************************************************************************)
EXTENDS Naturals, Sequences, FiniteSetsExt, Functions

CONSTANTS Pipes,     \* row ids, in the order they are given out
          Defs,      \* what the editor may save: [name, type, cfg]
          Savers,    \* requests in flight
          fileHistoryLimit,
          MaxSaves   \* bound: saves and failed commits

ASSUME VersionsAssumption == Pipes \subseteq Nat \ {0} /\ IsFiniteSet(Pipes)

VARIABLES wired,   \* whether the box has a repo the mirror may write
          rows,    \* id -> the row, Gone when there is none
          commits, \* the repo's commits
          dialog,  \* id -> the commits a version list shows
          save,    \* the requests in flight
          had,     \* id -> the definitions its file has held, for the properties
          saves

hvars == <<wired, rows, commits, dialog, save, had, saves>>

Gone == [name |-> "", type |-> "", cfg |-> "", creds |-> ""]
NoSave == [pc |-> "idle"]
PipelineRow(d, creds) == [name |-> d.name, type |-> d.type, cfg |-> d.cfg, creds |-> creds]
Def(r) == [name |-> r.name, type |-> r.type, cfg |-> r.cfg]
NoFile == [id |-> 0, def |-> Def(Gone)]

HInit ==
  /\ wired \in BOOLEAN /\ commits = <<>> /\ saves = 0
  /\ rows = [p \in Pipes |-> Gone] /\ dialog = [p \in Pipes |-> {}]
  /\ save = [s \in Savers |-> NoSave] /\ had = [p \in Pipes |-> {}]

-----------------------------------------------------------------------------
(* The files *)

\* Lower case, and what is left of the rest.
nameFileSlug(name) == IF name = "Orders" THEN "orders" ELSE name
\* Two pipelines whose names give one slug both carry their id.
pipelineFileSlugs(R) ==
  [p \in {q \in Pipes : R[q] # Gone} |->
     IF \E q \in Pipes \ {p} : R[q] # Gone /\ nameFileSlug(R[q].name) = nameFileSlug(R[p].name)
     THEN <<nameFileSlug(R[p].name), p>> ELSE <<nameFileSlug(R[p].name)>>]

\* An upload pipeline is rendered as the filesystem pipeline that reads its
\* prefix, and not at all before it has files.
resolveFileUploads(R) ==
  [p \in Pipes |-> IF R[p].type # "file_upload" THEN R[p]
                   ELSE IF R[p].cfg = "empty" THEN Gone
                   ELSE [R[p] EXCEPT !.type = "filesystem", !.cfg = "uploads"]]
renderPipelineFile(p, r) == [id |-> p, def |-> Def(r)]

Touching(path, n) == {i \in 1..n : commits[i].path = path}
GetContentsAt(path, n) ==
  IF Touching(path, n) = {} THEN NoFile ELSE commits[Max(Touching(path, n))].file
\* The newest commits of a path, deletions included.
ListCommits(path) ==
  LET all == Touching(path, Len(commits))
  IN {i \in all : Cardinality({k \in all : k >= i}) <= fileHistoryLimit}

\* The credentials deployed, a box, its domain and its git credential.
boxMirrorClientFor == wired

\* The members of a set, one after the other.
InSomeOrder(S) == CHOOSE f \in [1..Cardinality(S) -> S] : IsInjective(f)
\* What converge commits: the files that differ, then the stale ones' removal.
Converge(R) ==
  LET resolved == resolveFileUploads(R)
      slugs == pipelineFileSlugs(resolved)
      want == {[path |-> slugs[p], file |-> renderPipelineFile(p, resolved[p])] : p \in DOMAIN slugs}
      put == {c \in want : GetContentsAt(c.path, Len(commits)) # c.file}
      stale == {commits[i].path : i \in 1..Len(commits)} \ {c.path : c \in want}
      drop == {[path |-> x, file |-> NoFile] :
                 x \in {y \in stale : GetContentsAt(y, Len(commits)) # NoFile}}
  IN InSomeOrder(put) \o InSomeOrder(drop)

-----------------------------------------------------------------------------
(* Reading the history *)

\* The path the pipeline has now.
versionClient(p) == boxMirrorClientFor /\ rows[p] # Gone
CurrentPath(p) == pipelineFileSlugs(rows)[p]
ListVersions(p) == IF versionClient(p) THEN ListCommits(CurrentPath(p)) ELSE dialog[p]
ListPipelineVersions(p) ==
  /\ dialog' = [dialog EXCEPT ![p] = ListVersions(p)]
  /\ UNCHANGED <<wired, rows, commits, save, had, saves>>

pipelineFromFile(file) == file.def
\* Mutant: whatever the path held at that commit.
VersionAtPath(p, sha) == {pipelineFromFile(GetContentsAt(CurrentPath(p), sha))} \ {Def(Gone)}
\* The definition recorded there, if the file is this pipeline's.
VersionAt(p, sha) ==
  LET file == GetContentsAt(CurrentPath(p), sha)
  IN IF file.id = p THEN {pipelineFromFile(file)} ELSE {}

-----------------------------------------------------------------------------
(* Saves *)

More == saves < MaxSaves /\ saves' = saves + 1
Even == UNCHANGED saves
Steps(s, r) == save' = [save EXCEPT ![s] = r]
Ends(s) == Steps(s, NoSave)
Job(pc, p, restore, def, old) ==
  [pc |-> pc, id |-> p, restore |-> restore, def |-> def, old |-> old]
Unique(p, name) == \A q \in Pipes \ {p} : rows[q].name # name
Unused == {p \in Pipes : rows[p] = Gone /\ had[p] = {}}
NextId == CHOOSE p \in Unused : \A q \in Unused : p <= q
Insert(r) == rows' = [rows EXCEPT ![NextId] = r]

CreateVersioned(s, d) ==
  /\ More /\ save[s].pc = "idle" /\ Unused # {} /\ Unique(0, d.name)
  /\ Insert(PipelineRow(d, d.type))
  /\ had' = [had EXCEPT ![NextId] = {Def(resolveFileUploads(rows')[NextId])}]
  /\ Steps(s, Job("sync", NextId, FALSE, d, Gone))
  /\ UNCHANGED <<wired, commits, dialog>>

EditVersioned(s, p, d) ==
  /\ More /\ save[s].pc = "idle" /\ rows[p] # Gone
  /\ Steps(s, Job("write", p, FALSE, d, rows[p]))
  /\ UNCHANGED <<wired, rows, commits, dialog, had>>

DeleteVersioned(s, p) ==
  /\ More /\ save[s].pc = "idle" /\ rows[p] # Gone
  /\ rows' = [rows EXCEPT ![p] = Gone]
  /\ Steps(s, Job("sync", p, FALSE, Def(Gone), rows[p]))
  /\ UNCHANGED <<wired, commits, dialog, had>>

\* RestorePipelineVersion reads the row, then the version, and hands it to
\* UpdatePipeline, which reads the row again.
RestorePipelineVersion(s, p, sha) ==
  /\ More /\ save[s].pc = "idle" /\ rows[p] # Gone
  /\ Steps(s, Job("version", p, TRUE, [sha |-> sha, type |-> rows[p].type], Gone))
  /\ UNCHANGED <<wired, rows, commits, dialog, had>>
\* A restore must not change a pipeline's source type.
SameType(r, d) == d.type = r.type
readVersion(s) ==
  LET r == save[s] IN
  /\ r.pc = "version" /\ Even
  /\ \/ /\ versionClient(r.id)
        /\ \E d \in VersionAt(r.id, r.def.sha) :
             SameType(r.def, d) /\ Steps(s, [r EXCEPT !.pc = "read", !.def = d])
     \/ /\ versionClient(r.id) => \A d \in VersionAt(r.id, r.def.sha) : ~SameType(r.def, d)
        /\ Ends(s)
  /\ UNCHANGED <<wired, rows, commits, dialog, had>>
updateRestored(s) ==
  LET r == save[s] IN
  /\ r.pc = "read" /\ Even
  /\ IF rows[r.id] = Gone THEN Ends(s) ELSE Steps(s, [r EXCEPT !.pc = "write", !.old = rows[r.id]])
  /\ UNCHANGED <<wired, rows, commits, dialog, had>>

\* Credentials come with a new type; an edit or a restore that carries none
\* keeps the ones it read.
Credentials(r) == IF ~r.restore /\ r.def.type # r.old.type THEN r.def.type ELSE r.old.creds
writeVersioned(s) ==
  LET r == save[s] IN
  /\ r.pc = "write" /\ Even
  /\ IF rows[r.id] = Gone \/ ~Unique(r.id, r.def.name)
     THEN Ends(s) /\ UNCHANGED <<rows, had>>
     ELSE /\ rows' = [rows EXCEPT ![r.id] = PipelineRow(r.def, Credentials(r))]
          /\ had' = [had EXCEPT ![r.id] = @ \cup {Def(resolveFileUploads(rows')[r.id])}]
          /\ Steps(s, [r EXCEPT !.pc = "sync"])
  /\ UNCHANGED <<wired, commits, dialog>>

\* A failed commit is compensated: an edit is written back, a creation is
\* deleted, and a deleted definition comes back under a new id.
Compensate(s, r) ==
  IF rows[r.id] = Gone
  THEN IF r.def = Def(Gone) /\ Unused # {} /\ Unique(0, r.old.name)
       THEN /\ Insert(r.old)
            /\ had' = [had EXCEPT ![NextId] = {Def(resolveFileUploads(rows')[NextId])}] /\ Ends(s)
       ELSE UNCHANGED <<rows, had>> /\ Ends(s)
  ELSE IF r.old # Gone /\ ~Unique(r.id, r.old.name) THEN UNCHANGED <<rows, had>> /\ Ends(s)
  ELSE rows' = [rows EXCEPT ![r.id] = r.old] /\ UNCHANGED had /\ Ends(s)
syncVersioned(s) ==
  LET r == save[s] IN
  /\ r.pc = "sync"
  /\ \/ /\ Even /\ Ends(s) /\ UNCHANGED <<rows, had>>
        /\ commits' = IF boxMirrorClientFor THEN commits \o Converge(rows) ELSE commits
     \/ boxMirrorClientFor /\ More /\ Compensate(s, r) /\ UNCHANGED commits
  /\ UNCHANGED <<wired, dialog>>

HNext ==
  \/ \E p \in Pipes : ListPipelineVersions(p)
  \/ \E s \in Savers :
       \/ \E d \in Defs : CreateVersioned(s, d) \/ \E p \in Pipes : EditVersioned(s, p, d)
       \/ \E p \in Pipes : DeleteVersioned(s, p) \/ \E sha \in dialog[p] : RestorePipelineVersion(s, p, sha)
       \/ readVersion(s) \/ updateRestored(s) \/ writeVersioned(s) \/ syncVersioned(s)
HSpec == HInit /\ [][HNext]_hvars

-----------------------------------------------------------------------------
(* Properties *)

\* s is about to write the definition of an old version.
Restoring(s) == save[s].pc = "write" /\ save[s].restore

\* A restore only ever gives a pipeline a definition its own file has held,
\* whatever was renamed, deleted or restored between the list and the click:
\* another pipeline's past, recorded at the same path, is refused (VersionAt,
\* ErrPipelineVersionMismatch).
RestoredOwn == \A s \in Savers : Restoring(s) => save[s].def \in had[save[s].id]

=============================================================================
