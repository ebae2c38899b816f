------------------------------ MODULE FileDrop ------------------------------
(***************************************************************************)
(* The files of one file_upload pipeline (workspace/filedrop.go): objects  *)
(* in the customer's bucket, and the list of them that the pipeline row    *)
(* keeps.  An upload streams its object first and then rewrites the whole  *)
(* row; the editor, open in another tab, rewrites it too.                  *)
(*                                                                         *)
(* A file is its name; "bad" stands for the names and sizes that are       *)
(* refused.  A storage call that fails may have done its work.             *)
(***************************************************************************)
EXTENDS Naturals

CONSTANTS Files, Jobs, MaxDrops \* bound: what users start and what fails

VARIABLES drow,    \* the row: its files and its other settings
          objs,    \* the objects of its prefix
          job,     \* the requests in flight
          kept,    \* files uploaded and not deleted since, the settings saved last
          raced,   \* a row was overwritten unseen
          shown,   \* the list the Console shows: the files flagged missing
          drops

dvars == <<drow, objs, job, kept, raced, shown, drops>>

NoPipeline == [files |-> {}, set |-> 0]
NoJob == [pc |-> "idle"]
Drop == drops < MaxDrops /\ drops' = drops + 1
Still == UNCHANGED drops

DInit ==
  /\ drow = [files |-> {}, set |-> 1] /\ objs = {}
  /\ job = [j \in Jobs |-> NoJob]
  /\ kept = drow /\ raced = FALSE /\ shown = {} /\ drops = 0

\* The row as it was read, and whether it has been written since.
Step(j, r) == job' = [job EXCEPT ![j] = r]
Answer(j) == Step(j, NoJob)

ValidateUploadFilename(f) == f # "bad"
\* ownedFileUploadPipeline
Owned == drow # NoPipeline
Accept(j, op, f) ==
  /\ Drop /\ job[j].pc = "idle" /\ Owned /\ ValidateUploadFilename(f)
  /\ Step(j, [pc |-> op, file |-> f, op |-> op, row |-> drow, stale |-> FALSE])
  /\ UNCHANGED <<drow, objs, kept, raced, shown>>
Upload(j, f) == Accept(j, "put", f)
Delete(j, f) == Accept(j, "delete", f)

\* Put and Delete of the object store.
Moved(j) == IF job[j].op = "put" THEN objs \cup {job[j].file} ELSE objs \ {job[j].file}
Store(j) ==
  /\ job[j].pc \in {"put", "delete"}
  /\ \/ Still /\ objs' = Moved(j) /\ Step(j, [job[j] EXCEPT !.pc = "reread"])
     \/ Drop /\ objs' \in {objs, Moved(j)} /\ Answer(j)
  /\ UNCHANGED <<drow, kept, raced, shown>>

\* Mutant: the row read before the upload is good enough.
ReadBefore(j) == job[j].row
ReadAgain(j) == drow
\* updateFiles reads the row again; a failed read keeps the first one.
Reread(j) ==
  /\ job[j].pc = "reread"
  /\ \/ Still /\ Owned /\ Step(j, [job[j] EXCEPT !.pc = "write", !.row = ReadAgain(j), !.stale = FALSE])
     \/ (Drop \/ (Still /\ ~Owned)) /\ Step(j, [job[j] EXCEPT !.pc = "write"])
  /\ UNCHANGED <<drow, objs, kept, raced, shown>>

\* UpdatePipeline writes every column of the row that was read.
UpdatePipeline(j, new) ==
  /\ drow' = new
  /\ raced' = (raced \/ job[j].stale)
  /\ job' = [k \in Jobs |-> IF k = j THEN NoJob
                            ELSE IF job[k] = NoJob THEN NoJob ELSE [job[k] EXCEPT !.stale = TRUE]]
updateFiles(j) ==
  /\ job[j].pc = "write"
  /\ LET f == job[j].file
         files == IF job[j].op = "put" THEN job[j].row.files \cup {f} ELSE job[j].row.files \ {f}
     IN \/ /\ Still /\ Owned /\ UpdatePipeline(j, [files |-> files, set |-> job[j].row.set])
           /\ kept' = [kept EXCEPT !.files = IF job[j].op = "put" THEN @ \cup {f} ELSE @ \ {f}]
        \/ (Drop \/ (Still /\ ~Owned)) /\ Answer(j) /\ UNCHANGED <<drow, kept, raced>>
  /\ UNCHANGED <<objs, shown>>

\* The editor sends back the files it read along with the new settings.
Open(j) ==
  /\ Drop /\ job[j].pc = "idle" /\ Owned
  /\ Step(j, [pc |-> "save", file |-> "", op |-> "save", row |-> drow, stale |-> FALSE])
  /\ UNCHANGED <<drow, objs, kept, raced, shown>>
SaveSettings(j) ==
  /\ job[j].pc = "save" /\ Still
  /\ \/ /\ Owned /\ UpdatePipeline(j, [job[j].row EXCEPT !.set = @ + 1])
        /\ kept' = [kept EXCEPT !.set = job[j].row.set + 1]
     \/ ~Owned /\ Answer(j) /\ UNCHANGED <<drow, kept, raced>>
  /\ UNCHANGED <<objs, shown>>

\* Deleting the pipeline leaves its objects in the bucket.
DeletePipelineRow ==
  /\ Drop /\ Owned
  /\ drow' = NoPipeline /\ kept' = NoPipeline
  /\ UNCHANGED <<objs, job, raced, shown>>
\* The customer empties part of their own bucket.
OutOfBand(f) ==
  /\ Drop /\ objs' = objs \ {f} /\ objs' # objs
  /\ UNCHANGED <<drow, job, kept, raced, shown>>

HeadObject(f) == f \in objs
\* A Head that fails flags nothing.
flagMissingFiles(files, unsure) == {f \in files : f \notin unsure /\ ~HeadObject(f)}
List ==
  /\ Owned
  /\ \E unsure \in {{}, drow.files} :
       /\ IF unsure = {} THEN Still ELSE Drop
       /\ shown' = flagMissingFiles(drow.files, unsure)
  /\ UNCHANGED <<drow, objs, job, kept, raced>>

\* What the worker is served: a filesystem source with one table per file,
\* nothing when there are no files.
resolveFileUploadPipeline(r) == {[glob |-> f] : f \in r.files}

DNext ==
  \/ \E j \in Jobs :
       \/ \E f \in Files : Upload(j, f) \/ Delete(j, f)
       \/ Store(j) \/ Reread(j) \/ updateFiles(j) \/ Open(j) \/ SaveSettings(j)
  \/ \E f \in Files : OutOfBand(f)
  \/ DeletePipelineRow \/ List

DropSpec == DInit /\ [][DNext]_dvars

\* An upload that was answered is served to the worker, a deleted file is not,
\* and saved settings stay, unless the row was written between another
\* request's last read and its write (updateFiles: "narrow (not eliminate) the
\* last-writer-wins window").
UploadsKept ==
  ~raced /\ Owned => /\ drow.set = kept.set
                     /\ resolveFileUploadPipeline(drow) = {[glob |-> f] : f \in kept.files}

=============================================================================
