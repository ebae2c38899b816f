------------------------------ MODULE BoxRepo ------------------------------
(***************************************************************************)
(* The pipelines repository in the box's Gitea, and the commits the box's  *)
(* users make in it without the Console.                                   *)
(***************************************************************************)
EXTENDS PipelineStore

CONSTANTS MaxEdits,  \* bound: definition files edited or removed on the box
          MaxAdds,   \* bound: definition files added on the box
          MaxSeals,  \* bound: credential files re-encrypted on the box
          MaxFaults, \* bound: failed calls, lost answers, restarts
          MaxTrouble \* bound: edits, removals and faults together

ASSUME RepoAssumption ==
  /\ MaxEdits \in Nat /\ MaxAdds \in Nat /\ MaxSeals \in Nat
  /\ MaxFaults \in Nat /\ MaxTrouble \in Nat

VARIABLES yaml,    \* path -> File or None
          age,     \* path -> Blob or None
          sealed,  \* ciphertexts made so far
          commits, \* [edits, adds, seals]: commits made on the box
          faults   \* failures so far

repoVars == <<yaml, age, sealed, commits>>

Bounded == commits.edits + commits.seals + faults < MaxTrouble
MayFail == faults < MaxFaults /\ Bounded
MayEdit == commits.edits < MaxEdits /\ Bounded

\* PutContents and DeleteContents name the sha they replace (None: create);
\* Gitea answers 409 or 422, ErrRepoFileChanged, when that is not the blob at
\* the path.  Writes are not retried, and one whose answer is lost may have
\* been applied.
GiteaWrite(files, p, sha, new) ==
  LET applied == [files EXCEPT ![p] = new]
      outcome(r, f) == [res |-> r, files |-> f]
  IN  {o \in {outcome("ok", applied), outcome("changed", files),
              outcome("error", files), outcome("error", applied)} :
         /\ o.res = "ok" => files[p] = sha
         /\ o.res = "changed" => files[p] # sha
         /\ o.res = "error" => /\ MayFail
                               /\ o.files = applied => files[p] = sha}

\* A fault is counted for an outcome that is one.
Count(fault) == faults' = IF fault THEN faults + 1 ELSE faults

BoxTick(k) == commits' = [commits EXCEPT ![k] = @ + 1]

\* An edit keeps the header or drops it; a file without one does not acquire
\* it.  id 0 stands for every edit that cannot be taken over: broken YAML, no
\* or another id, a changed source type, an invalid source_config.
BoxEditFile(p) ==
  /\ MayEdit
  /\ yaml[p] # None
  /\ \E h \in {FALSE, yaml[p].hdr}, i \in {0, yaml[p].id}, n \in Names, c \in Cfgs :
       /\ File(h, i, n, c) # yaml[p]
       /\ yaml' = [yaml EXCEPT ![p] = File(h, i, n, c)]
  /\ BoxTick("edits")
  /\ UNCHANGED <<age, sealed, used>>

BoxDeleteFile(p) ==
  /\ MayEdit
  /\ yaml[p] # None
  /\ yaml' = [yaml EXCEPT ![p] = None]
  /\ BoxTick("edits")
  /\ UNCHANGED <<age, sealed, used>>

BoxAddFile(p) ==
  /\ commits.adds < MaxAdds
  /\ yaml[p] = None
  /\ \E i \in {0} \cup (IDs \ used), n \in Names, c \in Cfgs :
       /\ yaml' = [yaml EXCEPT ![p] = File(FALSE, i, n, c)]
       /\ used' = used \cup ({i} \cap IDs)
  /\ BoxTick("adds")
  /\ UNCHANGED <<age, sealed>>

\* Credentials encrypted on the box: the Console cannot read them.
BoxSealCredentials(p) ==
  /\ commits.seals < MaxSeals /\ Bounded
  /\ yaml[p] # None \/ age[p] # None
  /\ age' = [age EXCEPT ![p] = Blob("box", NoCreds, sealed + 1)]
  /\ sealed' = sealed + 1
  /\ BoxTick("seals")
  /\ UNCHANGED <<yaml, used>>

BoxCommit(p) ==
  /\ BoxEditFile(p) \/ BoxDeleteFile(p) \/ BoxAddFile(p) \/ BoxSealCredentials(p)
  /\ UNCHANGED <<row, credRender, defRender, faults>>

=============================================================================
