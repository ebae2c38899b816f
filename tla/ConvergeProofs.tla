--------------------------- MODULE ConvergeProofs ---------------------------
(***************************************************************************)
(* Every step of a save, of the sweep and of the box keeps ConvergeInv     *)
(* when saves do not overlap, so that a save leaves the files equal to the *)
(* rows it listed, and no definition without the header is deleted.        *)
(***************************************************************************)
EXTENDS GitFirstProofs

\* PutFile.
LEMMA PutFileOK ==
  ASSUME OneAtATime, SealInv, ConvergeInv, NEW s \in Savers, PutFile(s),
         UNCHANGED <<serviceVars, sweep>>
  PROVE  ConvergeInv'
<1>. DEFINE c == conv[s]
            i == c.id
            p == PathOf(s, i)
            new == RenderPipelineFile(c.rows, i)
            d == [c EXCEPT !.sha = new]
<1>1. /\ IsConv(c) /\ SaverOK("put", c, yaml, age, commits)
      /\ Snapshot(c.rows, c.creds, c.renders, c.age)
      /\ yaml = [q \in Paths |-> yaml[q]] /\ "put" \in Working
      /\ p = FilePath(c.rows, i)
  BY SaverFacts DEF PutFile, PathOf, Working
<1>2. i \in Live(c.rows) \ c.todo /\ DefsOK(c.rows, c.yaml, c.todo, c.stale, yaml)
  BY <1>1 DEF SaverOK, WorkOK, LabelOK
<1>3. SameTree(d, c) /\ SameSeals(d, c) /\ d.todo = c.todo /\ d.stale = c.stale /\ d.id = i
  BY <1>1, ConvFieldNames DEF IsConv, SameTree, SameSnapshot, SameSeals
<1>4. p \in Paths /\ IsFile(new)
  BY <1>1, <1>2, SnapshotPaths DEF Snapshot, IsFile, RenderPipelineFile, File
<1>5. WriteYaml(s, p, c.sha, new, "record", d)
  BY DEF PutFile
<1>6. Held("put", c) = {i} /\ Held("record", d) = {}
  BY DEF Held
<1>. HIDE DEF c, i, p, new, d
<1>7. c.todo \ {i} = c.todo
  BY <1>2
<1>8. LET z == Put(yaml, p, new) IN
        /\ DefsOK(c.rows, c.yaml, c.todo, c.stale, z)
        /\ DefsDone(c.rows, c.todo, c.stale, {i}, yaml) => DefsDone(c.rows, c.todo, c.stale, {}, z)
  <2>1. LET z == Put(yaml, p, new) IN
        /\ DefsOK(c.rows, c.yaml, c.todo \ {i}, c.stale, z)
        /\ \A h \in SUBSET {i} :
             DefsDone(c.rows, c.todo, c.stale, h, yaml) => DefsDone(c.rows, c.todo \ {i}, c.stale, {}, z)
    BY <1>1, <1>2, <1>4, DefWritten DEF new
  <2>. QED
    BY <1>7, <2>1, Zenon
<1>9. SaverOK("record", d, Put(yaml, p, new), age, commits)
  BY <1>1, <1>2, <1>3, <1>6, <1>8, DefStep DEF Working
<1>. QED
  BY <1>4, <1>5, <1>9, WriteYamlOK, Zenon

\* The best-effort bookkeeping after a write.
LEMMA RecordDefinitionRenderOK ==
  ASSUME OneAtATime, SealInv, ConvergeInv, NEW s \in Savers, RecordDefinitionRender(s),
         UNCHANGED <<serviceVars, sweep>>
  PROVE  ConvergeInv'
<1>. DEFINE i == conv[s].id
            r == DefRender(PathOf(s, i), conv[s].sha, None)
<1>1. /\ row' = row /\ credRender' = credRender
      /\ defRender' = defRender \/ defRender' = [defRender EXCEPT ![i] = r]
  BY Zenon DEF RecordDefinitionRender, UpsertPipelineDefinitionRender, storeVars
<1>2. pc[s] = "record" /\ Goto(s, "work") /\ conv' = conv /\ UNCHANGED repoVars
  BY Zenon DEF RecordDefinitionRender
<1>3. /\ SaverOK("record", conv[s], yaml, age, commits) /\ TableOK /\ StoreInv
      /\ Snapshot(conv[s].rows, conv[s].creds, conv[s].renders, conv[s].age)
  BY <1>2, SaverFacts
<1>4. SaverOK("work", conv[s], yaml, age, commits)
  BY <1>3, ZenonT(30) DEF SaverOK, WorkOK, LabelOK, Held, Working
<1>5. i \in Live(conv[s].rows)
  BY <1>3, Zenon DEF SaverOK, WorkOK, LabelOK, Working
<1>6. r.path \in Paths
  BY <1>3, <1>5, SnapshotPaths DEF DefRender, PathOf
<1>7. TableOK'
  <2>. HIDE DEF r, i
  <2>. QED
    BY <1>1, <1>3, <1>6, TableStep
<1>. QED
  BY <1>2, <1>4, <1>7, SteppedOK

\* deleteStaleRendered, up to the delete.
LEMMA DeleteStaleRenderedOK ==
  ASSUME OneAtATime, SealInv, ConvergeInv, NEW s \in Savers, NEW p \in Paths, DeleteStaleRendered(s, p),
         UNCHANGED <<serviceVars, sweep>>
  PROVE  ConvergeInv'
<1>. DEFINE c == conv[s]
            d == [c EXCEPT !.stale = @ \ {p}]
            e == [c EXCEPT !.path = p]
<1>1. IsConv(c) /\ SaverOK("work", c, yaml, age, commits) /\ "work" \in Working /\ TableOK
  BY SaverFacts DEF DeleteStaleRendered, Working
<1>2. p \in c.stale /\ DefsOK(c.rows, c.yaml, c.todo, c.stale, yaml)
  BY <1>1 DEF DeleteStaleRendered, SaverOK, WorkOK
<1>3. TableOK'
  BY <1>1, TableSame DEF DeleteStaleRendered, storeVars
<1>4. SameTree(d, c) /\ SameSeals(d, c) /\ d.todo = c.todo /\ d.stale = c.stale \ {p}
  BY <1>1, ConvFieldNames DEF IsConv, SameTree, SameSnapshot, SameSeals
<1>5. SameTree(e, c) /\ SameSeals(e, c) /\ e.todo = c.todo /\ e.stale = c.stale /\ e.path = p
  BY <1>1, ConvFieldNames DEF IsConv, SameTree, SameSnapshot, SameSeals
<1>6. UNCHANGED <<storeVars, repoVars, faults>>
  BY DEF DeleteStaleRendered
<1>. HIDE DEF c, d, e
<1>7. Held("work", c) = {} /\ Held("work", d) = {} /\ Held("delete", e) = {}
  BY DEF Held
<1>8. CASE Goto(s, "compensate") /\ UNCHANGED conv
  <2>1. SaverOK("compensate", conv[s], yaml, age, commits)
    BY IdlyOK DEF Working
  <2>. QED
    BY <1>3, <1>6, <1>8, <2>1, SteppedOK
<1>9. CASE yaml[p] # None /\ ~yaml[p].hdr /\ Goto(s, "work") /\ Keep(s, d)
  <2>1. /\ DefsOK(c.rows, c.yaml, c.todo, c.stale \ {p}, yaml)
        /\ DefsDone(c.rows, c.todo, c.stale, {}, yaml) => DefsDone(c.rows, c.todo, c.stale \ {p}, {}, yaml)
    BY <1>2, <1>9, ZenonT(30) DEF DefsOK, DefsDone
  <2>2. SaverOK("work", d, yaml, age, commits)
    BY <1>1, <1>4, <1>7, <2>1, DefStep, Zenon DEF Working
  <2>. QED
    BY <1>3, <1>6, <1>9, <2>2, MovedOK
<1>10. CASE yaml[p] # None /\ yaml[p].hdr /\ Goto(s, "delete") /\ Keep(s, e)
  <2>1. c.yaml[p].hdr
    BY <1>2, <1>10 DEF DefsOK
  <2>2. SaverOK("delete", e, yaml, age, commits)
    BY <1>1, <1>2, <1>5, <1>7, <2>1, DefStep, ZenonT(30) DEF Working
  <2>. QED
    BY <1>3, <1>6, <1>10, <2>2, MovedOK
<1>. QED
  BY <1>8, <1>9, <1>10 DEF DeleteStaleRendered, c, d, e

\* The delete.
LEMMA DeleteFileOK ==
  ASSUME OneAtATime, SealInv, ConvergeInv, NEW s \in Savers, DeleteFile(s),
         UNCHANGED <<serviceVars, sweep>>
  PROVE  ConvergeInv'
<1>. DEFINE c == conv[s]
            p == c.path
            d == [c EXCEPT !.stale = @ \ {p}]
<1>1. /\ IsConv(c) /\ SaverOK("delete", c, yaml, age, commits) /\ "delete" \in Working
      /\ Snapshot(c.rows, c.creds, c.renders, c.age) /\ yaml = [q \in Paths |-> yaml[q]]
  BY SaverFacts DEF DeleteFile, Working
<1>2. p \in c.stale /\ DefsOK(c.rows, c.yaml, c.todo, c.stale, yaml)
  BY <1>1 DEF SaverOK, WorkOK, LabelOK
<1>3. WriteYaml(s, p, c.yaml[p], None, "work", d)
  BY DEF DeleteFile
<1>. HIDE DEF p
<1>4. SameTree(d, c) /\ SameSeals(d, c) /\ d.todo = c.todo /\ d.stale = c.stale \ {p}
  BY <1>1, ConvFieldNames DEF IsConv, SameTree, SameSnapshot, SameSeals
<1>. HIDE DEF c, d
<1>5. Held("delete", c) = {} /\ Held("work", d) = {}
  BY DEF Held
<1>6. LET z == Put(yaml, p, None) IN
        /\ DefsOK(c.rows, c.yaml, c.todo, c.stale \ {p}, z)
        /\ DefsDone(c.rows, c.todo, c.stale, {}, yaml) => DefsDone(c.rows, c.todo, c.stale \ {p}, {}, z)
  BY <1>1, <1>2, SnapshotPaths, DefDeleted
<1>7. SaverOK("work", d, Put(yaml, p, None), age, commits)
  BY <1>1, <1>4, <1>5, <1>6, DefStep DEF Working
<1>. QED
  BY <1>3, <1>7, WriteYamlOK, Zenon

\* Rows, credentials and bookkeeping are read.
LEMMA ListsOK ==
  ASSUME OneAtATime, SealInv, ConvergeInv, NEW s \in Savers,
         ListPipelines(s) \/ ListCredentials(s) \/ GetCredentialRenders(s) \/ DefinitionRenderRows(s),
         UNCHANGED <<serviceVars, sweep>>
  PROVE  ConvergeInv'
<1>1. IsConv(conv[s]) /\ Snapshot(conv[s].rows, conv[s].creds, conv[s].renders, conv[s].age) /\ TableOK
  BY SaverFacts
<1>2. TableOK' /\ UNCHANGED repoVars
  BY <1>1, TableSame DEF ListPipelines, ListCredentials, GetCredentialRenders, DefinitionRenderRows, storeVars
<1>3. ASSUME NEW l, NEW c, Goto(s, l), Keep(s, c), l \notin Working,
             Snapshot(c.rows, c.creds, c.renders, c.age)
      PROVE  ConvergeInv'
  <2>1. SaverOK(l, c, yaml, age, commits)
    BY <1>3 DEF SaverOK
  <2>. QED
    BY <1>2, <1>3, <2>1, MovedOK
<1>4. CASE ListPipelines(s)
  <2>. DEFINE L == ListPipelinesByCustomer
              c == [NoConv EXCEPT !.rows = L]
  <2>1. \A i \in Live(L) : L[i].name \in Names /\ L[i].cfg \in Cfgs
    BY <1>1 DEF ListPipelinesByCustomer, Live, TableOK, IsRow, Row
  <2>. HIDE DEF L
  <2>2. c.rows = L /\ c.creds = [i \in IDs |-> NoCreds] /\ c.renders = [i \in IDs |-> None]
        /\ c.age = [p \in Paths |-> None]
    BY DEF NoConv
  <2>. HIDE DEF c
  <2>3. Snapshot(c.rows, c.creds, c.renders, c.age)
    BY <2>1, <2>2 DEF Snapshot, Secrets
  <2>. QED
    BY <1>3, <1>4, <2>3, Zenon DEF ListPipelines, Working, c, L
<1>5. CASE ListCredentials(s)
  <2>. DEFINE K == ListPipelineCredentialsByCustomer
              c == [conv[s] EXCEPT !.creds = K]
  <2>1. \A i \in IDs : K[i] \in Secrets
    BY <1>1 DEF ListPipelineCredentialsByCustomer, TableOK, IsRow, Secrets
  <2>. HIDE DEF K
  <2>2. c.rows = conv[s].rows /\ c.creds = K /\ c.renders = conv[s].renders /\ c.age = conv[s].age
    BY <1>1, ConvFieldNames DEF IsConv
  <2>. HIDE DEF c
  <2>3. Snapshot(c.rows, c.creds, c.renders, c.age)
    BY <1>1, <2>1, <2>2, Zenon DEF Snapshot
  <2>. QED
    BY <1>3, <1>5, <2>3, Zenon DEF ListCredentials, Working, c, K
<1>6. CASE GetCredentialRenders(s)
  <2>. DEFINE c == [conv[s] EXCEPT !.renders = credRender]
  <2>2. c.rows = conv[s].rows /\ c.creds = conv[s].creds /\ c.renders = credRender /\ c.age = conv[s].age
    BY <1>1, ConvFieldNames DEF IsConv
  <2>. HIDE DEF c
  <2>3. Snapshot(c.rows, c.creds, c.renders, c.age)
    BY <1>1, <2>2 DEF Snapshot, TableOK
  <2>. QED
    BY <1>3, <1>6, <2>3, Zenon DEF GetCredentialRenders, Working, c
<1>7. CASE DefinitionRenderRows(s)
  <2>. DEFINE c == [conv[s] EXCEPT !.defs = defRender]
  <2>2. c.rows = conv[s].rows /\ c.creds = conv[s].creds /\ c.renders = conv[s].renders /\ c.age = conv[s].age
    BY <1>1, ConvFieldNames DEF IsConv
  <2>. HIDE DEF c
  <2>3. Snapshot(c.rows, c.creds, c.renders, c.age)
    BY <1>1, <2>2
  <2>. QED
    BY <1>3, <1>7, <2>3, Zenon DEF DefinitionRenderRows, Working, c
<1>. QED
  BY <1>4, <1>5, <1>6, <1>7

\* The tree is read, and the work begins.
LEMMA ListTreeOK ==
  ASSUME OneAtATime, SealInv, ConvergeInv, NEW s \in Savers, ListTree(s),
         UNCHANGED <<serviceVars, sweep>>
  PROVE  ConvergeInv'
<1>. DEFINE b == conv[s]
            t1 == Live(b.rows)
            t2 == {p \in Paths \ Desired(s) : yaml[p] # None}
            t3 == Rendered(s)
            t4 == {p \in Paths \ DesiredAge(s) : age[p] # None}
            n == IF pc[s] = "retry" THEN b.tries + 1 ELSE 0
            c == [b EXCEPT !.yaml = yaml, !.age = age, !.seen = commits, !.todo = t1,
                           !.stale = t2, !.credTodo = t3, !.staleAge = t4, !.tries = n]
<1>1. IsConv(b) /\ Snapshot(b.rows, b.creds, b.renders, b.age) /\ TableOK
  BY SaverFacts
<1>2. TableOK' /\ UNCHANGED repoVars /\ Goto(s, "work")
  BY <1>1, TableSame DEF ListTree, storeVars
<1>3. Keep(s, c)
  BY ZenonT(30) DEF ListTree
<1>4. Desired(s) = Targets(b.rows) /\ Rendered(s) = Sealing(b.rows, b.creds)
      /\ DesiredAge(s) = SealTargets(b.rows, b.creds)
  BY DEF Desired, Targets, Rendered, Sealing, DesiredAge, SealTargets, External, PathOf
<1>5. /\ t2 = {p \in Paths \ Targets(b.rows) : yaml[p] # None}
      /\ t3 = Sealing(b.rows, b.creds)
      /\ t4 = {p \in Paths \ SealTargets(b.rows, b.creds) : age[p] # None}
  BY <1>4
<1>. HIDE DEF b, t2, t3, t4, n
<1>6. /\ c.rows = b.rows /\ c.creds = b.creds /\ c.renders = b.renders /\ c.age = age
      /\ c.yaml = yaml /\ c.seen = commits /\ c.todo = t1 /\ c.stale = t2
      /\ c.credTodo = t3 /\ c.staleAge = t4
  <2>. HIDE DEF t1
  <2>. QED
    BY <1>1, ConvFieldNames DEF IsConv
<1>. HIDE DEF c
<1>7. Snapshot(b.rows, b.creds, b.renders, age)
  BY <1>1 DEF Snapshot, ConvergeInv, FilesOK
<1>8. DefsOK(b.rows, yaml, t1, t2, yaml) /\ DefsDone(b.rows, t1, t2, {}, yaml)
  BY <1>5 DEF DefsOK, DefsDone
<1>9. SealsOK(b.rows, b.creds, t3, t4) /\ SealsDone(b.rows, b.creds, b.renders, age, t3, t4, age)
  BY <1>5 DEF SealsOK, SealsDone
<1>10. SeenOK(commits, commits)
  BY DEF SeenOK, SealInv, RepoInv
<1>11. LabelOK("work", c) /\ Held("work", c) = {}
  BY DEF LabelOK, Held
<1>12. WorkOK("work", c, yaml, age, commits)
  BY <1>6, <1>8, <1>9, <1>10, <1>11, ZenonT(30) DEF WorkOK
<1>13. SaverOK("work", c, yaml, age, commits)
  BY <1>6, <1>7, <1>12 DEF SaverOK
<1>. QED
  BY <1>2, <1>3, <1>13, MovedOK

\* upsertCredentialFile.
LEMMA UpsertCredentialFileOK ==
  ASSUME OneAtATime, SealInv, ConvergeInv, NEW s \in Savers, NEW i \in IDs, UpsertCredentialFile(s, i),
         UNCHANGED <<serviceVars, sweep>>
  PROVE  ConvergeInv'
<1>. DEFINE c == conv[s]
            p == PathOf(s, i)
            new == Blob("console", c.creds[i], sealed + 1)
            rest == [c EXCEPT !.credTodo = @ \ {i}]
            d == [rest EXCEPT !.id = i, !.sha = new]
<1>1. /\ IsConv(c) /\ SaverOK("work", c, yaml, age, commits) /\ "work" \in Working \ {"put"}
      /\ Snapshot(c.rows, c.creds, c.renders, c.age)
      /\ age = [q \in Paths |-> age[q]] /\ TableOK /\ StoreInv
      /\ p = FilePath(c.rows, i)
  BY SaverFacts DEF UpsertCredentialFile, DefinitionsDone, PathOf, Working
<1>2. i \in c.credTodo /\ SealsOK(c.rows, c.creds, c.credTodo, c.staleAge)
  BY <1>1 DEF UpsertCredentialFile, SaverOK, WorkOK
<1>3. SameTree(rest, c) /\ SameDefs(rest, c) /\ rest.credTodo = c.credTodo \ {i} /\ rest.staleAge = c.staleAge
  BY <1>1, ConvFieldNames DEF IsConv, SameTree, SameSnapshot, SameDefs
<1>4. new \in Blobs /\ new # None /\ new.creds = c.creds[i]
  BY <1>1, StoreAssumption DEF Blob, Blobs, Snapshot, ConvergeInv, FilesOK
<1>5. /\ SameTree(d, c) /\ SameDefs(d, c) /\ d.credTodo = c.credTodo \ {i} /\ d.staleAge = c.staleAge
      /\ d.id = i /\ d.sha = new
  <2>. HIDE DEF new
  <2>. QED
    BY <1>1, ConvFieldNames DEF IsConv, SameTree, SameSnapshot, SameDefs
<1>. HIDE DEF c, p, new, rest, d
<1>6. \A j \in Live(c.rows) : FilePath(c.rows, j) \in Paths
  BY <1>1, SnapshotPaths
<1>7. i \in Live(c.rows)
  BY <1>2 DEF SealsOK, Sealing
<1>8. ASSUME Goto(s, "work"), Keep(s, rest), UNCHANGED repoVars, TableOK',
             LeftToBox(c.rows, c.renders, c.age, i) \/ (c.age[p] # None /\ c.age[p].creds = c.creds[i])
      PROVE  ConvergeInv'
  <2>1. /\ SealsOK(c.rows, c.creds, c.credTodo \ {i}, c.staleAge)
        /\ SealsDone(c.rows, c.creds, c.renders, c.age, c.credTodo, c.staleAge, age) =>
             SealsDone(c.rows, c.creds, c.renders, c.age, c.credTodo \ {i}, c.staleAge, age)
    BY <1>1, <1>2, <1>8, SealSkipped
  <2>2. SaverOK("work", rest, yaml, age, commits)
    BY <1>1, <1>3, <2>1, SealStep
  <2>. QED
    BY <1>8, <2>2, MovedOK
<1>9. CASE /\ Current(s, i) /\ Goto(s, "work") /\ Keep(s, rest)
           /\ UNCHANGED <<storeVars, repoVars, faults>>
  <2>1. TableOK'
    BY <1>1, <1>9, TableSame DEF storeVars
  <2>2. c.age[p] # None /\ c.renders[i] = CredRender(c.creds[i], c.age[p])
    BY <1>9, <1>1 DEF Current, c, p
  <2>3. c.age[p] \in Blobs /\ c.creds[i] \in Secrets
    BY <1>1, <1>6, <1>7, <2>2 DEF Snapshot
  <2>4. c.renders[i] # None /\ c.renders[i].fp = c.creds[i] /\ c.renders[i].sha = c.age[p]
    BY <2>2, <2>3, StoreAssumption DEF CredRender
  <2>5. c.age[p].creds = c.creds[i]
    BY <1>1, <2>4 DEF Snapshot
  <2>. QED
    BY <1>8, <1>9, <2>1, <2>2, <2>5, Zenon
<1>10. CASE /\ Foreign(s, i) /\ Goto(s, "work") /\ Keep(s, rest) /\ UNCHANGED repoVars
            /\ SetPipelineCredentialsExternal(i, TRUE) \/ UNCHANGED storeVars
  <2>1. LeftToBox(c.rows, c.renders, c.age, i)
    BY <1>10 DEF Foreign, LeftToBox, PathOf, c
  <2>2. TableOK'
    <3>1. CASE SetPipelineCredentialsExternal(i, TRUE)
      <4>1. IsRow(Row(row[i].name, row[i].cfg, row[i].creds, TRUE))
        BY <1>1, <3>1 DEF SetPipelineCredentialsExternal, TableOK, IsRow, Row
      <4>. QED
        BY <1>1, <3>1, <4>1, TableStep, Zenon DEF SetPipelineCredentialsExternal
    <3>2. CASE UNCHANGED storeVars
      BY <1>1, <3>2, TableSame DEF storeVars
    <3>. QED
      BY <1>10, <3>1, <3>2, Zenon
  <2>. QED
    BY <1>8, <1>10, <2>1, <2>2, ZenonT(30)
<1>11. CASE WriteAge(s, p, c.age[p], new, "credRecord", d) /\ sealed' = sealed + 1
  <2>. DEFINE z == Put(age, p, new)
  <2>1. /\ SealsOK(c.rows, c.creds, c.credTodo \ {i}, c.staleAge)
        /\ SealsDone(c.rows, c.creds, c.renders, c.age, c.credTodo, c.staleAge, age) =>
             SealsDone(c.rows, c.creds, c.renders, c.age, c.credTodo \ {i}, c.staleAge, z)
    <3>1. z = Put(age, FilePath(c.rows, i), new) /\ age = [q \in Paths |-> age[q]]
      BY <1>1
    <3>2. new # None /\ new.creds = c.creds[i]
      BY <1>4
    <3>. HIDE DEF z
    <3>3. ASSUME NEW rs, NEW cr, NEW ct, NEW sa, rs = c.rows, cr = c.creds, ct = c.credTodo, sa = c.staleAge
          PROVE  /\ SealsOK(rs, cr, ct \ {i}, sa)
                 /\ SealsDone(rs, cr, c.renders, c.age, ct, sa, age) =>
                      SealsDone(rs, cr, c.renders, c.age, ct \ {i}, sa, Put(age, FilePath(rs, i), new))
      <4>1. SealsOK(rs, cr, ct, sa) /\ i \in ct /\ new.creds = cr[i] /\ \A j \in Live(rs) : FilePath(rs, j) \in Paths
        BY <1>2, <1>6, <3>2, <3>3
      <4>. HIDE <3>3
      <4>. QED
        BY <3>1, <3>2, <4>1, SealWritten, ZenonT(30)
    <3>. QED
      BY <3>1, <3>3
  <2>. HIDE DEF z
  <2>2. SaverOK("credRecord", d, yaml, z, commits)
    <3>1. d.sha.creds = c.creds[d.id]
      BY <1>4, <1>5
    <3>2. SealsOK(c.rows, c.creds, d.credTodo, d.staleAge)
      BY <1>5, <2>1
    <3>3. SealsDone(c.rows, c.creds, c.renders, c.age, c.credTodo, c.staleAge, age) =>
            SealsDone(c.rows, c.creds, c.renders, c.age, d.credTodo, d.staleAge, z)
      BY <1>5, <2>1
    <3>4. SaverOK("work", c, yaml, age, commits) /\ "work" \in Working \ {"put"} /\ SameTree(d, c) /\ SameDefs(d, c)
      BY <1>1, <1>5
    <3>. QED
      BY <3>1, <3>2, <3>3, <3>4, SealStep
  <2>3. sealed' \in Nat
    BY <1>11 DEF ConvergeInv, FilesOK
  <2>. QED
    BY <1>4, <1>11, <2>2, <2>3, WriteAgeOK, Zenon DEF z
<1>. QED
  BY <1>9, <1>10, <1>11, Zenon DEF UpsertCredentialFile, c, p, new, rest, d

\* The bookkeeping of a credential file names the blob just written.
LEMMA RecordCredentialRenderOK ==
  ASSUME OneAtATime, SealInv, ConvergeInv, NEW s \in Savers, RecordCredentialRender(s),
         UNCHANGED <<serviceVars, sweep>>
  PROVE  ConvergeInv'
<1>. DEFINE c == conv[s]
            r == CredRender(c.creds[c.id], c.sha)
<1>1. pc[s] = "credRecord" /\ Goto(s, "work") /\ conv' = conv /\ UNCHANGED repoVars
  BY Zenon DEF RecordCredentialRender
<1>2. row' = row /\ defRender' = defRender /\ (credRender' = credRender \/ credRender' = [credRender EXCEPT ![c.id] = r])
  BY Zenon DEF RecordCredentialRender, UpsertPipelineCredentialRender, storeVars
<1>3. SaverOK("credRecord", c, yaml, age, commits) /\ TableOK /\ StoreInv
  BY <1>1, SaverFacts
<1>4. WorkOK("credRecord", c, yaml, age, commits)
  BY <1>3 DEF SaverOK, Working
<1>5. r.sha.creds = r.fp
  BY <1>4, ZenonT(30) DEF WorkOK, LabelOK, CredRender
<1>6. SaverOK("work", c, yaml, age, commits)
  BY <1>3, ZenonT(30) DEF SaverOK, WorkOK, LabelOK, Held, Working
<1>7. TableOK'
  <2>. HIDE DEF r
  <2>. QED
    BY <1>2, <1>3, <1>5, TableStep, ZenonT(30)
<1>. QED
  BY <1>1, <1>6, <1>7, SteppedOK, Zenon

\* deleteStale.
LEMMA DeleteStaleOK ==
  ASSUME OneAtATime, SealInv, ConvergeInv, NEW s \in Savers, NEW p \in Paths, DeleteStale(s, p),
         UNCHANGED <<serviceVars, sweep>>
  PROVE  ConvergeInv'
<1>. DEFINE c == conv[s]
            d == [c EXCEPT !.staleAge = @ \ {p}]
<1>1. /\ IsConv(c) /\ SaverOK("work", c, yaml, age, commits) /\ "work" \in Working \ {"put"}
      /\ Snapshot(c.rows, c.creds, c.renders, c.age) /\ age = [q \in Paths |-> age[q]]
  BY SaverFacts DEF DeleteStale, DefinitionsDone, Working
<1>2. p \in c.staleAge /\ SealsOK(c.rows, c.creds, c.credTodo, c.staleAge)
  BY <1>1 DEF DeleteStale, SaverOK, WorkOK
<1>3. WriteAge(s, p, c.age[p], None, "work", d) /\ sealed' \in Nat
  BY DEF DeleteStale, ConvergeInv, FilesOK
<1>4. SameTree(d, c) /\ SameDefs(d, c) /\ d.credTodo = c.credTodo /\ d.staleAge = c.staleAge \ {p}
  BY <1>1, ConvFieldNames DEF IsConv, SameTree, SameSnapshot, SameDefs
<1>. HIDE DEF c, d
<1>. DEFINE z == Put(age, p, None)
<1>5. /\ SealsOK(c.rows, c.creds, c.credTodo, c.staleAge \ {p})
      /\ SealsDone(c.rows, c.creds, c.renders, c.age, c.credTodo, c.staleAge, age) =>
           SealsDone(c.rows, c.creds, c.renders, c.age, c.credTodo, c.staleAge \ {p}, z)
  BY <1>1, <1>2, SnapshotPaths, SealDeleted
<1>. HIDE DEF z
<1>6. SaverOK("work", d, yaml, z, commits)
  BY <1>1, <1>4, <1>5, SealStep
<1>. QED
  BY <1>3, <1>6, WriteAgeOK, Zenon DEF z

\* Nothing is left to do.
LEMMA ConvergedOK ==
  ASSUME OneAtATime, SealInv, ConvergeInv, NEW s \in Savers, Converged(s),
         UNCHANGED <<serviceVars, sweep>>
  PROVE  ConvergeInv'
<1>1. SaverOK("work", conv[s], yaml, age, commits) /\ TableOK
  BY SaverFacts DEF Converged, DefinitionsDone
<1>2. SaverOK("done", conv[s], yaml, age, commits)
  BY <1>1, ZenonT(30) DEF Converged, DefinitionsDone, SaverOK, WorkOK, LabelOK, Held, Working
<1>3. TableOK' /\ Goto(s, "done") /\ conv' = conv /\ UNCHANGED repoVars
  BY <1>1, TableSame, Zenon DEF Converged, storeVars
<1>. QED
  BY <1>2, <1>3, SteppedOK

\* A request that has read nothing.
LEMMA NoSnapshot == Snapshot(NoConv.rows, NoConv.creds, NoConv.renders, NoConv.age)
<1>1. /\ NoConv.rows = [i \in IDs |-> None] /\ NoConv.creds = [i \in IDs |-> NoCreds]
      /\ NoConv.renders = [i \in IDs |-> None] /\ NoConv.age = [p \in Paths |-> None]
  BY DEF NoConv
<1>. QED
  BY <1>1 DEF Snapshot, Secrets, Live

\* A step around the converge: a row statement, and another request at most.
LEMMA ServiceStep ==
  ASSUME OneAtATime, SealInv, ConvergeInv, NEW s \in Savers, NEW l, l \notin Working, Goto(s, l),
         conv' = conv \/ Keep(s, NoConv), UNCHANGED <<repoVars, sweep>>, TableOK',
         NEW q, ReqOK(q), req' = req \/ req' = [req EXCEPT ![s] = q]
  PROVE  ConvergeInv'
<1>1. yaml' = yaml /\ age' = age /\ sealed' = sealed /\ commits' = commits /\ sweep' = sweep
  BY DEF repoVars
<1>2. \A t \in Savers : SaverOK(pc'[t], conv'[t], yaml', age', commits')
  <2>1. CASE conv' = conv
    <3>1. Keep(s, conv[s]) /\ SaverOK(l, conv[s], yaml', age', commits')
      BY <2>1, IdlyOK DEF SealInv, ConvInv, Keep
    <3>. QED
      BY <3>1, OnlySaver, Zenon DEF SealInv
  <2>2. CASE Keep(s, NoConv)
    <3>1. SaverOK(l, NoConv, yaml', age', commits')
      BY NoSnapshot DEF SaverOK
    <3>. QED
      BY <2>2, <3>1, OnlySaver, Zenon DEF SealInv
  <2>. QED
    BY <2>1, <2>2, ZenonT(30)
<1>3. FilesOK'
  BY <1>1 DEF ConvergeInv, FilesOK, IsFile
<1>4. ReqsOK'
  <2>1. req' = [t \in Savers |-> req'[t]] /\ \A t \in Savers : req'[t] \in {req[t], q}
    BY DEF ConvergeInv, ReqsOK
  <2>2. \A t \in Savers : ReqOK(req'[t])
    BY <2>1 DEF ConvergeInv, ReqsOK
  <2>. QED
    BY <2>1, <2>2 DEF ReqsOK
<1>5. SweepOK(sweep)'
  BY <1>1, Zenon DEF ConvergeInv
<1>. QED
  BY <1>2, <1>3, <1>4, <1>5, Zenon DEF ConvergeInv

\* No request at all.
LEMMA NoReqOK == ReqOK(NoReq)
  BY DEF ReqOK, NoReq, Req

\* A request begins.
LEMMA BeginsOK ==
  ASSUME OneAtATime, SealInv, ConvergeInv, NEW s \in Savers, Begins(s), UNCHANGED sweep
  PROVE  ConvergeInv'
<1>0. TableOK /\ StoreInv
  BY SaverFacts
<1>1. CASE CreatePipeline(s)
  <2>1. PICK i \in IDs, n \in Names, c \in Cfgs, k \in Creds \cup {NoCreds} :
          /\ CreateRow(i, Row(n, c, k, FALSE))
          /\ req' = [req EXCEPT ![s] = Req("create", i, None, Row(n, c, k, FALSE), FALSE)]
    BY <1>1, Zenon DEF CreatePipeline
  <2>2. Goto(s, "list") /\ conv' = conv /\ UNCHANGED repoVars
    BY <1>1, Zenon DEF CreatePipeline
  <2>. DEFINE r == Row(n, c, k, FALSE)
              q == Req("create", i, None, r, FALSE)
  <2>3. IsRow(r) /\ ReqOK(q)
    BY DEF IsRow, Row, ReqOK, Req, Secrets
  <2>4. row' = [row EXCEPT ![i] = r] /\ credRender' = credRender /\ defRender' = defRender
    BY <2>1 DEF CreateRow, Row
  <2>. HIDE DEF r, q
  <2>5. TableOK'
    BY <1>0, <2>3, <2>4, TableStep, Zenon
  <2>. QED
    BY <2>1, <2>2, <2>3, <2>5, ServiceStep, Zenon DEF Working, r, q
<1>2. ASSUME NEW i \in IDs, UpdatePipeline(s, i) PROVE ConvergeInv'
  <2>1. IsRow(row[i])
    BY <1>0, <1>2 DEF TableOK, UpdatePipeline
  <2>2. PICK n \in Names, c \in Cfgs, k \in Secrets, t \in BOOLEAN :
          req' = [req EXCEPT ![s] = Req("update", i, row[i], Row(n, c, k, FALSE), t)]
    BY <1>2, <2>1, Zenon DEF UpdatePipeline, IsRow, Secrets
  <2>3. Goto(s, "write") /\ conv' = conv /\ UNCHANGED <<storeVars, repoVars>>
    BY <1>2, ZenonT(30) DEF UpdatePipeline
  <2>. DEFINE q == Req("update", i, row[i], Row(n, c, k, FALSE), t)
  <2>4. ReqOK(q)
    BY <2>1 DEF ReqOK, Req, IsRow, Row
  <2>. HIDE DEF q
  <2>5. TableOK'
    BY <1>0, <2>3, TableSame DEF storeVars
  <2>. QED
    BY <2>2, <2>3, <2>4, <2>5, ServiceStep, Zenon DEF Working, q
<1>3. ASSUME NEW i \in IDs, DeletePipeline(s, i) PROVE ConvergeInv'
  <2>1. IsRow(row[i])
    BY <1>0, <1>3 DEF TableOK, DeletePipeline
  <2>. DEFINE q == Req("delete", i, row[i], None, FALSE)
  <2>2. Goto(s, "write") /\ conv' = conv /\ UNCHANGED <<storeVars, repoVars>> /\ req' = [req EXCEPT ![s] = q]
    BY <1>3, Zenon DEF DeletePipeline
  <2>3. ReqOK(q)
    BY <2>1 DEF ReqOK, Req
  <2>. HIDE DEF q
  <2>4. TableOK'
    BY <1>0, <2>2, TableSame DEF storeVars
  <2>. QED
    BY <2>2, <2>3, <2>4, ServiceStep, Zenon DEF Working
<1>. QED
  BY <1>1, <1>2, <1>3 DEF Begins

\* Row statements of a request: UpdatePipeline.
LEMMA UpdateRowOK ==
  ASSUME TableOK, StoreInv, NEW i, NEW r, IsRow(r), UpdateRow(i, r)
  PROVE  TableOK'
<1>. DEFINE x == Row(r.name, r.cfg, r.creds, row[i].ext)
<1>1. IsRow(x)
  BY DEF IsRow, Row
<1>2. row' = [row EXCEPT ![i] = x] /\ credRender' = credRender /\ defRender' = defRender
  BY DEF UpdateRow
<1>. HIDE DEF x
<1>. QED
  BY <1>1, <1>2, TableStep, Zenon

\* DeletePipeline.
LEMMA DeleteRowOK ==
  ASSUME TableOK, StoreInv, NEW i, DeleteRow(i)
  PROVE  TableOK'
  BY TableStep, Zenon DEF DeleteRow

\* CreatePipeline.
LEMMA CreateRowOK ==
  ASSUME TableOK, StoreInv, NEW i, NEW r, IsRow(r), CreateRow(i, r)
  PROVE  TableOK'
<1>. DEFINE x == Row(r.name, r.cfg, r.creds, FALSE)
<1>1. IsRow(x)
  BY DEF IsRow, Row
<1>2. row' = [row EXCEPT ![i] = x] /\ credRender' = credRender /\ defRender' = defRender
  BY DEF CreateRow
<1>. HIDE DEF x
<1>. QED
  BY <1>1, <1>2, TableStep, ZenonT(30)

\* The reclaim of a credential file.
LEMMA FlagOK ==
  ASSUME TableOK, StoreInv, NEW i, NEW e, SetPipelineCredentialsExternal(i, e)
  PROVE  TableOK'
<1>. DEFINE x == Row(row[i].name, row[i].cfg, row[i].creds, e)
<1>1. i \in IDs => IsRow(x)
  BY DEF SetPipelineCredentialsExternal, TableOK, IsRow, Row
<1>2. row' = [row EXCEPT ![i] = x] /\ credRender' = credRender /\ defRender' = defRender
  BY DEF SetPipelineCredentialsExternal
<1>. HIDE DEF x
<1>. QED
  BY <1>1, <1>2, TableStep, Zenon

\* The row write, the reclaim, the compensation and an error of the converge.
LEMMA ServiceOK ==
  ASSUME OneAtATime, SealInv, ConvergeInv, NEW s \in Savers, UNCHANGED sweep,
         \/ WriteRow(s) \/ ReclaimFlag(s) \/ ReclaimRender(s) \/ Compensate(s)
         \/ SyncError(s) /\ UNCHANGED serviceVars
  PROVE  ConvergeInv'
<1>1. TableOK /\ StoreInv /\ ReqOK(req[s])
  BY SaverFacts DEF ConvergeInv, ReqsOK
<1>2. conv' = conv /\ UNCHANGED repoVars /\ req' = req
  BY ZenonT(30) DEF WriteRow, ReclaimFlag, ReclaimRender, Compensate, SyncError, serviceVars
<1>3. \E l \in {"reclaim", "list", "refused", "unrender", "failed", "stranded", "compensate"} : Goto(s, l)
  BY Zenon DEF WriteRow, ReclaimFlag, ReclaimRender, Compensate, SyncError
<1>4. TableOK'
  <2>0. CASE UNCHANGED storeVars
    BY <1>1, <2>0, TableSame DEF storeVars
  <2>1. CASE WriteRow(s)
    <3>1. \/ UNCHANGED storeVars
          \/ req[s].kind = "update" /\ UpdateRow(req[s].id, req[s].new)
          \/ DeleteRow(req[s].id)
      BY <2>1, ZenonT(30) DEF WriteRow
    <3>. QED
      BY <1>1, <2>0, <3>1, UpdateRowOK, DeleteRowOK, Zenon DEF ReqOK
  <2>2. CASE ReclaimFlag(s)
    BY <1>1, <2>0, <2>2, FlagOK, ZenonT(30) DEF ReclaimFlag
  <2>3. CASE ReclaimRender(s)
    <3>1. \/ UNCHANGED storeVars
          \/ row' = row /\ defRender' = defRender /\ credRender' = [credRender EXCEPT ![req[s].id] = None]
      BY <2>3, Zenon DEF ReclaimRender, DeletePipelineCredentialRender
    <3>. QED
      BY <1>1, <2>0, <3>1, TableStep, ZenonT(30)
  <2>4. CASE Compensate(s)
    <3>1. \/ UNCHANGED storeVars
          \/ DeleteRow(req[s].id)
          \/ req[s].kind = "update" /\ UpdateRow(req[s].id, req[s].old)
          \/ req[s].kind = "delete" /\ \E i \in IDs : CreateRow(i, req[s].old)
      BY <2>4, Zenon DEF Compensate, Undo
    <3>. QED
      BY <1>1, <2>0, <3>1, UpdateRowOK, DeleteRowOK, CreateRowOK DEF ReqOK
  <2>5. CASE SyncError(s)
    BY <2>0, <2>5 DEF SyncError
  <2>. QED
    BY <2>1, <2>2, <2>3, <2>4, <2>5
<1>. QED
  BY <1>2, <1>3, <1>4, NoReqOK, ServiceStep DEF Working

\* A request ends or is lost.
LEMMA EndOK ==
  ASSUME OneAtATime, SealInv, ConvergeInv, NEW s \in Savers, UNCHANGED sweep, Return(s) \/ Crash(s)
  PROVE  ConvergeInv'
<1>1. Goto(s, "idle") /\ Keep(s, NoConv) /\ req' = [req EXCEPT ![s] = NoReq] /\ UNCHANGED <<storeVars, repoVars>>
  BY Zenon DEF Return, Crash
<1>2. TableOK'
  BY <1>1, SaverFacts, TableSame DEF storeVars
<1>. QED
  BY <1>1, <1>2, NoReqOK, ServiceStep, ZenonT(30) DEF Working

\* Every step of a converge.
LEMMA SyncOK ==
  ASSUME OneAtATime, SealInv, ConvergeInv, NEW s \in Savers, SyncCustomer(s),
         UNCHANGED <<serviceVars, sweep>>
  PROVE  ConvergeInv'
  BY ListsOK, ListTreeOK, UpsertFileOK, PutFileOK, RecordDefinitionRenderOK, DeleteStaleRenderedOK,
     DeleteFileOK, UpsertCredentialFileOK, RecordCredentialRenderOK, DeleteStaleOK, ConvergedOK
     DEF SyncCustomer

\* The fields of the sweep's record.
LEMMA SweepFieldNames ==
  SweepFields = {"pc", "yaml", "age", "rows", "defs", "files", "ids", "flags", "taken", "path", "id", "file"}
  BY DEF SweepFields, NoSweep

\* No sweep at all.
LEMMA NoSweepOK == SweepOK(NoSweep)
<1>1. /\ NoSweep = [f \in SweepFields |-> NoSweep[f]]
      /\ NoSweep.rows = [i \in IDs |-> None] /\ NoSweep.pc = "idle"
  BY SweepFieldNames, Zenon DEF NoSweep
<1>. QED
  BY <1>1 DEF SweepOK

\* The sweep goes on with the rows and the list of ids it has.
LEMMA SweepGoes ==
  ASSUME NEW w, SweepOK(w), w.pc \notin {"idle", "rows", "renders"},
         NEW v, v = [f \in SweepFields |-> v[f]],
         v.rows = w.rows, v.defs = w.defs, v.ids \subseteq w.ids,
         v.pc \in {"import", "imported", "adopt", "adopted"} => v.path \in Paths,
         v.pc \in {"import", "adopt"} => IsFile(v.file),
         v.pc = "adopt" => v.id \in Live(v.rows)
  PROVE  SweepOK(v)
  BY DEF SweepOK

\* A step of the sweep.
LEMMA SweepStep ==
  ASSUME SealInv, ConvergeInv, othersUnchanged, TableOK', SweepOK(sweep')
  PROVE  ConvergeInv'
<1>1. /\ yaml' = yaml /\ age' = age /\ sealed' = sealed /\ commits' = commits
      /\ pc' = pc /\ conv' = conv /\ req' = req
  BY DEF othersUnchanged, repoVars, mirrorVars, serviceVars
<1>2. FilesOK' /\ ReqsOK'
  BY <1>1 DEF ConvergeInv, FilesOK, ReqsOK, IsFile
<1>3. \A s \in Savers : SaverOK(pc'[s], conv'[s], yaml', age', commits')
  BY <1>1 DEF ConvergeInv
<1>. QED
  BY <1>2, <1>3 DEF ConvergeInv

\* Its reads.
LEMMA SweepReadsOK ==
  ASSUME SealInv, ConvergeInv,
         \/ SweepTree \/ SweepRows \/ SweepRenders \/ LoadFlags \/ SweepEnd
         \/ \E p \in Paths : ImportFile(p)
         \/ \E i \in IDs : AdoptDefinition(i)
  PROVE  ConvergeInv'
<1>1. Reads
  BY Zenon DEF SweepTree, SweepRows, SweepRenders, LoadFlags, SweepEnd, ImportFile, AdoptDefinition
<1>2. TableOK' /\ othersUnchanged
  BY <1>1, TableSame DEF Reads, ConvergeInv, storeVars
<1>. DEFINE w == sweep
<1>3. SweepOK(w) /\ w = [f \in SweepFields |-> w[f]]
  BY DEF ConvergeInv, SweepOK
<1>4. CASE SweepTree
  <2>. DEFINE v == [[w EXCEPT !.yaml = yaml, !.age = age] EXCEPT !.pc = "rows"]
  <2>1. v = [f \in SweepFields |-> v[f]] /\ v.pc = "rows" /\ v.rows = w.rows
    BY <1>3, SweepFieldNames, Zenon
  <2>2. sweep' = v
    BY <1>4 DEF SweepTree, To
  <2>. HIDE DEF v
  <2>3. SweepOK(v)
    BY <1>3, <2>1 DEF SweepOK
  <2>. QED
    BY <1>2, <2>2, <2>3, SweepStep
<1>5. CASE SweepRows
  <2>. DEFINE L == ListPipelinesByCustomer
              T == {<<i, row[i].name>> : i \in Live(row)}
              v == [[w EXCEPT !.rows = L, !.taken = T] EXCEPT !.pc = "renders"]
  <2>1. \A i \in IDs : L[i] # None => L[i].creds = NoCreds
    BY DEF ListPipelinesByCustomer, Row
  <2>2. sweep' = v
    BY <1>5 DEF SweepRows, To
  <2>. HIDE DEF L, T
  <2>3. v = [f \in SweepFields |-> v[f]] /\ v.pc = "renders" /\ v.rows = L
    BY <1>3, SweepFieldNames, Zenon
  <2>. HIDE DEF v
  <2>4. SweepOK(v)
    BY <2>1, <2>3 DEF SweepOK
  <2>. QED
    BY <1>2, <2>2, <2>4, SweepStep
<1>6. CASE SweepRenders
  <2>. DEFINE tracked == {i \in IDs : defRender[i] # None}
              F == {p \in Paths : /\ Importing
                                  /\ w.yaml[p] # None
                                  /\ p \notin {defRender[i].path : i \in tracked}}
              I == {i \in tracked \cap Live(w.rows) :
                      w.yaml[defRender[i].path] \notin {None, defRender[i].sha, defRender[i].refused}}
              v == [[w EXCEPT !.defs = defRender, !.files = F, !.ids = I] EXCEPT !.pc = "work"]
  <2>1. I \subseteq Live(w.rows) /\ \A i \in I : defRender[i].path \in Paths
    BY DEF ConvergeInv, TableOK
  <2>2. sweep' = v
    BY <1>6, Zenon DEF SweepRenders, To
  <2>. HIDE DEF F, I
  <2>3. v = [f \in SweepFields |-> v[f]] /\ v.pc = "work" /\ v.rows = w.rows /\ v.ids = I /\ v.defs = defRender
    BY <1>3, SweepFieldNames, Zenon
  <2>. HIDE DEF v
  <2>4. SweepOK(v)
    BY <1>3, <2>1, <2>3 DEF SweepOK
  <2>. QED
    BY <1>2, <2>2, <2>4, SweepStep
<1>7. CASE SweepEnd \/ Abort
  <2>1. sweep' = NoSweep
    BY <1>7 DEF SweepEnd, Abort
  <2>. QED
    BY <1>2, <2>1, NoSweepOK, SweepStep
<1>8. CASE LoadFlags
  <2>1. PICK X : sweep' = [[w EXCEPT !.flags = X] EXCEPT !.pc = "flag"]
    BY <1>8, Zenon DEF LoadFlags, To
  <2>. DEFINE v == [[w EXCEPT !.flags = X] EXCEPT !.pc = "flag"]
  <2>2. v = [f \in SweepFields |-> v[f]] /\ v.pc = "flag" /\ v.rows = w.rows /\ v.ids = w.ids /\ v.defs = w.defs
    BY <1>3, SweepFieldNames, Zenon
  <2>. HIDE DEF v
  <2>3. w.pc = "work"
    BY <1>8 DEF LoadFlags, At
  <2>4. SweepOK(v)
    BY <1>3, <2>2, <2>3, SweepGoes
  <2>. QED
    BY <1>2, <2>1, <2>4, SweepStep DEF v
<1>9. ASSUME NEW p \in Paths, ImportFile(p) PROVE ConvergeInv'
  <2>. DEFINE u == [[w EXCEPT !.files = @ \ {p}] EXCEPT !.pc = "work"]
              v == [[w EXCEPT !.files = @ \ {p}, !.path = p, !.file = yaml[p]] EXCEPT !.pc = "import"]
  <2>1. w.pc = "work" /\ (Abort \/ sweep' = u \/ (yaml[p] # None /\ sweep' = v))
    BY <1>9, Zenon DEF ImportFile, To, At
  <2>2. u = [f \in SweepFields |-> u[f]] /\ u.pc = "work" /\ u.rows = w.rows /\ u.ids = w.ids /\ u.defs = w.defs
    BY <1>3, SweepFieldNames, Zenon
  <2>3. /\ v = [f \in SweepFields |-> v[f]] /\ v.pc = "import" /\ v.rows = w.rows /\ v.ids = w.ids
        /\ v.defs = w.defs /\ v.path = p /\ v.file = yaml[p]
    BY <1>3, SweepFieldNames, Zenon
  <2>. HIDE DEF u, v
  <2>4. SweepOK(u)
    BY <1>3, <2>1, <2>2, SweepGoes
  <2>5. yaml[p] # None => IsFile(yaml[p])
    BY DEF ConvergeInv, FilesOK
  <2>6. yaml[p] # None => SweepOK(v)
    BY <1>3, <2>1, <2>3, <2>5, SweepGoes
  <2>. QED
    BY <1>2, <1>7, <2>1, <2>4, <2>6, SweepStep
<1>10. ASSUME NEW i \in IDs, AdoptDefinition(i) PROVE ConvergeInv'
  <2>. DEFINE p == w.defs[i].path
              rest == [w EXCEPT !.ids = @ \ {i}, !.id = i, !.path = p, !.file = yaml[p]]
              u == [rest EXCEPT !.pc = "refuse"]
              v == [rest EXCEPT !.pc = "adopt"]
  <2>1. w.pc = "work" /\ i \in w.ids /\ (Abort \/ (yaml[p] # None /\ (sweep' = u \/ sweep' = v)))
    BY <1>10, Zenon DEF AdoptDefinition, To, At
  <2>2. i \in Live(w.rows) /\ p \in Paths
    BY <1>3, <2>1 DEF SweepOK
  <2>. HIDE DEF p
  <2>3. u = [f \in SweepFields |-> u[f]] /\ u.pc = "refuse" /\ u.rows = w.rows /\ u.ids = w.ids \ {i}
        /\ u.defs = w.defs
    BY <1>3, SweepFieldNames, Zenon
  <2>4. /\ v = [f \in SweepFields |-> v[f]] /\ v.pc = "adopt" /\ v.rows = w.rows /\ v.ids = w.ids \ {i}
        /\ v.defs = w.defs /\ v.path = p /\ v.file = yaml[p] /\ v.id = i
    BY <1>3, SweepFieldNames, Zenon
  <2>. HIDE DEF u, v
  <2>5. SweepOK(u)
    BY <1>3, <2>1, <2>3, SweepGoes
  <2>6. yaml[p] # None => IsFile(yaml[p])
    BY <2>2 DEF ConvergeInv, FilesOK
  <2>7. yaml[p] # None => SweepOK(v)
    BY <1>3, <2>1, <2>2, <2>4, <2>6, SweepGoes
  <2>. QED
    BY <1>2, <1>7, <2>1, <2>5, <2>7, SweepStep
<1>. QED
  BY <1>4, <1>5, <1>6, <1>7, <1>8, <1>9, <1>10

\* Its statements.
LEMMA SweepWritesOK ==
  ASSUME SealInv, ConvergeInv,
         \/ ImportPipeline \/ RecordImport \/ AdoptUpdate \/ RecordAdopted \/ RefuseAdoption \/ SweepError
         \/ \E i \in IDs : FlagForeignCredentialFile(i)
  PROVE  ConvergeInv'
<1>. DEFINE w == sweep
            rest == [w EXCEPT !.path = None, !.id = 0, !.file = None]
            u == [rest EXCEPT !.pc = "work"]
            mid(l) == [w EXCEPT !.pc = l]
<1>1. SweepOK(w) /\ w = [f \in SweepFields |-> w[f]] /\ TableOK /\ StoreInv
  BY DEF ConvergeInv, SweepOK, SealInv
<1>2. u = [f \in SweepFields |-> u[f]] /\ u.pc = "work" /\ u.rows = w.rows /\ u.ids = w.ids /\ u.defs = w.defs
  BY <1>1, SweepFieldNames, Zenon
<1>3. \A l : LET v == mid(l) IN
        /\ v = [f \in SweepFields |-> v[f]] /\ v.pc = l /\ v.rows = w.rows /\ v.ids = w.ids /\ v.defs = w.defs
        /\ v.path = w.path
  BY <1>1, SweepFieldNames
<1>4. ASSUME UNCHANGED storeVars PROVE TableOK'
  BY <1>1, <1>4, TableSame DEF storeVars
<1>. HIDE DEF u, mid
<1>5. w.pc \notin {"idle", "rows", "renders"} => SweepOK(u)
  BY <1>1, <1>2, SweepGoes
<1>6. w.pc \in {"import", "adopt"} => SweepOK(mid("work")) /\ SweepOK(mid("adopted"))
  <2>. SUFFICES ASSUME w.pc \in {"import", "adopt"} PROVE SweepOK(mid("work")) /\ SweepOK(mid("adopted"))
    OBVIOUS
  <2>1. w.path \in Paths
    BY <1>1 DEF SweepOK
  <2>2. SweepOK(mid("work"))
    BY <1>1, <1>3, SweepGoes
  <2>3. SweepOK(mid("adopted"))
    BY <1>1, <1>3, <2>1, SweepGoes
  <2>. QED
    BY <2>2, <2>3
<1>7. ASSUME NEW i, RecordSwept(i, w.path), w.pc \in {"imported", "adopted"} PROVE ConvergeInv'
  <2>. DEFINE r == DefRender(w.path, w.yaml[w.path], None)
  <2>1. /\ othersUnchanged /\ sweep' = u
        /\ \/ UNCHANGED storeVars
           \/ row' = row /\ credRender' = credRender /\ defRender' = [defRender EXCEPT ![i] = r]
    BY <1>7, Zenon DEF RecordSwept, UpsertPipelineDefinitionRender, To, u
  <2>2. r.path \in Paths
    BY <1>1, <1>7 DEF SweepOK, DefRender
  <2>. HIDE DEF r
  <2>3. TableOK'
    BY <1>1, <1>4, <2>1, <2>2, TableStep, Zenon
  <2>. QED
    BY <1>5, <1>7, <2>1, <2>3, SweepStep
<1>8. CASE RecordImport \/ RecordAdopted
  BY <1>7, <1>8 DEF RecordImport, RecordAdopted, At
<1>9. CASE ImportPipeline
  <2>. DEFINE f == w.file
              r == Row(f.name, f.cfg, NoCreds, w.age[w.path] # None)
              X == w.taken \cup {<<f.id, f.name>>}
              v == [[w EXCEPT !.taken = X] EXCEPT !.pc = "imported"]
  <2>1. w.pc = "import" /\ othersUnchanged
    BY <1>9 DEF ImportPipeline, At
  <2>2. IsFile(f) /\ w.path \in Paths
    BY <1>1, <2>1 DEF SweepOK
  <2>3. \/ ImportRow(f.id, r) /\ sweep' = v
        \/ UNCHANGED storeVars /\ sweep' = mid("work")
    BY <1>9, ZenonT(30) DEF ImportPipeline, To, mid
  <2>4. IsRow(r)
    BY <2>2 DEF IsRow, IsFile, Row, Secrets
  <2>. HIDE DEF X, f, r
  <2>5. v = [g \in SweepFields |-> v[g]] /\ v.pc = "imported" /\ v.rows = w.rows /\ v.ids = w.ids
        /\ v.defs = w.defs /\ v.path = w.path
    BY <1>1, SweepFieldNames, Zenon
  <2>. HIDE DEF v
  <2>6. SweepOK(v)
    BY <1>1, <2>1, <2>2, <2>5, SweepGoes
  <2>7. TableOK'
    <3>1. CASE ImportRow(f.id, r)
      BY <1>1, <2>4, <3>1, TableStep, Zenon DEF ImportRow
    <3>. QED
      BY <1>4, <2>3, <3>1
  <2>. QED
    BY <1>6, <2>1, <2>3, <2>6, <2>7, SweepStep
<1>10. CASE AdoptUpdate
  <2>. DEFINE i == w.id
              r == Row(w.file.name, w.file.cfg, w.rows[i].creds, w.rows[i].ext)
  <2>1. w.pc = "adopt" /\ othersUnchanged
    BY <1>10, Zenon DEF AdoptUpdate, At
  <2>2. IsFile(w.file) /\ w.rows[i].creds = NoCreds
    BY <1>1, <2>1 DEF SweepOK, Live
  <2>3. \/ UpdateRow(i, r) /\ sweep' = mid("adopted")
        \/ UNCHANGED storeVars /\ sweep' = NoSweep
    BY <1>10, ZenonT(30) DEF AdoptUpdate, To, Abort, mid
  <2>4. IsRow(r)
    BY <2>2, Zenon DEF IsRow, IsFile, Row, Secrets
  <2>. HIDE DEF i, r
  <2>5. TableOK'
    BY <1>1, <1>4, <2>3, <2>4, UpdateRowOK
  <2>. QED
    BY <1>6, <2>1, <2>3, <2>5, NoSweepOK, SweepStep
<1>11. CASE RefuseAdoption
  <2>. DEFINE i == w.id
              r == IF defRender[i] = None THEN None
                   ELSE DefRender(defRender[i].path, defRender[i].sha, w.yaml[w.path])
  <2>1. /\ w.pc = "refuse" /\ othersUnchanged /\ sweep' = u
        /\ \/ UNCHANGED storeVars
           \/ row' = row /\ credRender' = credRender /\ defRender' = [defRender EXCEPT ![i] = r]
    BY <1>11, Zenon DEF RefuseAdoption, MarkPipelineDefinitionRefused, To, At, u
  <2>2. i \in IDs => r = None \/ r.path \in Paths
    BY <1>1 DEF TableOK, DefRender
  <2>. HIDE DEF i, r
  <2>3. TableOK'
    BY <1>1, <1>4, <2>1, <2>2, TableStep, Zenon
  <2>. QED
    BY <1>5, <2>1, <2>3, SweepStep
<1>12. CASE SweepError
  <2>1. UNCHANGED storeVars /\ othersUnchanged /\ sweep' = NoSweep
    BY <1>12 DEF SweepError, Abort
  <2>. QED
    BY <1>4, <2>1, NoSweepOK, SweepStep
<1>13. ASSUME NEW i \in IDs, FlagForeignCredentialFile(i) PROVE ConvergeInv'
  <2>. DEFINE v == [[w EXCEPT !.flags = @ \ {i}] EXCEPT !.pc = "flag"]
  <2>1. /\ w.pc = "flag" /\ othersUnchanged /\ sweep' = v
        /\ UNCHANGED storeVars \/ SetPipelineCredentialsExternal(i, TRUE)
    BY <1>13, Zenon DEF FlagForeignCredentialFile, To, At
  <2>2. v = [f \in SweepFields |-> v[f]] /\ v.pc = "flag" /\ v.rows = w.rows /\ v.ids = w.ids /\ v.defs = w.defs
    BY <1>1, SweepFieldNames, Zenon
  <2>. HIDE DEF v
  <2>3. SweepOK(v)
    BY <1>1, <2>1, <2>2, SweepGoes
  <2>4. TableOK'
    BY <1>1, <1>4, <2>1, FlagOK, Zenon
  <2>. QED
    BY <2>1, <2>3, <2>4, SweepStep
<1>. QED
  BY <1>8, <1>9, <1>10, <1>11, <1>12, <1>13

\* An edit on the box that adds no header.
Edited(p, h, i, n, c) ==
  /\ yaml' = [yaml EXCEPT ![p] = File(h, i, n, c)]
  /\ h = FALSE \/ (yaml[p] # None /\ h = yaml[p].hdr)

\* A commit of the box adds no header, and the converge under way has not
\* seen it.
LEMMA BoxOK ==
  ASSUME SealInv, ConvergeInv, NEW p \in Paths, BoxCommit(p), UNCHANGED <<mirrorVars, serviceVars, sweep>>
  PROVE  ConvergeInv'
<1>1. row' = row /\ credRender' = credRender /\ defRender' = defRender
      /\ conv' = conv /\ pc' = pc /\ req' = req /\ sweep' = sweep
  BY DEF BoxCommit, mirrorVars, serviceVars
<1>2. PICK k \in CommitFields : commits' = [commits EXCEPT ![k] = commits[k] + 1]
  BY Zenon DEF BoxCommit, BoxEditFile, BoxDeleteFile, BoxAddFile, BoxSealCredentials, BoxTick, CommitFields
<1>3. \/ yaml' = yaml
      \/ yaml' = [yaml EXCEPT ![p] = None]
      \/ \E h, i : \E n \in Names, c \in Cfgs : Edited(p, h, i, n, c)
  <2>1. CASE BoxEditFile(p)
    <3>1. PICK h \in {FALSE, yaml[p].hdr}, i \in {0, yaml[p].id}, n \in Names, c \in Cfgs :
            yaml' = [yaml EXCEPT ![p] = File(h, i, n, c)]
      BY <2>1, ZenonT(30) DEF BoxEditFile
    <3>2. Edited(p, h, i, n, c)
      BY <2>1, <3>1, Zenon DEF BoxEditFile, Edited
    <3>. QED
      BY <3>2
  <2>2. CASE BoxAddFile(p)
    <3>1. PICK i \in {0} \cup (IDs \ used), n \in Names, c \in Cfgs :
            yaml' = [yaml EXCEPT ![p] = File(FALSE, i, n, c)]
      BY <2>2, Zenon DEF BoxAddFile
    <3>2. Edited(p, FALSE, i, n, c)
      BY <3>1 DEF Edited
    <3>. QED
      BY <3>2, Zenon
  <2>3. CASE BoxDeleteFile(p) \/ BoxSealCredentials(p)
    BY <2>3 DEF BoxDeleteFile, BoxSealCredentials
  <2>. QED
    BY <2>1, <2>2, <2>3 DEF BoxCommit
<1>4. /\ age' = age \/ age' = [age EXCEPT ![p] = Blob("box", NoCreds, sealed + 1)]
      /\ sealed' \in {sealed, sealed + 1}
  BY Zenon DEF BoxCommit, BoxEditFile, BoxDeleteFile, BoxAddFile, BoxSealCredentials
<1>5. /\ yaml' = [q \in Paths |-> yaml'[q]]
      /\ \A q \in Paths : yaml'[q] # None =>
           IsFile(yaml'[q]) /\ (yaml'[q].hdr => yaml[q] # None /\ yaml[q].hdr)
  <2>1. yaml = [q \in Paths |-> yaml[q]] /\ \A q \in Paths : yaml[q] # None => IsFile(yaml[q])
    BY DEF ConvergeInv, FilesOK
  <2>2. CASE yaml' = yaml \/ yaml' = [yaml EXCEPT ![p] = None]
    BY <2>1, <2>2
  <2>3. ASSUME NEW h, NEW i, NEW n \in Names, NEW c \in Cfgs, Edited(p, h, i, n, c)
        PROVE  /\ yaml' = [q \in Paths |-> yaml'[q]]
               /\ \A q \in Paths : yaml'[q] # None =>
                    IsFile(yaml'[q]) /\ (yaml'[q].hdr => yaml[q] # None /\ yaml[q].hdr)
    <3>. DEFINE f == File(h, i, n, c)
    <3>1. IsFile(f) /\ f.hdr = h
      BY DEF IsFile, File
    <3>. HIDE DEF f
    <3>2. yaml' = [q \in Paths |-> yaml'[q]] /\ yaml'[p] = f /\ \A q \in Paths \ {p} : yaml'[q] = yaml[q]
      BY <2>1, <2>3 DEF f, Edited
    <3>3. f.hdr => yaml[p] # None /\ yaml[p].hdr
      BY <2>3, <3>1, ZenonT(30) DEF Edited
    <3>. QED
      BY <2>1, <3>1, <3>2, <3>3
  <2>. QED
    BY <1>3, <2>2, <2>3
<1>6. FilesOK'
  <2>1. Blob("box", NoCreds, sealed + 1) \in Blobs /\ sealed' \in Nat
    BY <1>4 DEF ConvergeInv, FilesOK, Blob, Blobs, Secrets
  <2>2. \A q \in Paths : age'[q] # None => age'[q] \in Blobs
    BY <1>4, <2>1 DEF ConvergeInv, FilesOK, SealInv, RepoInv
  <2>. QED
    BY <1>5, <2>1, <2>2 DEF FilesOK, IsFile
<1>7. ASSUME NEW s \in Savers
      PROVE  SaverOK(pc[s], conv[s], yaml', age', commits')
  <2>. DEFINE c == conv[s]
              l == pc[s]
  <2>1. SaverOK(l, c, yaml, age, commits)
    BY DEF ConvergeInv
  <2>. HIDE DEF c, l
  <2>2. ASSUME l \in Working PROVE WorkOK(l, c, yaml', age', commits')
    <3>1. WorkOK(l, c, yaml, age, commits)
      BY <2>1, <2>2 DEF SaverOK
    <3>2. \A f \in CommitFields : commits[f] \in Nat /\ commits'[f] = IF f = k THEN commits[f] + 1 ELSE commits[f]
      BY <1>2 DEF SealInv, RepoInv
    <3>3. SeenOK(c.seen, commits)
      BY <3>1 DEF WorkOK
    <3>4. SeenOK(c.seen, commits') /\ commits' # c.seen
      BY <3>2, <3>3 DEF SeenOK
    <3>5. DefsOK(c.rows, c.yaml, c.todo, c.stale, yaml)
      BY <3>1 DEF WorkOK
    <3>6. DefsOK(c.rows, c.yaml, c.todo, c.stale, yaml')
      BY <1>5, <3>5 DEF DefsOK
    <3>. QED
      BY <3>1, <3>4, <3>6 DEF WorkOK
  <2>. QED
    BY <2>1, <2>2, Zenon DEF SaverOK, c, l
<1>8. TableOK' /\ ReqsOK' /\ SweepOK(sweep)'
  BY <1>1 DEF ConvergeInv, TableOK, ReqsOK, IsRow
<1>9. \A s \in Savers : SaverOK(pc'[s], conv'[s], yaml', age', commits')
  BY <1>1, <1>7
<1>. QED
  BY <1>6, <1>8, <1>9 DEF ConvergeInv

\* The seeded pipelines are as a save without failures leaves them.
LEMMA InitOK == Init => ConvergeInv
<1>. SUFFICES ASSUME Init PROVE ConvergeInv
  OBVIOUS
<1>. DEFINE rows == [i \in IDs |-> IF i \in DOMAIN Seed THEN Seed[i] ELSE None]
            sealing == {i \in DOMAIN Seed : Seed[i].creds # NoCreds}
            at(p) == {i \in DOMAIN Seed : FilePath(rows, i) = p}
            blob(i) == Blob("console", rows[i].creds, i)
            known == IF FreshDB THEN {} ELSE DOMAIN Seed
<1>1. \A i \in DOMAIN Seed : i \in IDs /\ rows[i] = Seed[i] /\ IsRow(rows[i])
  BY SeedAssumption DEF Rows, IsRow, Secrets
<1>2. \A i \in DOMAIN Seed : blob(i) \in Blobs
  <2>1. ASSUME NEW i \in DOMAIN Seed PROVE blob(i) \in Blobs
    <3>. HIDE DEF rows
    <3>0. i \in IDs /\ IsRow(rows[i])
      BY <1>1
    <3>1. rows[i].creds \in Secrets /\ i \in Nat
      BY <3>0, StoreAssumption DEF IsRow, IDs
    <3>. QED
      BY <3>1 DEF Blob, Blobs
  <2>. QED
    BY <2>1
<1>3. \A i \in DOMAIN Seed : IsFile(RenderPipelineFile(rows, i)) /\ FilePath(rows, i) \in Paths
  BY <1>1, PathThere, Zenon DEF IsFile, IsRow, RenderPipelineFile, File
<1>4. known \subseteq DOMAIN Seed
  OBVIOUS
<1>5. TableOK
  <2>1. row = [i \in IDs |-> IF i \in known THEN rows[i] ELSE None]
    BY Zenon DEF Init
  <2>2. credRender = [i \in IDs |-> IF i \notin known \cap sealing THEN None ELSE CredRender(rows[i].creds, blob(i))]
    BY Zenon DEF Init
  <2>3. defRender = [i \in IDs |-> IF i \notin known THEN None
                       ELSE DefRender(FilePath(rows, i), RenderPipelineFile(rows, i), None)]
    BY Zenon DEF Init
  <2>. HIDE DEF rows, known, sealing
  <2>4. row = [i \in IDs |-> row[i]] /\ \A i \in IDs : row[i] # None => IsRow(row[i])
    BY <1>1, <1>4, <2>1
  <2>5. \A i \in IDs : credRender[i] # None => credRender[i].sha.creds = credRender[i].fp
    BY <2>2 DEF CredRender, Blob
  <2>6. defRender = [i \in IDs |-> defRender[i]] /\ \A i \in IDs : defRender[i] # None => defRender[i].path \in Paths
    BY <1>3, <1>4, <2>3 DEF DefRender
  <2>. QED
    BY <2>4, <2>5, <2>6 DEF TableOK
<1>6. FilesOK
  <2>1. yaml = [p \in Paths |-> IF at(p) = {} THEN None ELSE RenderPipelineFile(rows, CHOOSE i \in at(p) : TRUE)]
    BY Zenon DEF Init
  <2>2. age = [p \in Paths |-> IF at(p) \cap sealing = {} THEN None ELSE blob(CHOOSE i \in at(p) : TRUE)]
    BY Zenon DEF Init
  <2>3. sealed = MaxIDs
    BY Zenon DEF Init
  <2>4. \A p : at(p) # {} => (CHOOSE i \in at(p) : TRUE) \in DOMAIN Seed
    OBVIOUS
  <2>5. \A p : at(p) \cap sealing # {} => at(p) # {}
    OBVIOUS
  <2>. HIDE DEF rows, sealing, at, blob
  <2>6. yaml = [p \in Paths |-> yaml[p]] /\ \A p \in Paths : yaml[p] # None => IsFile(yaml[p])
    BY <1>3, <2>1, <2>4
  <2>7. \A p \in Paths : age[p] # None => age[p] \in Blobs
    BY <1>2, <2>2, <2>4, <2>5
  <2>. QED
    BY <2>3, <2>6, <2>7, StoreAssumption DEF FilesOK
<1>7. ReqsOK
  <2>1. req = [s \in Savers |-> NoReq]
    BY Zenon DEF Init
  <2>. QED
    BY <2>1, NoReqOK DEF ReqsOK
<1>8. SweepOK(sweep)
  BY NoSweepOK, Zenon DEF Init
<1>9. \A s \in Savers : SaverOK(pc[s], conv[s], yaml, age, commits)
  <2>1. \A s \in Savers : pc[s] = "idle" /\ conv[s] = NoConv
    BY Zenon DEF Init
  <2>2. \A s \in Savers : SaverOK("idle", NoConv, yaml, age, commits)
    BY NoSnapshot DEF SaverOK, Working
  <2>. QED
    BY <2>1, <2>2
<1>. QED
  BY <1>5, <1>6, <1>7, <1>8, <1>9 DEF ConvergeInv

\* Every step keeps the invariant when saves do not overlap.
LEMMA NextOK ==
  ASSUME OneAtATime
  PROVE  SealInv /\ ConvergeInv /\ [Next]_vars => ConvergeInv'
<1>. SUFFICES ASSUME SealInv, ConvergeInv, [Next]_vars PROVE ConvergeInv'
  OBVIOUS
<1>1. CASE UNCHANGED vars
  <2>1. othersUnchanged /\ row' = row /\ credRender' = credRender /\ defRender' = defRender /\ sweep' = sweep
    BY <1>1 DEF vars, storeVars, repoVars, mirrorVars, serviceVars, othersUnchanged
  <2>2. TableOK' /\ SweepOK(sweep')
    BY <2>1, TableSame DEF ConvergeInv
  <2>. QED
    BY <2>1, <2>2, SweepStep
<1>2. ASSUME NEW s \in Savers, Begins(s) \/ Save(s) \/ Crash(s), UNCHANGED sweep
      PROVE  ConvergeInv'
  <2>1. ASSUME SyncCustomer(s) /\ UNCHANGED serviceVars PROVE ConvergeInv'
    BY <1>2, <2>1, SyncOK
  <2>. QED
    BY <1>2, <2>1, BeginsOK, ServiceOK, EndOK DEF Save
<1>3. ASSUME NEW s \in Savers, SyncError(s), UNCHANGED <<serviceVars, sweep>> PROVE ConvergeInv'
  BY <1>3, ServiceOK
<1>4. CASE AdoptCustomer \/ SweepError
  BY <1>4, SweepReadsOK, SweepWritesOK DEF AdoptCustomer
<1>5. ASSUME NEW p \in Paths, BoxCommit(p), UNCHANGED <<mirrorVars, serviceVars, sweep>>
      PROVE  ConvergeInv'
  BY <1>5, BoxOK
<1>. QED
  BY <1>1, <1>2, <1>3, <1>4, <1>5 DEF Next

\* An undisturbed converge that is done has nothing left to do.
LEMMA ConvergeInvConverges == ConvergeInv => SaveConverges
<1>. SUFFICES ASSUME ConvergeInv, NEW s \in Savers, Undisturbed(s)
     PROVE  /\ \A i \in Live(conv[s].rows) : yaml[PathOf(s, i)] = RenderPipelineFile(conv[s].rows, i)
            /\ \A p \in Paths \ Desired(s) : yaml[p] # None => ~yaml[p].hdr
            /\ \A i \in Rendered(s) :
                 \/ Foreign(s, i)
                 \/ age[PathOf(s, i)] # None /\ age[PathOf(s, i)].creds = conv[s].creds[i]
            /\ \A p \in Paths \ DesiredAge(s) : age[p] = None
  BY ZenonT(30) DEF SaveConverges
<1>. DEFINE c == conv[s]
<1>1. WorkOK("done", c, yaml, age, commits) /\ commits = c.seen
  BY DEF ConvergeInv, SaverOK, Undisturbed, Working
<1>2. c.todo = {} /\ c.stale = {} /\ c.credTodo = {} /\ c.staleAge = {} /\ Held("done", c) = {}
  BY <1>1, ZenonT(30) DEF WorkOK, LabelOK, Held
<1>3. /\ DefsDone(c.rows, {}, {}, {}, yaml)
      /\ SealsDone(c.rows, c.creds, c.renders, c.age, {}, {}, age)
  BY <1>1, <1>2, ZenonT(30) DEF WorkOK
<1>4. Desired(s) = Targets(c.rows) /\ Rendered(s) = Sealing(c.rows, c.creds)
      /\ DesiredAge(s) = SealTargets(c.rows, c.creds)
  BY ZenonT(30) DEF Desired, Targets, Rendered, Sealing, DesiredAge, SealTargets, External, PathOf
<1>5. \A i : PathOf(s, i) = FilePath(c.rows, i) /\ (LeftToBox(c.rows, c.renders, c.age, i) => Foreign(s, i))
  BY DEF PathOf, LeftToBox, Foreign
<1>. HIDE DEF c
<1>6. /\ \A i \in Live(c.rows) : yaml[FilePath(c.rows, i)] = RenderPipelineFile(c.rows, i)
      /\ \A p \in Paths \ Targets(c.rows) : yaml[p] # None => ~yaml[p].hdr
  BY <1>3 DEF DefsDone
<1>7. /\ \A i \in Sealing(c.rows, c.creds) :
           \/ LeftToBox(c.rows, c.renders, c.age, i)
           \/ age[FilePath(c.rows, i)] # None /\ age[FilePath(c.rows, i)].creds = c.creds[i]
      /\ \A p \in Paths \ SealTargets(c.rows, c.creds) : age[p] = None
  BY <1>3, Zenon DEF SealsDone
<1>. QED
  BY <1>4, <1>5, <1>6, <1>7, ZenonT(30) DEF c

\* With one save at a time, a save that reports success has made the
\* repository equal to the render of the rows it listed (SyncCustomer), for
\* any number of pipelines and whatever failures, restarts, sweeps and box
\* commits came before.
THEOREM LoneSavesConverge ==
  ASSUME OneAtATime
  PROVE  Spec => []SaveConverges
<1>1. Init => SealInv /\ ConvergeInv
  BY InitInv, InitOK
<1>2. SealInv /\ ConvergeInv /\ [Next]_vars => (SealInv /\ ConvergeInv)'
  BY NextInv, NextOK
<1>. QED
  BY <1>1, <1>2, ConvergeInvConverges, PTL DEF Spec

\* What a write to a definition file leaves without one.
LEMMA WriteKeepsHeaderless ==
  ASSUME NEW s, NEW p, NEW sha, NEW new, NEW next, NEW c, WriteYaml(s, p, sha, new, next, c),
         yaml = [q \in Paths |-> yaml[q]],
         new # None \/ (sha # None => sha.hdr),
         NEW q \in Paths, yaml[q] # None, ~yaml[q].hdr
  PROVE  yaml'[q] # None
<1>1. PICK o \in GiteaWrite(yaml, p, sha, new) : yaml' = o.files
  BY DEF WriteYaml
<1>2. o.files = yaml \/ (o.files = [yaml EXCEPT ![p] = new] /\ yaml[p] = sha)
  BY WriteOutcome, Zenon
<1>. QED
  BY <1>1, <1>2

\* A render is a file.
LEMMA RenderIsFile ==
  ASSUME NEW rs, NEW i \in IDs, rs[i].name \in Names, rs[i].cfg \in Cfgs
  PROVE  RenderPipelineFile(rs, i) # None
<1>1. RenderPipelineFile(rs, i) \in Files
  BY StoreAssumption DEF RenderPipelineFile, File, Files, IDs
<1>. QED
  BY <1>1, StoreAssumption

\* With one save at a time, no converge deletes a definition file without the
\* rendered header (deleteStaleRendered): the delete names the blob of the
\* tree, and a header does not appear on a file in between.
THEOREM HeaderlessFilesKept ==
  ASSUME OneAtATime
  PROVE  Spec => HeaderlessKept
<1>1. ASSUME SealInv, ConvergeInv, [Next]_vars, NEW q \in Paths,
             yaml[q] # None, ~yaml[q].hdr, yaml'[q] = None
      PROVE  commits' # commits
  <2>0. yaml = [p \in Paths |-> yaml[p]]
    BY <1>1 DEF ConvergeInv, FilesOK
  <2>1. CASE yaml' = yaml
    BY <1>1, <2>1
  <2>2. ASSUME NEW s \in Savers, SyncCustomer(s) PROVE FALSE
    <3>. DEFINE c == conv[s]
    <3>0. Snapshot(c.rows, c.creds, c.renders, c.age) /\ SaverOK(pc[s], c, yaml, age, commits)
      BY <1>1, SaverFacts
    <3>1. ASSUME NEW i \in IDs, UpsertFile(s, i) PROVE FALSE
      <4>1. i \in Live(c.rows)
        BY <3>0, <3>1 DEF UpsertFile, SaverOK, WorkOK, DefsOK, Working
      <4>2. RenderPipelineFile(c.rows, i) # None
        BY <3>0, <4>1, RenderIsFile, Zenon DEF Snapshot, Live
      <4>3. yaml' = yaml \/ \E d : WriteYaml(s, PathOf(s, i), None, RenderPipelineFile(c.rows, i), "record", d)
        BY <3>1, Zenon DEF UpsertFile, repoVars
      <4>. QED
        BY <1>1, <2>0, <2>1, <4>2, <4>3, WriteKeepsHeaderless
    <3>2. CASE PutFile(s)
      <4>1. c.id \in Live(c.rows)
        BY <3>0, <3>2 DEF PutFile, SaverOK, WorkOK, LabelOK, Working
      <4>2. RenderPipelineFile(c.rows, c.id) # None
        BY <3>0, <4>1, RenderIsFile, Zenon DEF Snapshot, Live
      <4>3. \E d : WriteYaml(s, PathOf(s, c.id), c.sha, RenderPipelineFile(c.rows, c.id), "record", d)
        BY <3>2, Zenon DEF PutFile
      <4>. QED
        BY <1>1, <2>0, <4>2, <4>3, WriteKeepsHeaderless
    <3>3. CASE DeleteFile(s)
      <4>1. c.yaml[c.path].hdr
        BY <3>0, <3>3 DEF DeleteFile, SaverOK, WorkOK, LabelOK, Working
      <4>2. \E d : WriteYaml(s, c.path, c.yaml[c.path], None, "work", d)
        BY <3>3, Zenon DEF DeleteFile
      <4>. QED
        BY <1>1, <2>0, <4>1, <4>2, WriteKeepsHeaderless
    <3>4. \/ yaml' = yaml
          \/ \E i \in IDs : UpsertFile(s, i)
          \/ PutFile(s) \/ DeleteFile(s)
      BY <2>2, ZenonT(30) DEF SyncCustomer, ListPipelines, ListCredentials, GetCredentialRenders,
         DefinitionRenderRows, ListTree, UpsertCredentialFile, RecordDefinitionRender, RecordCredentialRender,
         DeleteStaleRendered, DeleteStale, Converged, WriteAge, repoVars
    <3>. QED
      BY <1>1, <2>1, <3>1, <3>2, <3>3, <3>4
  <2>3. ASSUME NEW s \in Savers, Begins(s) \/ WriteRow(s) \/ ReclaimFlag(s) \/ ReclaimRender(s) \/ Compensate(s)
                                 \/ Return(s) \/ Crash(s) \/ SyncError(s)
        PROVE  yaml' = yaml
    BY <2>3, ZenonT(30) DEF Begins, CreatePipeline, UpdatePipeline, DeletePipeline, WriteRow, ReclaimFlag,
       ReclaimRender, Compensate, Return, Crash, SyncError, repoVars
  <2>4. ASSUME AdoptCustomer \/ SweepError PROVE yaml' = yaml
    <3>1. othersUnchanged
      BY <2>4, ZenonT(30) DEF AdoptCustomer, SweepTree, SweepRows, SweepRenders, LoadFlags, SweepEnd, ImportFile,
         AdoptDefinition, ImportPipeline, RecordImport, AdoptUpdate, RecordAdopted, RefuseAdoption, RecordSwept,
         FlagForeignCredentialFile, SweepError, Reads
    <3>. QED
      BY <3>1 DEF othersUnchanged, repoVars
  <2>5. ASSUME NEW p \in Paths, BoxCommit(p), UNCHANGED mirrorVars PROVE commits' # commits
    BY <1>1, <2>5, BoxInv
  <2>6. CASE UNCHANGED vars
    BY <1>1, <2>6 DEF vars, repoVars
  <2>7. CASE Next
    <3>1. ASSUME NEW s \in Savers, Begins(s) \/ Save(s) \/ Crash(s) \/ SyncError(s) PROVE FALSE
      BY <1>1, <2>2, <2>3, <3>1 DEF Save
    <3>. QED
      BY <1>1, <2>4, <2>5, <2>7, <3>1 DEF Next
  <2>. QED
    BY <1>1, <2>6, <2>7
<1>2. SealInv /\ ConvergeInv /\ [Next]_vars =>
        [\A p \in Paths : yaml[p] # None /\ ~yaml[p].hdr /\ yaml'[p] = None => commits' # commits]_vars
  BY <1>1
<1>3. Init => SealInv /\ ConvergeInv
  BY InitInv, InitOK
<1>4. SealInv /\ ConvergeInv /\ [Next]_vars => (SealInv /\ ConvergeInv)'
  BY NextInv, NextOK
<1>. QED
  BY <1>2, <1>3, <1>4, PTL DEF Spec, HeaderlessKept

=============================================================================
