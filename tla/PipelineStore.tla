---------------------------- MODULE PipelineStore ----------------------------
(***************************************************************************)
(* The Postgres tables the git-first plane works on: pipelines and the two *)
(* render-bookkeeping tables.  Every operator is one SQL statement; a      *)
(* statement that finds no row, or breaks a constraint, has no ...Row      *)
(* transition and the caller takes its error path.                         *)
(*                                                                         *)
(* A git blob sha identifies a content, so a definition blob is modelled   *)
(* by its content.  age ciphertext is randomised: a credential blob is a   *)
(* record with a serial number of its own.                                 *)
(***************************************************************************)
EXTENDS Naturals

CONSTANTS MaxIDs,    \* bound: pipeline ids, 1..MaxIDs; 0 is no (valid) id
          Names,     \* display names
          SlugOf,    \* nameFileSlug: names may share a slug
          Cfgs,      \* everything else a definition file carries
          Creds,     \* non-empty source credentials
          NoCreds,   \* empty source credentials
          None       \* no row, no file, no blob

\* What a row holds as credentials, and the contents of the two kinds of file.
Secrets == Creds \cup {NoCreds}
Files == [hdr : BOOLEAN, id : 0..MaxIDs, name : Names, cfg : Cfgs]
Blobs == [by : {"console", "box"}, creds : Secrets, n : Nat]

\* None is no file, no blob and no render row.
ASSUME StoreAssumption ==
  /\ MaxIDs \in Nat
  /\ NoCreds \notin Creds
  /\ None \notin Files \cup Blobs \cup [fp : Secrets, sha : Blobs]

VARIABLES row,        \* table pipelines: id -> row or None
          credRender, \* table pipeline_credential_renders
          defRender,  \* table pipeline_definition_renders
          used        \* ids that were ever minted or committed

storeVars == <<row, credRender, defRender, used>>

IDs == 1..MaxIDs
Slugs == {SlugOf[n] : n \in Names}
\* pipelines/<slug>.yaml is <<slug, 0>>, pipelines/<slug>-<id>.yaml is <<slug, id>>.
Paths == Slugs \X (0..MaxIDs)

Row(n, c, k, e) == [name |-> n, cfg |-> c, creds |-> k, ext |-> e]
DefRender(p, b, r) == [path |-> p, sha |-> b, refused |-> r]
CredRender(k, b) == [fp |-> k, sha |-> b]
\* The parsed definition file; hdr: it opens with pipelineFileHeader.
File(h, i, n, c) == [hdr |-> h, id |-> i, name |-> n, cfg |-> c]
\* by: who encrypted it; creds: the plaintext.
Blob(b, k, n) == [by |-> b, creds |-> k, n |-> n]

Live(rs) == {i \in IDs : rs[i] # None}
\* UNIQUE (customer_slug, name)
NameTaken(n, i) == \E j \in Live(row) \ {i} : row[j].name = n

\* ListPipelinesByCustomer does not select source_credentials.
ListPipelinesByCustomer ==
  [i \in IDs |-> IF row[i] = None THEN None
                 ELSE Row(row[i].name, row[i].cfg, NoCreds, row[i].ext)]
ListPipelineCredentialsByCustomer ==
  [i \in IDs |-> IF row[i] = None THEN NoCreds ELSE row[i].creds]

\* gen_random_uuid: an id never seen before, and no credentials_external.
CreateRow(i, r) ==
  /\ i \in IDs \ used
  /\ ~NameTaken(r.name, i)
  /\ row' = [row EXCEPT ![i] = Row(r.name, r.cfg, r.creds, FALSE)]
  /\ used' = used \cup {i}
  /\ UNCHANGED <<credRender, defRender>>

CanUpdate(i, n) == row[i] # None /\ ~NameTaken(n, i)
\* credentials_external is not among the updated columns.
UpdateRow(i, r) ==
  /\ CanUpdate(i, r.name)
  /\ row' = [row EXCEPT ![i] = Row(r.name, r.cfg, r.creds, row[i].ext)]
  /\ UNCHANGED <<credRender, defRender, used>>

\* ON DELETE CASCADE takes the render rows.
DeleteRow(i) ==
  /\ row[i] # None
  /\ row' = [row EXCEPT ![i] = None]
  /\ credRender' = [credRender EXCEPT ![i] = None]
  /\ defRender' = [defRender EXCEPT ![i] = None]
  /\ UNCHANGED used

CanImport(i, n) == row[i] = None /\ ~NameTaken(n, i)
ImportRow(i, r) ==
  /\ CanImport(i, r.name)
  /\ row' = [row EXCEPT ![i] = r]
  /\ UNCHANGED <<credRender, defRender, used>>

SetPipelineCredentialsExternal(i, e) ==
  /\ row[i] # None
  /\ row' = [row EXCEPT ![i] = Row(row[i].name, row[i].cfg, row[i].creds, e)]
  /\ UNCHANGED <<credRender, defRender, used>>

\* The upserts need the pipeline row (foreign key) and clear refused_blob_sha.
UpsertPipelineDefinitionRender(i, p, b) ==
  /\ row[i] # None
  /\ defRender' = [defRender EXCEPT ![i] = DefRender(p, b, None)]
  /\ UNCHANGED <<row, credRender, used>>

UpsertPipelineCredentialRender(i, k, b) ==
  /\ row[i] # None
  /\ credRender' = [credRender EXCEPT ![i] = CredRender(k, b)]
  /\ UNCHANGED <<row, defRender, used>>

DeletePipelineCredentialRender(i) ==
  /\ credRender' = [credRender EXCEPT ![i] = None]
  /\ UNCHANGED <<row, defRender, used>>

\* An UPDATE: without a render row it changes nothing.
MarkPipelineDefinitionRefused(i, b) ==
  /\ defRender' = [defRender EXCEPT ![i] =
       IF @ = None THEN None ELSE DefRender(@.path, @.sha, b)]
  /\ UNCHANGED <<row, credRender, used>>

-----------------------------------------------------------------------------
(* pipelineFileSlugs and renderPipelineFile *)

Slug(rs, i) == SlugOf[rs[i].name]
\* Every member of a collision group gets the id suffix.
FilePath(rs, i) ==
  IF \E j \in Live(rs) \ {i} : Slug(rs, j) = Slug(rs, i)
  THEN <<Slug(rs, i), i>>
  ELSE <<Slug(rs, i), 0>>
RenderPipelineFile(rs, i) == File(TRUE, i, rs[i].name, rs[i].cfg)

-----------------------------------------------------------------------------
Rows == [name : Names, cfg : Cfgs, creds : Creds \cup {NoCreds}, ext : BOOLEAN]

=============================================================================
