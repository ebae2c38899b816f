# workspace-api in TLA+

Models, model-checking runs and proofs for `fairtier/workspace-api`: the Go
service behind the FairTier Console that keeps pipelines, transformations and
their runs in Postgres, renders the definitions into the git repositories of the
customer's box, serves the box's workers, and fronts the data platform.

A module without prefix or suffix is a component, `MC*.tla` gives components
finite constants for TLC, `*Proofs.tla` holds theorems TLAPS checks.
`PROJECT.json` maps every definition to the lines it translates (a Go
declaration with its doc comment), lists the hazards of the code with the
properties that guard them, and names for every property a mutation of the model
that TLC refutes.

    tlc -config Saves.cfg MCGitFirst      # any run: its cfg and its module
    tlapm GitFirstProofs.tla              # any proof module

## 1. The system and its modules

One Go process (several replicas centrally, one on each box) with one Postgres
database. Requests run concurrently with background loops: the adopt sweep, the
stuck-run sweep, the sweeps of grants and source tests, demo workers and a
NOTIFY listener. Nothing takes a lock across statements: a handler is a sequence
of SQL statements and HTTP calls, and every interleaving of those is possible.
In the models each statement or call is a step; what a handler holds between two
of them is a variable (`conv`, `report`, `job`, `save`, `call`, `op`, ...).

| Part | Module | State and steps |
|---|---|---|
| Pipeline runs | `PipelineRuns` | `run` is the table, `trigger` and `report` are requests between two statements, `job` what a worker does with a run, `told` the outcome a worker had acknowledged. The dlt-worker is external; the header says what is assumed of it, above all one report of a run in flight at a time |
| Pipeline tables | `PipelineStore` | rows and the two bookkeeping tables, one operator per SQL statement with its constraints and cascades |
| Box repository | `BoxRepo` | definition files `yaml`, credential files `age`, the outcomes of a Gitea write (applied, conflict, failed, applied with the answer lost), commits made on the box |
| Pipeline mirror | `PipelineMirror` | `SyncCustomer`; `conv[s]` is what request `s` has read and has left to do |
| Pipeline service | `PipelineService` | create, update, delete with reclaim of credentials and compensation, restart |
| Adopt and import sweep | `PipelineAdopt` | one pass, call by call; `sweep` is its local state |
| All of these | `GitFirst` | `Init`, `Next`, fairness and properties of the git-first plane |
| Pipeline versions | `Versions` | the list, the file as of a commit, the restore, while paths change hands |
| Source tests | `SourceTests` | `test` is the table, `work` what each worker knows, `console` what is shown |
| Transformations | `TransformationStore`, `TransformationMirror`, `Transformations` | the twin plane without credential files, triggers into the pipelines plane, runs pinned to commits |
| Notifications | `Notifications`, `Bell` | producers, pg_notify, a listener and a broker per replica, streams; `Bell` is what they promise together |
| Demo project | `DemoProject` | load, removal, rollback and takeover over one seed row |
| Connections, OAuth grants, source schemas | `Connections`, `SourceSchema` | consent, redemption, reconnect, deletion and the credential file rendered from them; the validators as predicates |
| Encryption | `Keyring` | rings of the replicas, rewrap, plaintext migration, audit, drop of the old key |
| File drop | `FileDrop` | objects first, then the list in the row |
| Editor, push mirrors | `RepoEditor` | writes under a sha, delete-then-add of mirrors, the transport's retry |
| Catalog users | `Catalog` | applications, catalog users and relations, one call a step |
| Warehouses | `WarehouseStorage` | validation, storage profile and credential, look-up by name |
| Relays, assistants | `Relay`, `Assist`, `RateLimiter`, `ErrorContext` | token cache, second attempt after a 401, schema context in parallel goroutines, budget per caller, redaction and bounds of the failure context |
| Process and authentication | `Gateway`, `BoxTrust` | startup, two listeners, shutdown; who a token speaks for; key sets of many boxes |
| Queries | `QueryEngine` | row limit, endpoints, batches, the JSON form of a cell |
| Workspace, bootstrap | `Surfaces` | the document built at startup and the Console's copy of it |

The parts meet in the tables, the repositories and the worker's RPCs. A save
calls the mirror; the sweep writes the rows that saves write and the bookkeeping
that the mirror reads; deletes cascade to runs and bookkeeping; a transformation
is chained to a pipeline that the other plane may delete; a connection ends up
in a pipeline's credential file. `GitFirst`, `Transformations`, `Connections`
and `Assist` compose what interacts that way.

Data is abstracted to what the properties tell apart. The sha of a definition is
its content; an age ciphertext is random, so a credential blob has a serial
number, who made it and its plaintext. `SlugOf` gives names slugs that may
collide. Clocks become the one comparison the statements make (`old`,
`expired`, a stale claim); only the limiter keeps a numeric clock. Loops over
maps go in any order.

## 2. Runs

| Run | Properties | Bounds |
|---|---|---|
| `PipelineRuns` | `OutcomeKept`, `StuckRunsHeal`, `PendingServed` | 2 users, a file_upload pipeline with and without files, 2 runs, 1 fault |
| `Saves` | `SaveConverges`, `HeaderlessKept`, `ForeignSealsKept` | 2 pipelines whose names share a slug, 2 saves one after the other, 2 box edits or an edit and a fault, 1 box seal; 1.5 M states |
| `Adopt` | `RowsFollowRepo`, `Hydrates` | empty database, 1 file in the repository, 1 added on the box, 1 edit, 1 fault; no saves |
| `Drift` | `DriftSettles` | 2 pipelines, 2 names an edit may rename onto each other, 1 save, and an edit, a box seal or a fault |
| `SourceTests` | `ProbedOnce`, `RestoredOwn`, `WaitEnds` | 2 tests, 3 workers of 2 tenants; 3 pipelines that take each other's paths, 2 savers, 4 saves |
| `Transformations` | `TriggerOwned`, `SaveConverges`, `Hydrates` | 2 transformations with one slug, an own and a foreign pipeline, 1 run, 2 outside events |
| `Notifications` | `Accounted`, `Delivered`, `ImplementsBell` | 2 replicas, a slow and a quick Console, 2 notifications, channels of 1, 4 crashes or cuts |
| `DemoProject` | `Accounted`, `ReadyIsWhole`, `BusyEnds` | 3 overlapping jobs, 4 failures or restarts |
| `Connections` | `OneHolder`, `FileCurrent`, `PairFits` | 2 sign-ins (symmetric), 2 OAuth apps, 2 requests at once, 4 attempts |
| `Stores` | `UploadsKept`, `SavesKept`, `AlwaysReadable`, `MirrorReplaced`, `RoleExact`, `RemovalCompletes`, `CreatedAsAsked` | 2 files and 2 jobs; 2 tabs and 4 remotes, two of them refused; 1 account on 2 warehouses and 2 requests; 2 replicas, 2 columns, 3 saves; 2 creators |
| `Requests` | `HandledOnce`, `Limited`, `TenantBound`, `GridExact`, `OneKeySet`, `AdvertisedServed`, `SecretsStay`, `AsksEnd`, `StopEnds` | 2 drafts or a draft and an alert with 3 faults; 6 requests of 2 callers against a budget of 2 over 2 windows; 2 requests beside the process; results of 2 endpoints, 2 batches, 2 rows; 3 look-ups of 2 boxes; 2 deployments; configuration trees of depth 3 |
| `AdoptCredentials` | `AdoptKeepsCredentials`, refuted | 1 pipeline, 1 box edit |

`Stores`, `Requests` and `SourceTests` each check several components that share
no state: `focus`, chosen at the start, names the one that runs, and the others
stay in an initial state. Nothing is lost, as no property relates two of them.

Why these bounds: one box commit is enough to land between any two calls of a
pass or a save, two to fail the retry after a conflict, one fault to fail any
call (`MaxTrouble` bounds edits, seals and faults together). An edit together
with a fault in the sweep is in `Adopt`, one together with a save in `Drift`.
Two names are the smallest collision, two replicas, tabs, creators or requests
the smallest race; three workers give an overlap of pods beside a second tenant,
three jobs a load, its removal and a load again. A channel of one and a list of
one are full after one notification; row limits and message bounds are given
values below, at and above what arrives. The limiter's budget is 2, so that a
request can open a window, be counted in one or find it full, and one caller
asks often enough for the burst over two windows. The properties proved in
section 4 need no such argument.

Deadlock is not checked where saves, commits, runs or requests are bounded: once
they are used up the model may stop. `SourceTests` and `Transformations` have no
such end and are checked for deadlock.

Properties that are conditional say so because the code is: `SaveConverges` and
`HeaderlessKept` are for one save at a time, `UploadsKept` for rows nobody wrote
between another request's last read and its write, `SavesKept` leaves out
columns the plaintext migration rewrote, `FileCurrent` reconnected connections,
failed commits and overlapping converges, `DriftSettles` edits that take a name
in use and stay, `ReadyIsWhole` the files of a demo whose requests overlapped,
demo `Accounted` deaths, failed rollback steps and overlapping requests,
`MirrorReplaced` and `RoleExact` requests that were not alone. `Limited` allows
for requests that wait with an old clock reading.
`RowsFollowRepo` is checked without saves: a save that commits while a sweep
adopts an older edit leaves row and file different.

### Fairness

* Saves run to their end (`WF` on `Save`): handlers have a timeout and no loop
  without a bound. They may still fail or be cut off by a restart.
* `WF(AdoptCustomer)`, `WF(FailStuckRunningRuns)`, `WF(SweepExpiredSourceTests)`:
  tickers in `for` loops that survive a failed pass.
* `WF(GetEnabledPipelines)`, `WF(Handle)`, `WF(ReportPipelineRun(r, "running"))`:
  a worker that keeps polling and requests that proceed, for `PendingServed`.
  `StuckRunsHeal` needs nothing of the worker; nor do source tests.
* `WF(Age)`, `WF(Expire)`, `WF(TenSeconds)`: time passes. `WF(GetSourceTest)`: an
  open Console polls.
* Notifications: a replica reconnects and listens again, a producer publishes,
  and the stream of a Console that is not slow is read.
* Demo: a worker takes its next step unless it dies, a claim grows stale.
* Catalog: a request proceeds, and whoever wants an account gone tries again.
* Requests: a goroutine (`Goroutine(c)`) and the process (`Process`) proceed.
  Calls and model requests carry timeouts.

### Refinement

`Bell` has three variables: what was raised, read and seen by whom.
`Notifications` implements it with `raised`, `read` and `seen` computed from the
table and the Consoles (`ImplementsBell`): whatever is duplicated or reordered on
the way, a Console only ever shows persisted notifications. The run checks it,
`BusImplementsBell` proves it.

## 3. Where code and comments part

`AdoptCredentials` is a run TLC must refute: the sweep lists rows without their
credentials and writes them back, so adopting any edit of a file clears the
stored credentials, which `pipelinemirror.go:442` says are never touched.

The following were met while modelling and are not reproduced by a run; the
models do what the code does, and conditions of properties leave them out.

* Renaming a pipeline deletes its external credential file
  (`pipelinemirror.go:617`, against `:927`).
* A sweep beside a save may take the Console's own credential file for the box's
  (`pipelinemirror_adopt.go:218`, against `:214`).
* Of two concurrent saves the older snapshot may win in the repository
  (`pipelinemirror.go:833`, against `:132`); a save before the first import
  deletes rendered files (`:653`, against `:640`); a box rename to a used name
  is neither adopted nor refused and stops every later sweep
  (`pipelinemirror_adopt.go:128`, against `:25`; the exception `Clashes` of
  `DriftSettles`).
* "The periodic converge heals" (`transformation.go:146`): only adoption is
  periodic.
* A connection created again after a reconnect does not converge the files that
  use it (`server/connection.go`, against `postgres/connection.go:41`); a second
  consent without an identity collides on the name "Google"
  (`connection.go:247`); a grant is spent although the save fails
  (`pipeline.go:252`); the guard of `DeleteConnection` is a check before the
  delete. The client is injected into a duckdb credential only when that comes
  from a connection (`pipeline.go:738`, against `pipeline_schema.go:665`), and an
  update that keeps its credentials skips their checks (`pipeline_schema.go:532`,
  `:1005`).
* `rewrap.go:115` does not hold of a replica not yet rotated; the plaintext
  migration (`migrate.go:71`) has no compare-and-set.
* An open notification stream makes a graceful shutdown end with an error, and a
  listener that fails during one exits 0 (`main.go:967`).
* Demo: "cleaned up and retried" (`demo.go:256`) does not cover what was made
  after the last saved seed, and a deletion that failed and was compensated
  leaves its pipeline under a new id (`pipeline.go:489`). Files are deleted by
  path (`demo.go:626`): the rollback of a load takes the files of one it
  overlaps, whose demo is then shown as ready without them.
* Adding an account as reader or writer takes a leftover `ownership` away
  (`lakekeeper/client.go:532`), which the comment at `:435` says is left
  untouched; `RoleExact` states what the code does, as a leftover `ownership`
  would also show the account as an admin.
* `RemoveWarehouseRole` takes a 404 of a batch for success
  (`lakekeeper/client.go:572`); a failed follow-up of `AddApp` leaves the
  application (`casdoor/apps.go:62`); a warehouse whose answer was lost stays and
  the retry is refused (`warehouse.go:79`).
* The capability of the query engine is always advertised: it follows an address
  that is never empty (`server/bootstrap.go:141`), while the engine is refused
  without a token (`server/query.go:55`), against `bootstrap.go:62`.
  `AdvertisedServed` leaves this surface out.
* A stale OAuth credential is marked as reported before the user is told, and a
  failure to tell is only logged (`pipelinemirror.go:312`): the notice may never
  come, and no property relies on it.
* The type check of a restore may be stale when it is used (`pipeline.go:537`).
* `source_config` is not capped in an error context (`assist_explain.go:132`,
  against `:14`); the table browser ignores that a listing was truncated
  (`query.go:111`); the limiter reads the clock before it has the mutex.

## 4. Proofs

For every value of the constants that satisfies the named assumptions (bounds
are naturals, placeholders such as `None` are none of the values beside them).
Every proof has the same shape: an inductive invariant holds initially, every
action keeps it, and it implies the property. Modules of proofs group components
so that each stays small enough to check quickly.

| Module | Theorem | States |
|---|---|---|
| `RunsProofs` | `RunSafety` | `OutcomeKept`, with types and `RunHasPipeline` |
| | `AccountsExact` | `RoleExact` |
| `GitFirstProofs` | `SealsKept` | `ForeignSealsKept`, for any savers |
| `ConvergeProofs` | `LoneSavesConverge` | `SaveConverges` of `GitFirst`, one save at a time |
| | `HeaderlessFilesKept` | `HeaderlessKept`, one save at a time |
| `SourceTestsProofs` | `TestsProbedOnce`, `VerdictsStand`, `CredentialsDropped` | `ProbedOnce`, `ShownVerdictStands`, `CredentialsUntilAnswered` |
| | `RestoresOwn` | `RestoredOwn` |
| `TransformationsProofs` | `TriggersOwned`, `SavesConverge` | `TriggerOwned`, `SaveConverges` of `Transformations` |
| | `RacesShareKeys`, `CachedKeysStay` | `OneKeySet`; a cached key set is never replaced |
| | `DocumentTrue` | `AdvertisedServed` |
| `NotificationsProofs` | `NothingGoesAstray`, `BusImplementsBell` | `Accounted`, `ImplementsBell` |
| | `MirrorsReplaced` | `MirrorReplaced` |
| `DemoProjectProofs` | `LoadsAccounted`, `ReadyWhole` | `Accounted`, `ReadyIsWhole` |
| | `FilesHold` | `FilesInv`: no rollback takes a file a seed answers for, one request at a time |
| `StoresProofs` | `RotationKeepsSaves`, `KeysDroppedSafely` | `SavesKept`, `AlwaysReadable` |
| | `UploadsServed`, `WarehousesAsAsked` | `UploadsKept`, `CreatedAsAsked` |
| | `RelayActsOnce`, `ServedForOwnTenant` | `HandledOnce`, `TenantBound` |

None of the properties is inductive as it stands. What the invariants add:

* Runs (`RunOK`): a run whose outcome was acknowledged has no job and no report
  left that could write it; a terminal report past its write finds its status in
  the row unless the run is gone; ids not handed out are blank.
* Credential files (`SealInv`): no render row, in the table or in what a converge
  has read, names a blob the box encrypted. So a box blob in a tree is foreign to
  every tracked pipeline, and the one step that replaces a credential file by
  another (`OverwriteIsUpsert`) takes the foreign branch.
* Converge (`ConvergeInv`, on top of `SealInv`): the snapshot of a converge
  agrees with itself, its lists of work left contain only what is due, and, as
  long as nobody committed since the tree was read, what is on neither list is
  done: a definition is the render of its row, a file without a row carries no
  header, a credential file decrypts to the row's credentials or was left to the
  box, no other credential file exists. A rendered header appears nowhere but on
  files a converge writes. `OneAtATime` (`\A s, t \in Savers : s = t`) is the
  hypothesis of both theorems and used for one thing: the files a converge
  compares change between its steps only by commits of the box, which are
  counted. Two overlapping saves do undo each other's writes (section 3), so it
  cannot be dropped.
* Source tests (`IInv`): a pending test was never handed out, at most one worker
  knows a test, and a verdict a worker still holds for an answered test is the
  row's, so a repeated report changes nothing.
* Versions (`VersionsInv`): every file of the history under an id, and every
  definition a request holds for it, is one that pipeline has had.
* Transformations (`TransInv`): triggers that passed the check stay out of
  foreign workspaces in rows, saves and the sweep (`StoreInv`, `PassInv`), and
  the lists of a converge are what is left to do (`SaveInv`).
* Notifications (`NInv`): a notification is persisted from the moment its
  producer begins, and only persisted ones are on wires and in channels.
* Demo (`DemoInv`): with no death and no overlap at most one job works, and what
  it made is in its seed or the row's (`AloneInv`); a finished seed names
  everything (`WholeInv`). For the files (`FilesInv`, without overlap): one job
  is live, and while it is a load the row names nothing, so that its rollback
  can delete by path and take nothing the row answers for.
* Keys (`KInv`): replicas hold rings the operator gave them, no rewrap to the old
  key is under way once the audit counts, and a column the audit found clean
  stays clean.
* File drop (`DropInv`): a request that is not stale holds the row as it is.
* Warehouses: from creation to look-up the warehouse is there as asked for.
* Catalog (`CatalogInv`): a request alone with its account has achieved what its
  step says (`Achieved`), and a difference of the managed relations makes what is
  there what is wanted, beside what was granted out of band (`PatchedExact`).
* Editor (`EditorInv`): a request alone with the mirrors has left to drop exactly
  those that are there (`LeftToDrop`).
* Relay, gateway, trust, surfaces: an open call was not handled; a request in a
  handler is bound to the tenant of its token; whoever holds a key set holds the
  cached one; a current copy of the document agrees with the deployment.

`SealInv` and `ConvergeInv` were also checked by TLC on the instances of `Saves`,
`Adopt` and `Drift`.

Only model-checked:

* all liveness (`StuckRunsHeal`, `PendingServed`, `RowsFollowRepo`, `Hydrates`,
  `DriftSettles`, `WaitEnds`, `Delivered`, `BusyEnds`, `RemovalCompletes`,
  `AsksEnd`, `StopEnds`): fairness and ENABLED are out of the prover's reach;
* `GridExact` and `SecretsStay`: folds and recursion over data, whose induction
  the provers cannot instantiate;
* `Limited`: it counts, over windows that slide;
* `OneHolder`, `FileCurrent`, `PairFits`: no inductive invariant over the
  documents, whose members are optional, has been worked out yet.

## 5. Not modelled

* Box credentials: `main.go` does not mount the service, and its stores have no
  implementation in this repository. Telemetry, generated RPC stubs.
* In the mirror, the rewriting of file_upload configurations and a box without
  an age key. In queries, the JSON form of nested Arrow types, and the body of a
  proxied snapshot. In the catalog client, bootstrap, namespaces and storage
  changes, which nothing here calls.
* Slugs character by character, how `encodeNotification` shortens a body, the
  limiter with a budget that is not positive, the wording of prompts.

Earlier versions of this project also had runs TLC had to refute for the first
three items of section 3 (`ExternalRename`, `SweepFlagsOwn`, `ConcurrentSaves`,
`SaveBeforeImport`, `NameClash`), a run `Seals` with two savers for
`ForeignSealsKept`, now proved for any number, and the shallower properties
`RunHasPipeline`, `ShownVerdictStands` and `CredentialsUntilAnswered`, which
are now proved and no longer run.

## 6. Plan

1. `Connections`: documents as total functions, then a proof of `OneHolder`.
2. An abstract run queue that `PipelineRuns` refines.
3. `FileSlugs`: the character-level slug against a reference definition.
4. What two overlapping saves do guarantee, as a weaker `SaveConverges`.
