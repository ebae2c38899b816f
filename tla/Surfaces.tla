------------------------------ MODULE Surfaces ------------------------------
(***************************************************************************)
(* What a deployment says it serves and what it serves.  The environment   *)
(* of a deployment makes its workspace (loadStaticWorkspace); the document *)
(* the Console fetches before sign-in is built from that once, at startup  *)
(* (BootstrapFromWorkspace); the Console keeps its copy while the          *)
(* deployment may be replaced, and asks for the surfaces the copy names.   *)
(***************************************************************************)
EXTENDS Naturals

CONSTANT MaxDeploys    \* bound: deployments and changes of the OAuth pair, together

VARIABLES box,         \* the workspace of the running deployment
          pair,        \* whether the workspace has an OAuth application of its own
          page,        \* the Console's copy of the document
          told,        \* the last answer the Console got
          deploys

surfaceVars == <<box, pair, page, told, deploys>>

Down == [up |-> FALSE, rill |-> FALSE, cube |-> FALSE, engine |-> FALSE, oauth |-> FALSE, snapshot |-> FALSE]
NoPage == [known |-> FALSE, current |-> FALSE, rill |-> FALSE, cube |-> FALSE, duckflight |-> FALSE,
           filedrop |-> FALSE, oauth |-> FALSE]
Silent == [surface |-> "none", out |-> "none"]

SInit == box = Down /\ pair = FALSE /\ page = NoPage /\ told = Silent /\ deploys = 0

-----------------------------------------------------------------------------
(* A deployment *)

\* WORKSPACE_SLUG, WORKSPACE_CUSTOMER_DOMAIN, and whether the Casdoor settings
\* are there.
Identities == [slug : {"", "label", "other"}, org : BOOLEAN, issuer : BOOLEAN,
               domain : {"", "host", "wildcard", "url", "path", "single label", "upper case"}]
\* The rest: "" is an unset variable.
Features == [rill : {"", "false"}, cube : {"", "true"}, token : BOOLEAN, snapshot : BOOLEAN,
             redirect : BOOLEAN, secret : BOOLEAN]

validateCustomerDomain(domain) == domain \notin {"url", "path", "single label", "upper case"}
\* The wildcard form loses its star first.
loadStaticWorkspace(id) ==
  /\ id.slug = "label" /\ id.org /\ id.issuer
  /\ id.domain # "" /\ validateCustomerDomain(IF id.domain = "wildcard" THEN "host" ELSE id.domain)

\* A half-set configuration leaves the flow off.
buildGoogleOAuth(f) == f.redirect /\ f.secret

\* The deployment is replaced; one without an identity does not start.
Deploy ==
  /\ deploys < MaxDeploys /\ deploys' = deploys + 1
  /\ \/ (\E id \in Identities : ~loadStaticWorkspace(id)) /\ box' = Down
     \/ /\ \E id \in Identities : loadStaticWorkspace(id)
        /\ \E f \in Features :
             box' = [up |-> TRUE, rill |-> f.rill # "false", cube |-> f.cube = "true", engine |-> f.token,
                     oauth |-> buildGoogleOAuth(f), snapshot |-> f.snapshot]
  /\ page' = [page EXCEPT !.current = FALSE] /\ told' = Silent /\ UNCHANGED pair

\* The customer connects or removes their OAuth application (OAuthClients).
ChangePair ==
  /\ box.up /\ deploys < MaxDeploys /\ deploys' = deploys + 1 /\ pair' = ~pair
  /\ told' = Silent /\ UNCHANGED <<box, page>>

-----------------------------------------------------------------------------
(* The document *)

\* Mutant: Rill is named by its address, which is never empty.
BootstrapByAddress(rill, cube, duckflight, fileDrop, oauth) ==
  [known |-> TRUE, current |-> TRUE, rill |-> TRUE, cube |-> cube, duckflight |-> duckflight,
   filedrop |-> fileDrop, oauth |-> oauth]

\* The public subset; the file drop and the flow are passed in, as they were
\* mounted.
BootstrapFromWorkspace(rill, cube, duckflight, fileDrop, oauth) ==
  [known |-> TRUE, current |-> TRUE, rill |-> rill, cube |-> cube, duckflight |-> duckflight,
   filedrop |-> fileDrop, oauth |-> oauth]

\* The engine's address has a default, and the file drop is always mounted.
WorkspaceBootstrapHandler ==
  /\ box.up /\ page' = BootstrapFromWorkspace(box.rill, box.cube, TRUE, TRUE, box.oauth)
  /\ told' = Silent /\ UNCHANGED <<box, pair, deploys>>

-----------------------------------------------------------------------------
(* The surfaces *)

Answer(surface, out) == box.up /\ told' = [surface |-> surface, out |-> out] /\ UNCHANGED <<box, pair, page, deploys>>

\* A dedicated box has the sidecar of Rill only, behind the token it was given.
sidecarTarget(app) ==
  IF app # "rill" THEN "invalid"
  ELSE IF ~box.rill THEN "not enabled" ELSE IF ~box.snapshot THEN "no credential" ELSE "proxied"
TriggerSnapshot == \E app \in {"rill", "cube", "other"} : Answer("snapshot", sidecarTarget(app))
ListSnapshots == \E app \in {"rill", "cube", "other"} : Answer("snapshots", sidecarTarget(app))

\* The engine's address always has a default; the token has none.
engine == IF box.engine THEN "proxied" ELSE "not enabled"
Query == Answer("query", engine)

\* The two refusals of the flow: 501 for the deployment, 412 for the customer.
GoogleOAuthStart ==
  Answer("oauth", IF ~box.oauth THEN "not enabled" ELSE IF ~pair THEN "no application" ELSE "proxied")
\* GetOAuthClient: whether the flow can run here, and whether the pair is set.
state == [flow |-> box.oauth, configured |-> pair]
GetOAuthClient ==
  Answer("integrations", IF ~state.flow THEN "not enabled" ELSE IF state.configured THEN "connected" ELSE "no application")

SNext ==
  \/ Deploy \/ ChangePair \/ WorkspaceBootstrapHandler
  \/ TriggerSnapshot \/ ListSnapshots \/ Query \/ GoogleOAuthStart \/ GetOAuthClient

SurfacesSpec == SInit /\ [][SNext]_surfaceVars

-----------------------------------------------------------------------------

\* The Console never offers what the deployment turns away: as long as its copy
\* of the document is the running deployment's, a surface the document names
\* is not answered with "not enabled", and one it leaves out is.  The query
\* engine is not among them: it is always named, because its address is never
\* empty, and turned away without a token (BootstrapFromWorkspace,
\* sidecarTarget, GoogleOAuthStartHandler).
AdvertisedServed ==
  page.known /\ page.current =>
    /\ told.surface \in {"snapshot", "snapshots"} /\ told.out # "invalid" => (page.rill <=> told.out # "not enabled")
    /\ told.surface \in {"oauth", "integrations"} => (page.oauth <=> told.out # "not enabled")

=============================================================================
