---------------------------- MODULE Connections ----------------------------
(***************************************************************************)
(* "Sign in with Google" of one workspace: the customer's own OAuth app,   *)
(* the consent that mints a one-time grant, the connections and pipelines  *)
(* that redeem it, and the credential file the mirror renders from them.   *)
(*                                                                         *)
(* A sign-in is a flow; its grant, its refresh token and the connection it *)
(* creates carry its name.  An app stands for its client id and secret.    *)
(* One pipeline, whose credential file is the one the worker reads.        *)
(***************************************************************************)
EXTENDS SourceSchema, Naturals

CONSTANTS Flows,    \* sign-ins
          Apps,     \* OAuth apps the customer may register
          Registered, \* the one registered at first
          Reqs,     \* requests in flight
          Drafts,   \* what the editor may save: [type, config, creds]
          MaxTries  \* bound: what users start and what fails

VARIABLES pair,   \* the registered app, "" for none
          flow,   \* flow -> its consent, then its grant
          conn,   \* id -> the connection, NoDoc when there is none
          row,    \* the pipeline
          file,   \* its rendered credentials, NoDoc for no file
          req,    \* the requests in flight
          seen,   \* what has happened so far, for the properties
          tries

vars == <<pair, flow, conn, row, file, req, seen, tries>>

NoRow == [type |-> "none", config |-> NoDoc, creds |-> NoDoc]
Idle == [pc |-> "idle"]
NewFlow == [pc |-> "idle", app |-> "", email |-> "", scopes |-> {}]

Try == tries < MaxTries /\ tries' = tries + 1
Quiet == UNCHANGED tries
Flying == {o \in Reqs : req[o].pc # "idle"}
Saw(S) == seen' = seen \cup S
Behind == <<"behind", "">>
Reconnected == <<"reconnected", "">>

Init ==
  /\ pair = Registered
  /\ flow = [f \in Flows |-> NewFlow]
  /\ conn = [f \in Flows |-> NoDoc]
  /\ row = NoRow /\ file = NoDoc
  /\ req = [o \in Reqs |-> Idle]
  /\ seen = {} /\ tries = 0

-----------------------------------------------------------------------------
(* The consent *)

\* The customer's app, "" when none is connected.
GetOAuthClient == pair
\* The signed state names the flow, the consent URL the app it is asked for.
SignState(f) == [flow[f] EXCEPT !.pc = "asked"]
AuthURL(state, app) == [state EXCEPT !.app = app]
GoogleOAuthStartHandler(f) ==
  /\ Try /\ flow[f].pc = "idle" /\ GetOAuthClient # ""
  /\ flow' = [flow EXCEPT ![f] = AuthURL(SignState(f), GetOAuthClient)]
  /\ UNCHANGED <<pair, conn, row, file, req, seen>>

\* Google exchanges a code only for the app the consent was asked for.
VerifyState(f) == flow[f].pc = "asked"
Exchange(f) == GetOAuthClient = flow[f].app
\* The grant keeps the scopes the user left in, and no email without an id token.
CreateGoogleOAuthGrant(f, email, scopes) ==
  flow' = [flow EXCEPT ![f] = [pc |-> "live", app |-> GetOAuthClient, email |-> email, scopes |-> scopes]]

\* The app is looked up again.  The user may refuse, narrow the scopes, or
\* come back with no identity; a failed flow leaves no grant.
GoogleOAuthCallbackHandler(f) ==
  /\ VerifyState(f)
  /\ \/ /\ Exchange(f) /\ Quiet
        /\ \E email \in {"", "user"}, scopes \in {{}, {"sheets"}, {"sheets", "drive"}} :
             CreateGoogleOAuthGrant(f, email, scopes)
     \/ (Try \/ (Quiet /\ ~Exchange(f))) /\ flow' = [flow EXCEPT ![f].pc = "gone"]
  /\ UNCHANGED <<pair, conn, row, file, req, seen>>

Lapse(f) ==
  /\ flow[f].pc = "live" /\ Quiet
  /\ flow' = [flow EXCEPT ![f].pc = "expired"]
  /\ UNCHANGED <<pair, conn, row, file, req, seen>>

Swept(pc) == pc = "expired"
DeleteExpiredGoogleOAuthGrants ==
  /\ \E f \in Flows : Swept(flow[f].pc)
  /\ Quiet
  /\ flow' = [f \in Flows |-> IF Swept(flow[f].pc) THEN [flow[f] EXCEPT !.pc = "gone"] ELSE flow[f]]
  /\ UNCHANGED <<pair, conn, row, file, req, seen>>

\* Mutant: the grant outlives its redemption.
ConsumeKeeping(f) == flow[f].pc = "live" /\ UNCHANGED flow
\* DELETE ... RETURNING of a live grant.
ConsumeGoogleOAuthGrant(f) ==
  /\ flow[f].pc = "live"
  /\ flow' = [flow EXCEPT ![f].pc = "gone"]

-----------------------------------------------------------------------------
(* What the worker is served *)

GetConnection(c) == conn[c]
\* The token behind a connection reference; an unresolvable one stays as it is.
resolveConnectionCredential(type, raw) ==
  LET c == googleConnectionRef(type, raw)
  IN IF c # "" /\ GetConnection(c) # NoDoc
     THEN storedGoogleOAuthCreds(raw, GetConnection(c).tok, GetConnection(c).app) ELSE raw
\* oauthClientResolver: the pair, looked up once per listing.
load == GetOAuthClient

\* oauthClientResolver.inject; a Google credential the pair does not fit is
\* served without it, and one embedded in the row as it is stored.
inject(type, raw) ==
  LET resolved == resolveConnectionCredential(type, raw)
  IN IF ~isGoogleOAuthSourceType(type) THEN raw
     ELSE IF load # "" /\ MintedBy(parseGoogleOAuth(type, resolved), load)
     THEN injectGoogleOAuthClient(type, resolved, load)
     ELSE IF resolved # raw THEN serveGoogleOAuthCredential(type, resolved) ELSE raw

-----------------------------------------------------------------------------
(* Requests *)

Goto(o, r) == req' = [req EXCEPT ![o] = r]
End(o) == Goto(o, Idle)
Begin(o) == Try /\ req[o].pc = "idle" /\ \A p \in Reqs : p < o => req[p].pc # "idle"
Converge(undo) == [pc |-> "sync", undo |-> undo]

UpsertOAuthClient(app) == pair' = app
ValidateOAuthClient(app) == app # ""
SetOAuthClient(o, app) ==
  /\ Begin(o) /\ ValidateOAuthClient(app) /\ app # pair /\ UpsertOAuthClient(app)
  /\ Goto(o, Converge(<<>>))
  /\ UNCHANGED <<flow, conn, row, file, seen>>

DeleteOAuthClientRow == pair # "" /\ pair' = ""
\* Mutant: a disconnect converges nothing.
DeletePairOnly(o) ==
  /\ Begin(o) /\ DeleteOAuthClientRow
  /\ UNCHANGED <<req, flow, conn, row, file, seen>>
DeleteOAuthClient(o) ==
  /\ Begin(o) /\ DeleteOAuthClientRow
  /\ Goto(o, Converge(<<>>))
  /\ UNCHANGED <<flow, conn, row, file, seen>>

ListConnections == conn
\* CreateGoogleConnection lists, redeems, then stores.
CreateConnection(o, f, name) ==
  /\ Begin(o) /\ flow[f].pc \notin {"idle", "asked"}
  /\ Goto(o, [pc |-> "redeem", flow |-> f, name |-> name, list |-> ListConnections])
  /\ UNCHANGED <<pair, flow, conn, row, file, seen>>
redeemGoogleGrant(o) ==
  /\ req[o].pc = "redeem" /\ Quiet
  /\ LET f == req[o].flow IN
     \/ ConsumeGoogleOAuthGrant(f) /\ Goto(o, [req[o] EXCEPT !.pc = "store"])
     \/ flow[f].pc # "live" /\ End(o) /\ UNCHANGED flow
  /\ UNCHANGED <<pair, conn, row, file, seen>>

\* Identity is the account; no email matches nothing.
findGoogleConnectionByEmail(list, email) ==
  {c \in Flows : email # "" /\ list[c] # NoDoc /\ Member(list[c], "email", "") = email}
googleConnectionName(name, email) == IF name # "" THEN name ELSE IF email # "" THEN email ELSE "Google"
Stored(f, name) ==
  [name |-> name, email |-> flow[f].email, app |-> flow[f].app, scopes |-> flow[f].scopes, tok |-> f]
\* A name is unique.
NameTaken(name) == \E c \in Flows : conn[c] # NoDoc /\ conn[c].name = name
CreateConnectionRow(f, name) == conn' = [conn EXCEPT ![f] = Stored(f, name)]
\* The display name is left alone.
ReauthorizeConnection(c, f) == conn[c] # NoDoc /\ conn' = [conn EXCEPT ![c] = Stored(f, conn[c].name)]
storeConnection(o) ==
  /\ req[o].pc = "store" /\ End(o)
  /\ LET f == req[o].flow
         prior == findGoogleConnectionByEmail(req[o].list, flow[f].email)
         name == googleConnectionName(req[o].name, flow[f].email)
     IN \/ /\ prior # {} /\ Quiet
           /\ \E c \in prior :
                \/ ReauthorizeConnection(c, f) /\ Saw({Reconnected})
                \/ conn[c] = NoDoc /\ UNCHANGED <<conn, seen>>
        \/ /\ prior = {} /\ Quiet
           /\ IF NameTaken(name) THEN UNCHANGED conn ELSE CreateConnectionRow(f, name)
           /\ UNCHANGED seen
        \/ Try /\ UNCHANGED <<conn, seen>>
  /\ UNCHANGED <<pair, flow, row, file>>

credentialReferencesConnection(raw, c) == Member(Member(raw, "oauth", NoDoc), "connection_id", "") = c
DeleteConnection(o, c) ==
  /\ Begin(o) /\ conn[c] # NoDoc
  /\ ~credentialReferencesConnection(row.creds, c)
  /\ Goto(o, [pc |-> "remove", id |-> c])
  /\ UNCHANGED <<pair, flow, conn, row, file, seen>>
DeleteConnectionRow(c) == conn' = [conn EXCEPT ![c] = NoDoc]
\* The guard is best effort: a save may slip in behind it.
removeConnection(o) ==
  /\ req[o].pc = "remove" /\ Quiet
  /\ DeleteConnectionRow(req[o].id)
  /\ Goto(o, Converge(<<>>))
  /\ UNCHANGED <<pair, flow, row, file, seen>>

-----------------------------------------------------------------------------
(* Pipeline saves *)

Saves(o, d, creds, keep) ==
  /\ Begin(o) /\ ValidateSourceConfig(d.type, d.config)
  /\ keep \/ ValidateSourceCredentials(d.type, d.config, d.creds)
  /\ Goto(o, [pc |-> IF keep THEN "write" ELSE "swap", old |-> row,
               new |-> [type |-> d.type, config |-> d.config, creds |-> creds]])
  /\ UNCHANGED <<pair, flow, conn, row, file, seen>>
CreatePipeline(o, d) == row = NoRow /\ Saves(o, d, d.creds, FALSE)
\* An update with no credentials keeps the stored ones, without looking at
\* them, unless it asks to clear them.
resolveUpdateCredentials(d, clear) == IF isEmptyJSON(d.creds) /\ ~clear THEN row.creds ELSE d.creds
ClearCredentials(d, clear) == clear => isEmptyJSON(d.creds)
UpdatePipeline(o, d, clear) ==
  /\ row # NoRow /\ ClearCredentials(d, clear)
  /\ Saves(o, d, resolveUpdateCredentials(d, clear), isEmptyJSON(d.creds))

\* Scopes that were not recorded are unknown, and read as granted.
HasGoogleScope(c) == conn[c].scopes = {} \/ "drive" \in conn[c].scopes
checkGoogleConnection(type, c) ==
  conn[c] # NoDoc /\ (googleScopeRequired(type) => HasGoogleScope(c))
\* swapGoogleOAuthGrant
swap(o) ==
  /\ req[o].pc = "swap" /\ Quiet
  /\ LET new == req[o].new
         c == googleConnectionRef(new.type, new.creds)
         f == googleGrantID(new.type, new.creds)
         Write(n) == Goto(o, [req[o] EXCEPT !.pc = "write", !.new = n])
     IN \/ c # "" /\ checkGoogleConnection(new.type, c) /\ UNCHANGED flow /\ Write(new)
        \/ c # "" /\ ~checkGoogleConnection(new.type, c) /\ UNCHANGED flow /\ End(o)
        \/ c = "" /\ f = "" /\ UNCHANGED flow /\ Write(new)
        \/ c = "" /\ f # "" /\ ConsumeGoogleOAuthGrant(f)
           /\ Write([new EXCEPT !.creds = storedGoogleOAuthCreds(@, f, flow[f].app)])
        \/ c = "" /\ f # "" /\ flow[f].pc # "live" /\ UNCHANGED flow /\ End(o)
  /\ UNCHANGED <<pair, conn, row, file, seen>>

\* Whatever fails from here on, a redeemed grant is gone.
Written(o, there) == req[o].pc = "write" /\ (req[o].old # NoRow) = there
Stores(o, ok) ==
  /\ \/ ok /\ Quiet /\ row' = req[o].new /\ Goto(o, Converge(<<req[o].old>>))
     \/ (Try \/ (Quiet /\ ~ok)) /\ End(o) /\ UNCHANGED row
  /\ UNCHANGED <<pair, flow, conn, file, seen>>
\* A name is unique.
insert(o) == Written(o, FALSE) /\ Stores(o, row = NoRow)
\* An update needs its row.
finishUpdate(o) == Written(o, TRUE) /\ Stores(o, row # NoRow)

-----------------------------------------------------------------------------
(* SyncCustomer *)

\* No credentials, no file.
Render == inject(row.type, row.creds)
loadCredentialState == <<pair, conn, row>>
\* The notice about a token of another app (notifyStaleOAuthCredential) is best
\* effort and changes nothing here: it is left out.
sync(o) ==
  /\ req[o].pc = "sync" /\ Quiet
  /\ Goto(o, [pc |-> "commit", undo |-> req[o].undo, doc |-> Render, inputs |-> loadCredentialState])
  /\ UNCHANGED <<pair, flow, conn, row, file, seen>>
\* A failed commit may have gone through; a save then tries to put
\* its row back.
commit(o) ==
  /\ req[o].pc = "commit" /\ End(o)
  /\ \/ /\ Quiet /\ file' = req[o].doc
        /\ seen' = IF req[o].inputs = loadCredentialState THEN seen \ {Behind, Reconnected} ELSE seen \cup {Behind}
        /\ UNCHANGED row
     \/ /\ Try /\ file' \in {file, req[o].doc} /\ Saw({Behind})
        /\ row' \in {row} \cup {req[o].undo[i] : i \in DOMAIN req[o].undo}
  /\ UNCHANGED <<pair, flow, conn>>
-----------------------------------------------------------------------------
(* Specification *)

Request(o) ==
  \/ DeleteOAuthClient(o)
  \/ \E app \in Apps : SetOAuthClient(o, app)
  \/ \E f \in Flows : DeleteConnection(o, f) \/ \E name \in {"", "mine"} : CreateConnection(o, f, name)
  \/ \E d \in Drafts : CreatePipeline(o, d) \/ \E clear \in BOOLEAN : UpdatePipeline(o, d, clear)
Serve(o) ==
  \/ redeemGoogleGrant(o) \/ storeConnection(o) \/ removeConnection(o)
  \/ swap(o) \/ insert(o) \/ finishUpdate(o) \/ sync(o) \/ commit(o)
Next ==
  \/ \E f \in Flows : GoogleOAuthStartHandler(f) \/ GoogleOAuthCallbackHandler(f) \/ Lapse(f)
  \/ DeleteExpiredGoogleOAuthGrants
  \/ \E o \in Reqs : Request(o) \/ Serve(o)
Spec == Init /\ [][Next]_vars

-----------------------------------------------------------------------------
(* Properties *)

TokenOf(doc) ==
  IF "oauth" \in DOMAIN doc THEN Member(doc.oauth, "refresh_token", "")
  ELSE Member(Member(doc, "secret", NoDoc), "REFRESH_TOKEN", "")
SecretOf(doc) ==
  IF "oauth" \in DOMAIN doc THEN Member(doc.oauth, "client_secret", "")
  ELSE Member(Member(doc, "secret", NoDoc), "CLIENT_SECRET", "")

\* A sign-in is redeemed once: its refresh token is held by one connection or
\* by the pipeline, whoever redeems it and however the redemptions interleave
\* (ConsumeGoogleOAuthGrant: "redemption atomic and single-use").
OneHolder ==
  \A f \in Flows :
    LET held == {c \in Flows : conn[c] # NoDoc /\ conn[c].tok = f}
    IN (\A c, d \in held : c = d) /\ (TokenOf(row.creds) = f => held = {})

\* Once every request has been answered the credential file holds what the
\* row, the connection and the app give now, unless a commit failed or two
\* converges overlapped, or a connection was reconnected: a deleted app's secret
\* is gone from the file, a deleted connection's token too, and a new pair's
\* secret is in it (SyncCustomer).
FileCurrent == Flying = {} /\ seen \cap {Behind, Reconnected} = {} => file = Render

\* A credential file never pairs one app's secret with a token another app
\* minted (injectGoogleOAuthClient).
PairFits == SecretOf(file) # "" => SecretOf(file) = flow[TokenOf(file)].app

=============================================================================
