------------------------------ MODULE Gateway ------------------------------
(***************************************************************************)
(* The process and its two listeners: run's startup, the requests that the *)
(* interceptors of the public and of the internal mux let through, and     *)
(* serveAndShutdown.  The pipeline and transformation services are mounted *)
(* on both muxes; which caller an RPC is for is decided by the interceptor *)
(* and by workerAuth, from the token.                                      *)
(***************************************************************************)
EXTENDS Naturals

CONSTANT Requests    \* numbered in the order they arrive

VARIABLES phase,     \* where run is
          ctx,       \* run's context: "live", or "done" after a signal or cancel
          listener,  \* mux -> the state of its listener
          elapsed,   \* the shutdown's ten seconds are over
          failed,    \* shutdownErr is set
          exit,      \* how the process ended
          request    \* request -> its progress

gatewayVars == <<phase, ctx, listener, elapsed, failed, exit, request>>

Muxes == {"public", "internal"}

\* Tokens: signed and unexpired or not, by the workspace's own Casdoor issuer or
\* another one in its key set, naming an expected audience (or none is set) or
\* not, and a subject: a person, a member of the org by qualified name, one of
\* another org, the worker of a tenant, any other application.
Subjects == {"person", "member", "foreigner", "worker-own", "worker-other", "app"}
NoToken == [header |-> "none", valid |-> FALSE, iss |-> "other", aud |-> FALSE, sub |-> "person"]
Tokens == [header : {"bearer"}, valid : BOOLEAN, iss : {"own", "other"}, aud : BOOLEAN, sub : Subjects]
            \cup {NoToken, [NoToken EXCEPT !.header = "other"]}
RPCs == {"health", "user", "stream", "upload", "poll", "report"}
Slugs == {"own", "other", "none"}

Waiting == [pc |-> "waiting", mux |-> "public", rpc |-> "health", tenant |-> "none", token |-> NoToken]

GInit ==
  /\ phase = "telemetry" /\ ctx = "live" /\ listener = [m \in Muxes |-> "off"]
  /\ elapsed = FALSE /\ failed = FALSE /\ exit = "none"
  /\ request = [r \in Requests |-> Waiting]

-----------------------------------------------------------------------------
IsServiceAccount(sub) == sub \in {"worker-own", "worker-other", "app"}
tokenFromHeader(t) == t.header = "bearer"

\* People: a token from the pinned issuer, for the Console's audience.
parserOptions(t) == t.iss = "own" /\ t.aud
parseToken(t) == t.valid /\ parserOptions(t) /\ ~IsServiceAccount(t.sub)
authenticateToken(t) == parseToken(t)
authenticateBearer(t) == tokenFromHeader(t) /\ authenticateToken(t)
\* Unary RPCs, the notification stream, and the upload outside Connect.
WrapUnary(t) == authenticateBearer(t)
WrapStreamingHandler(t) == authenticateBearer(t)
userIDFromToken(t) == parseToken(t)
UserIDFromBearer(t) == tokenFromHeader(t) /\ userIDFromToken(t)

\* StaticResolver: every person of the workspace's own org.
GetWorkspaceByUser(sub) == ~IsServiceAccount(sub) /\ sub # "foreigner"

\* Service accounts: the pinned issuer binds the workspace's slug, the key set
\* alone binds none.
serviceAppFromSubject(t) == IsServiceAccount(t.sub)
slugForIssuer(t) == IF t.iss = "own" THEN "own" ELSE "none"
internalCallerFromRequest(t) == tokenFromHeader(t) /\ t.valid /\ serviceAppFromSubject(t)

\* buildInternalServers: which of the two mounts serves worker RPCs.
newWorkerAuth(mux) == mux = "internal"
\* callerSlug: the bound slug, else the one in a worker's name.
callerSlug(mux, t) ==
  CASE ~newWorkerAuth(mux) -> "none"
    [] newWorkerAuth(mux) /\ slugForIssuer(t) # "none" -> slugForIssuer(t)
    [] newWorkerAuth(mux) /\ slugForIssuer(t) = "none" ->
         IF t.sub = "worker-own" THEN "own" ELSE IF t.sub = "worker-other" THEN "other" ELSE "none"

\* Mutant: the poll serves the slug it is asked for.
PollTenantAsked(mux, t, slug) == slug

\* GetPipelineConfigs, GetPendingSourceTests: the slug asked for, if it is the
\* caller's.
PollTenant(mux, t, slug) == IF slug = callerSlug(mux, t) THEN slug ELSE "none"

\* What a mux lets through to a handler of the two services it mounts; a user
\* RPC on the internal one finds no user.
Admitted(mux, t) == IF mux = "public" THEN WrapUnary(t) ELSE internalCallerFromRequest(t)

\* Which tenant an RPC is served for, "none" when the interceptor or the handler
\* turns it away.  Reports take the tenant from the caller alone.
Tenant(mux, rpc, t, slug) ==
  LET member == mux = "public" /\ GetWorkspaceByUser(t.sub) IN
  CASE rpc = "health" -> IF mux = "public" THEN "own" ELSE "none"
    [] rpc = "user" -> IF member /\ WrapUnary(t) THEN "own" ELSE "none"
    [] rpc = "stream" -> IF member /\ WrapStreamingHandler(t) THEN "own" ELSE "none"
    [] rpc = "upload" -> IF member /\ UserIDFromBearer(t) THEN "own" ELSE "none"
    [] rpc = "poll" -> IF Admitted(mux, t) THEN PollTenant(mux, t, slug) ELSE "none"
    [] rpc = "report" -> IF Admitted(mux, t) THEN callerSlug(mux, t) ELSE "none"

\* A request reaches its handler, or is answered with an error.
Arrive(r) ==
  /\ request[r].pc = "waiting" /\ \A q \in Requests : q < r => request[q].pc # "waiting"
  /\ \E mux \in Muxes, rpc \in RPCs, t \in Tokens, slug \in Slugs :
       /\ listener[mux] = "open"
       /\ rpc = "health" => t = NoToken
       /\ LET tenant == Tenant(mux, rpc, t, slug) IN
          request' = [request EXCEPT ![r] =
            IF tenant = "none" THEN [Waiting EXCEPT !.pc = "refused"]
            ELSE [pc |-> "handler", mux |-> mux, rpc |-> rpc, tenant |-> tenant, token |-> t]]
  /\ UNCHANGED <<phase, ctx, listener, elapsed, failed, exit>>

\* The handler returns; a stream when its client leaves.
Handled(r) ==
  /\ request[r].pc = "handler" /\ phase # "exited"
  /\ request' = [request EXCEPT ![r] = [Waiting EXCEPT !.pc = "answered"]]
  /\ UNCHANGED <<phase, ctx, listener, elapsed, failed, exit>>

-----------------------------------------------------------------------------
Active(m) == \E r \in Requests : request[r].pc = "handler" /\ request[r].mux = m

\* run's startup: each step goes on or ends the process.
StartupStep(from, to) ==
  /\ phase = from
  /\ \/ phase' = to /\ UNCHANGED exit
     \/ phase' = "exited" /\ exit' = "error"
  /\ UNCHANGED <<ctx, listener, elapsed, failed, request>>
Setup == StartupStep("telemetry", "config")
ReadConfig == StartupStep("config", "database")
openDatabase == StartupStep("database", "keys")
loadKeys == StartupStep("keys", "wiring")

\* The internal API enforces service auth or does not start.
buildInternalOpts(mode) == mode \in {"", "enforce"}
Wire ==
  /\ phase = "wiring"
  /\ \E mode \in {"", "enforce", "log"} :
       IF buildInternalOpts(mode)
       THEN phase' = "serving" /\ listener' = [m \in Muxes |-> "starting"] /\ UNCHANGED exit
       ELSE phase' = "exited" /\ exit' = "error" /\ UNCHANGED listener
  /\ UNCHANGED <<ctx, elapsed, failed, request>>

StartUp == Setup \/ ReadConfig \/ openDatabase \/ loadKeys \/ Wire

\* SIGTERM, at any time.
Signal ==
  /\ ctx = "live" /\ phase # "exited" /\ ctx' = "done"
  /\ UNCHANGED <<phase, listener, elapsed, failed, exit, request>>

\* ListenAndServe, in a goroutine of its own: the port opens, or fails now or later.
Listen(m) ==
  /\ phase # "exited"
  /\ \/ listener[m] = "starting" /\ listener' = [listener EXCEPT ![m] = "open"]
     \/ listener[m] \in {"starting", "open"} /\ listener' = [listener EXCEPT ![m] = "failed"]
  /\ UNCHANGED <<phase, ctx, elapsed, failed, exit, request>>

\* Shutdown begins: the listener closes; with nothing active it is done at once.
Close(m, waits, next) ==
  /\ listener' = [listener EXCEPT ![m] = "closed"]
  /\ phase' = IF Active(m) THEN waits ELSE next

\* The select: the context ends or a listener failed.
Drain ==
  /\ phase = "serving" /\ (ctx = "done" \/ \E m \in Muxes : listener[m] = "failed")
  /\ ctx' = "done" /\ Close("public", "publicWait", "internal")
  /\ UNCHANGED <<elapsed, failed, exit, request>>

\* Mutant: the deadline is left out.
DeadlineNever == FALSE

Deadline == elapsed

\* errors.Join
Join(err) == failed \/ err

\* Shutdown's wait: the handlers are done, or the deadline comes first.
PublicDrained ==
  /\ phase = "publicWait" /\ phase' = "internal"
  /\ \/ ~Active("public") /\ UNCHANGED failed
     \/ Deadline /\ failed' = TRUE
  /\ UNCHANGED <<ctx, listener, elapsed, exit, request>>

CloseInternal ==
  /\ phase = "internal" /\ Close("internal", "internalWait", "stopped")
  /\ failed' = IF Active("internal") THEN failed ELSE Join(FALSE)
  /\ UNCHANGED <<ctx, elapsed, exit, request>>

InternalDrained ==
  /\ phase = "internalWait" /\ phase' = "stopped"
  /\ \/ ~Active("internal") /\ failed' = Join(FALSE)
     \/ Deadline /\ failed' = Join(TRUE)
  /\ UNCHANGED <<ctx, listener, elapsed, exit, request>>

\* run returns: the process ends, and with it what still runs.
Exit ==
  /\ phase = "stopped" /\ phase' = "exited"
  /\ exit' = IF failed THEN "error" ELSE "ok"
  /\ UNCHANGED <<ctx, listener, elapsed, failed, request>>

TenSeconds ==
  /\ phase \in {"publicWait", "internal", "internalWait"} /\ ~elapsed /\ elapsed' = TRUE
  /\ UNCHANGED <<phase, ctx, listener, failed, exit, request>>

Process == StartUp \/ Drain \/ PublicDrained \/ CloseInternal \/ InternalDrained \/ Exit

GNext ==
  \/ Process \/ TenSeconds \/ Signal
  \/ \E m \in Muxes : Listen(m)
  \/ \E r \in Requests : Arrive(r) \/ Handled(r)

GatewaySpec == GInit /\ [][GNext]_gatewayVars

-----------------------------------------------------------------------------

\* A worker's request is served for the tenant its token stands for, whatever
\* slug it asks for, and on the internal listener only; a user's request for
\* people of the workspace only (workerAuth, authInterceptor, StaticResolver).
TenantBound ==
  \A r \in Requests : request[r].pc = "handler" /\ request[r].rpc # "health" =>
    LET t == request[r].token IN
    /\ t.valid
    /\ request[r].rpc \in {"poll", "report"} =>
         /\ request[r].mux = "internal"
         /\ IF t.iss = "own" THEN request[r].tenant = "own"
            ELSE <<request[r].tenant, t.sub>> \in {<<"own", "worker-own">>, <<"other", "worker-other">>}
    /\ request[r].rpc \notin {"poll", "report"} =>
         t.iss = "own" /\ t.sub \in {"person", "member"}

\* Liveness: a signal ends the process, also while a notification stream is
\* open that never ends by itself (the ten-second shutdown context).
StopEnds == ctx = "done" ~> phase = "exited"

=============================================================================
