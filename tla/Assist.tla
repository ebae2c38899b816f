------------------------------- MODULE Assist -------------------------------
(***************************************************************************)
(* AI drafting: the four draft RPCs and ExplainError, from the handler to  *)
(* the answer (workspace.AssistService, PipelineAssistService), with the   *)
(* model behind the provider the environment selects: the operator's own,  *)
(* or the FairTier API's relay (llm.Drafter over RemoteCaller).  A request *)
(* that needs the warehouse's schema lists its tables and describes them   *)
(* in parallel goroutines first.                                           *)
(***************************************************************************)
EXTENDS Relay, FiniteSets, Sequences, Functions

CONSTANTS Warehouse,           \* the warehouse's tables, in listing order
          maxDescribedTables,
          describeConcurrency,
          maxContextLines      \* lines after which the listing is cut short

ASSUME AssistAssumption ==
  /\ Warehouse \in Seq(STRING) /\ IsInjective(Warehouse)
  /\ {maxDescribedTables, describeConcurrency, maxContextLines} \subseteq Nat \ {0}

VARIABLES asked,    \* draft -> the request it serves
          provider, \* the LLM backend of this process
          own       \* whether the operator set a key or endpoint of their own

assistVars == <<relayVars, asked, provider, own, events>>

DraftKinds == {"pipeline", "transformation", "rill", "sql"}

NoAnswer == [content |-> "none", reason |-> FALSE, noted |-> FALSE]

Idle == [pc |-> "idle", kind |-> "pipeline", words |-> {}, next |-> 1, busy |-> {}, cols |-> {},
         context |-> <<>>, answer |-> NoAnswer, out |-> "none"]

-----------------------------------------------------------------------------
(* The provider *)

Keys == {"DEEPSEEK_API_KEY", "ANTHROPIC_API_KEY", "LLM_BASE_URL"}
\* The parts of the relay identity, each under its generic and its older name.
Identity == {<<"RELAY_TOKEN_URL", "ASSIST_TOKEN_URL">>, <<"RELAY_OIDC_CLIENT_ID", "ASSIST_OIDC_CLIENT_ID">>,
             <<"RELAY_OIDC_CLIENT_SECRET", "ASSIST_OIDC_CLIENT_SECRET">>}
Settings == Keys \cup {"LLM_API_KEY", "LLM_MODEL", "FAIRTIER_ASSIST_URL"} \cup UNION {Range(x) : x \in Identity}

\* A half-set trio disables drafting.
openAICompatCallerFromEnv(env) == IF {"LLM_API_KEY", "LLM_MODEL"} \subseteq env THEN "openai_compat" ELSE "none"
relayIdentity(env) == {x \in Identity : Range(x) \cap env # {}}
\* First match wins; DeepSeek is an OpenAI-compatible endpoint.
chooseStructuredCaller(env) ==
  CASE "DEEPSEEK_API_KEY" \in env -> "openai_compat"
    [] "DEEPSEEK_API_KEY" \notin env /\ "ANTHROPIC_API_KEY" \in env -> "anthropic"
    [] env \cap Keys = {"LLM_BASE_URL"} -> openAICompatCallerFromEnv(env)
    [] OTHER -> IF "FAIRTIER_ASSIST_URL" \in env /\ relayIdentity(env) = Identity THEN "fairtier_relay" ELSE "none"
\* buildAssistServers: what the drafters are wired to, of every environment.
buildAssistServers == {<<chooseStructuredCaller(env), env \cap Keys # {}>> : env \in SUBSET Settings}

AInit ==
  /\ RelayInit /\ events = 0 /\ asked = [d \in Drafts |-> Idle]
  /\ \E wired \in buildAssistServers : provider = wired[1] /\ own = wired[2]

To(d, pc) == asked' = [asked EXCEPT ![d].pc = pc]
Quiet == UNCHANGED <<relayVars, provider, own>>

\* The handler returns; what it held is gone.
Return(d, out, answer) ==
  asked' = [asked EXCEPT ![d] = [Idle EXCEPT !.pc = "done", !.out = out, !.answer = answer]]
\* What an error is for the caller.
draftError(err) ==
  IF err = "unconfigured" THEN "Unimplemented" ELSE IF err = "limited" THEN "ResourceExhausted" ELSE "Failed"
Finish(d, err) == Return(d, draftError(err), NoAnswer)

-----------------------------------------------------------------------------
(* Requests *)

Begin(d, kind, pc, words) == asked' = [asked EXCEPT ![d].pc = pc, ![d].kind = kind, ![d].words = words]

\* The caller's workspace, then the budget they have (RateLimiter).
scope(d, accept) == accept \/ Finish(d, "not found") \/ Finish(d, "limited")
\* A blank prompt is turned away first.
gate(d, prompt, accept) == IF prompt = "" THEN Finish(d, "invalid") ELSE scope(d, accept)

\* The tables a prompt has words of.
promptTokens(prompt) == IF prompt = "last" THEN {Warehouse[Len(Warehouse)]} ELSE {}

\* The other services an assistant is given at startup, whatever the provider.
Mounted == {"Schema", "PipelineRuns", "TransformationRuns"}
\* The service's methods up to their first call; without a provider they have
\* no drafter, and some need another service.
Wired(d, needs, method) ==
  IF provider = "none" \/ ~(needs \subseteq Mounted) THEN Finish(d, "unconfigured") ELSE method
DraftPipeline(d, prompt) == Wired(d, {}, gate(d, prompt, Begin(d, "pipeline", "llm", {})))
DraftTransformation(d, prompt) ==
  Wired(d, {}, gate(d, prompt, Begin(d, "transformation", "read", promptTokens(prompt))))
DraftRillDashboard(d, prompt) == Wired(d, {}, gate(d, prompt, Begin(d, "rill", "read", promptTokens(prompt))))
DraftSql(d, prompt) == Wired(d, {"Schema"}, gate(d, prompt, Begin(d, "sql", "read", promptTokens(prompt))))
ExplainPipelineRun(d) == Wired(d, {"PipelineRuns"}, scope(d, Begin(d, "run", "read", {})))
ExplainTransformationRun(d) == Wired(d, {"TransformationRuns"}, scope(d, Begin(d, "run", "read", {})))
ExplainSqlError(d, text) ==
  Wired(d, {}, IF text = "" THEN Finish(d, "invalid") ELSE scope(d, Begin(d, "sqlError", "read", {})))

\* The handlers turn a caller without an identity away; ExplainError goes by
\* its target, which may be missing.
Unauthenticated(d) == Return(d, "Unauthenticated", NoAnswer)
ServeDraftPipeline(d, prompt) == Unauthenticated(d) \/ DraftPipeline(d, prompt)
ServeDraftTransformation(d, prompt) == Unauthenticated(d) \/ DraftTransformation(d, prompt)
ServeDraftRillDashboard(d, prompt) == Unauthenticated(d) \/ DraftRillDashboard(d, prompt)
ServeDraftSql(d, prompt) == Unauthenticated(d) \/ DraftSql(d, prompt)
ExplainError(d, text) ==
  \/ Unauthenticated(d) \/ Finish(d, "invalid")
  \/ ExplainPipelineRun(d) \/ ExplainTransformationRun(d) \/ ExplainSqlError(d, text)

Request(d) ==
  /\ asked[d].pc = "idle" /\ (\A e \in Drafts : e < d => asked[e].pc # "idle") /\ Tick /\ Quiet
  /\ \E prompt \in {"", "last"} :
       \/ ServeDraftPipeline(d, prompt) \/ ServeDraftTransformation(d, prompt)
       \/ ServeDraftRillDashboard(d, prompt) \/ ServeDraftSql(d, prompt) \/ ExplainError(d, prompt)

-----------------------------------------------------------------------------
(* What goes into the prompt *)

\* The listing that failed: fatal for DraftSql and for the run that is to be
\* explained, best effort for the rest.
ReadFails(d) ==
  IF asked[d].kind \in {"sql", "run"} THEN Finish(d, "error") ELSE To(d, "llm")

\* Every table when they are few; else those the prompt has words of come
\* first, in listing order.
pickDescribeTargets(d) ==
  LET named(t) == t \in asked[d].words
      other(t) == t \notin asked[d].words
  IN IF Len(Warehouse) <= maxDescribedTables THEN Warehouse
     ELSE SubSeq(SelectSeq(Warehouse, named) \o SelectSeq(Warehouse, other), 1, maxDescribedTables)

\* Schema.Tables, or GetPipeline and GetTransformation for a run, which must
\* be among the recent ones.
Read(d) ==
  /\ asked[d].pc = "read" /\ Quiet
  /\ \/ Calm /\ asked[d].kind \notin DraftKinds /\ To(d, "llm")
     \/ Calm /\ asked[d].kind \in DraftKinds /\ To(d, "describe")
     \/ Tick /\ ReadFails(d)

\* sem <- struct{}{}
Slot(d) == Cardinality(asked[d].busy) < describeConcurrency

\* describeAll: the next goroutine starts once the semaphore has room.
Describe(d) ==
  LET n == asked[d].next IN
  /\ asked[d].pc = "describe" /\ n <= Len(pickDescribeTargets(d)) /\ Slot(d)
  /\ asked' = [asked EXCEPT ![d].next = n + 1, ![d].busy = @ \cup {pickDescribeTargets(d)[n]}]
  /\ Calm /\ Quiet

\* One DESCRIBE answers, or fails and leaves the table with its name only.
Columns(d, t) ==
  /\ t \in asked[d].busy /\ Quiet
  /\ \/ Calm /\ asked' = [asked EXCEPT ![d].busy = @ \ {t}, ![d].cols = @ \cup {t}]
     \/ Tick /\ asked' = [asked EXCEPT ![d].busy = @ \ {t}]

\* wg.Wait
DescribedAll(d) == asked[d].next > Len(pickDescribeTargets(d)) /\ asked[d].busy = {}

\* buildSchemaContext: a line for each table, its columns where they are known,
\* cut at the bound.
buildSchemaContext(d) ==
  [i \in 1..(IF Len(Warehouse) < maxContextLines THEN Len(Warehouse) ELSE maxContextLines) |->
     <<Warehouse[i], Warehouse[i] \in asked[d].cols>>]

Context(d) ==
  /\ asked[d].pc = "describe" /\ DescribedAll(d)
  /\ asked' = [asked EXCEPT ![d].pc = "llm", ![d].context = buildSchemaContext(d)]
  /\ Calm /\ Quiet

-----------------------------------------------------------------------------
(* The model *)

\* All explanations are one kind of call.
Asking(d) ==
  LET kind == IF asked[d].kind \in DraftKinds THEN asked[d].kind ELSE "explain_error"
  IN  asked' = [asked EXCEPT ![d] = [Idle EXCEPT !.pc = "wait", !.kind = kind]]
\* RemoteCaller: the call of the relay begins.
CompleteRelay(d) == provider = "fairtier_relay" /\ Start(d) /\ Calm
\* A provider of the operator's own: an empty answer, a refusal and a failure
\* are errors.  The SDK of Anthropic may repeat the exchange before it fails.
decodeChatResponse(reply) == IF reply = "text" THEN "drafted" ELSE "error"
firstText(reply) == IF reply = "text" THEN "drafted" ELSE "error"
Exchanged == UNCHANGED <<cache, stale, revoked, minted, minting, handled>>
CompleteOpenAICompat(d) ==
  /\ provider = "openai_compat" /\ Exchanged /\ Calm
  /\ \E reply \in {"text", "empty", "failure"} : Ends(d, decodeChatResponse(reply))
CompleteAnthropic(d) ==
  /\ provider = "anthropic" /\ Exchanged /\ Calm
  /\ \E reply \in {"text", "empty", "refusal", "failure"} : Ends(d, firstText(reply))
Complete(d) ==
  /\ asked[d].pc = "llm" /\ Asking(d) /\ UNCHANGED <<provider, own>>
  /\ CompleteRelay(d) \/ CompleteOpenAICompat(d) \/ CompleteAnthropic(d)

\* What the model may answer: a status, a content and what is wrong with it, and
\* a reason or note that may be blank; "name" is the transformation's.
ModelOutputs == [status : {"ok", "refused", "other"}, reason : BOOLEAN, name : BOOLEAN,
                 content : {"none", "good", "bad", "outside", "extension", "yaml"}]

\* A refusal has a reason, an "ok" has files, and there is nothing else.
draftStatus(o) ==
  IF o.status = "refused" /\ o.reason THEN "refusal"
  ELSE IF o.status = "ok" /\ o.content # "none" THEN "draft" ELSE "error"
\* The four drafters, and what the service makes of their drafts.
refusalDraft(o) == o.status = "refused" \/ o.reason
PipelineDraft(o) == IF refusalDraft(o) THEN "refusal" ELSE IF o.content = "good" THEN "draft" ELSE "error"
draftPathUnderRoot(o) == o.content # "outside"
draftPathHasAllowedExt(o) == o.content # "extension"
\* A path that is empty or not clean, no content, or too much of it.
validateDraftFile(o) == draftPathUnderRoot(o) /\ draftPathHasAllowedExt(o) /\ o.content # "bad"
validateDraftFiles(o) == o.content # "none" => validateDraftFile(o)
TransformationDraft(o) ==
  IF draftStatus(o) = "draft" /\ ~(o.name /\ validateDraftFiles(o)) THEN "error" ELSE draftStatus(o)
RillDraft(o) ==
  IF draftStatus(o) = "draft" /\ ~(validateDraftFiles(o) /\ o.content # "yaml") THEN "error" ELSE draftStatus(o)
\* A refusal carries its reason in the notes; the query is checked later.
validateSqlDraft(o) ==
  IF o.status = "refused" THEN o.reason ELSE o.content # "none"
SqlDraft(o) ==
  IF o.status = "other" \/ ~validateSqlDraft(o) THEN "error" ELSE IF o.status = "refused" THEN "refusal" ELSE "draft"
Verdict(kind, o) ==
  CASE kind = "pipeline" -> PipelineDraft(o) [] kind = "transformation" -> TransformationDraft(o)
    [] kind = "rill" -> RillDraft(o) [] kind = "sql" -> SqlDraft(o)
\* What may come of a kind, with the content a draft has: "bad" is a pipeline's
\* or a query's for whatever is wrong with it.
Content(kind, o) ==
  IF o.content \in {"none", "good"} \/ kind \in {"transformation", "rill"} THEN o.content ELSE "bad"
Verdicts == [kind \in DraftKinds |-> {<<Verdict(kind, o), Content(kind, o)>> : o \in ModelOutputs}]

\* The answer is decoded.  Explanations are returned as they are.
Decode(d) ==
  LET kind == asked[d].kind IN
  /\ asked[d].pc = "wait" /\ call[d].pc = "done" /\ Calm /\ Quiet
  /\ \/ /\ call[d].out = "drafted" /\ kind \in DraftKinds
        /\ \E v \in Verdicts[kind] :
             \/ v[1] = "refusal" /\ Return(d, "answer", [NoAnswer EXCEPT !.reason = TRUE])
             \/ v[1] = "draft" /\ kind # "sql" /\ Return(d, "answer", [NoAnswer EXCEPT !.content = v[2]])
             \/ /\ v[1] = "draft" /\ kind = "sql"
                /\ asked' = [asked EXCEPT ![d].pc = "explain", ![d].answer.content = v[2]]
             \/ v[1] = "error" /\ Finish(d, "error")
     \/ call[d].out = "drafted" /\ kind \notin DraftKinds /\ Return(d, "explained", NoAnswer)
     \/ call[d].out # "drafted" /\ Finish(d, call[d].out)

\* Schema.Explain: the engine's complaint, or that it could not be asked, goes
\* to the notes.
Explain(d) ==
  /\ asked[d].pc = "explain" /\ Quiet
  /\ \/ /\ Calm
        /\ Return(d, "answer", [asked[d].answer EXCEPT !.noted = asked[d].answer.content = "bad"])
     \/ Tick /\ Return(d, "answer", [asked[d].answer EXCEPT !.noted = TRUE])

\* A failed run starts an alert (alertRunFailure).
Alert(c) == Start(c) /\ Tick /\ UNCHANGED <<asked, provider, own>>

AssistStep(d) ==
  \/ Read(d) \/ Describe(d) \/ (\E t \in asked[d].busy : Columns(d, t)) \/ Context(d)
  \/ Complete(d) \/ Decode(d) \/ Explain(d)

\* One goroutine: a request with its call, or the call of an alert.
Goroutine(c) ==
  \/ c \in Drafts /\ AssistStep(c)
  \/ RelayStep(c) /\ UNCHANGED <<asked, provider, own>>

ANext ==
  \/ \E d \in Drafts : Request(d)
  \/ \E c \in Alerts : Alert(c)
  \/ \E c \in Calls : Goroutine(c)
  \/ Outside /\ UNCHANGED <<asked, provider, own>>

AssistSpec == AInit /\ [][ANext]_assistVars

-----------------------------------------------------------------------------

\* Liveness: a request is answered, whatever fails on the way.
AsksEnd == \A d \in Drafts : asked[d].pc # "idle" ~> asked[d].pc = "done"

=============================================================================
