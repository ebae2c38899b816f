---------------------------- MODULE ErrorContext ----------------------------
(***************************************************************************)
(* What ExplainError puts into the prompt about a failure                  *)
(* (workspace/assist_explain.go): a pipeline run with the pipeline's       *)
(* configuration, credential-shaped values redacted; a dbt run with its    *)
(* failed nodes; a query of the editor with the warehouse's tables.  Text  *)
(* is its length, in units; a configuration is a tree of objects, lists    *)
(* and values.                                                             *)
(***************************************************************************)
EXTENDS Naturals, Sequences, SequencesExt

CONSTANTS Configs,                \* the source_config trees
          maxErrorContextBytes,
          maxFailedModelLines,
          maxMessageBytes,        \* 512 in failedModelLines
          MaxText,                \* bound: the longest text
          MaxNodes,               \* bound: the nodes of a dbt run
          MaxTables               \* bound: the tables of the warehouse

ASSUME ContextAssumption ==
  /\ {maxErrorContextBytes, maxFailedModelLines, maxMessageBytes, MaxText, MaxNodes, MaxTables} \subseteq Nat \ {0}

VARIABLE prompt    \* the last prompt, with what it was made from

Texts == 0..MaxText
Header == 1        \* the fixed lines of a context
Marker == 1        \* "... (truncated)"

\* JSON: a value, a list, an object, what stands for a redacted value, and
\* bytes that do not parse.
Leaf == [tag |-> "leaf"]
List(s) == [tag |-> "list", of |-> s]
Object(f) == [tag |-> "object", of |-> f]
Redacted == [tag |-> "redacted"]
Malformed == [tag |-> "malformed"]

NoPrompt == [about |-> "nothing", config |-> Malformed, shown |-> Malformed,
             nodes |-> <<>>, lines |-> <<>>, bytes |-> 0]

EInit == prompt = NoPrompt

-----------------------------------------------------------------------------
truncate(n, cap) == IF cap = 0 THEN 0 ELSE IF n <= cap THEN n ELSE cap + Marker

redactedKey(k) == k \in {"token", "primary_key"}

\* Mutant: what primary_key holds is passed on as it is.
RECURSIVE redactBelowKeys(_)
redactBelowKeys(v) ==
  CASE v.tag = "object" ->
         Object([k \in DOMAIN v.of |->
           IF k = "primary_key" THEN v.of[k]
           ELSE IF redactedKey(k) THEN Redacted ELSE redactBelowKeys(v.of[k])])
    [] v.tag = "list" -> List([i \in DOMAIN v.of |-> redactBelowKeys(v.of[i])])
    [] OTHER -> v

RECURSIVE redactValue(_)
redactValue(v) ==
  CASE v.tag = "object" ->
         Object([k \in DOMAIN v.of |->
           IF k = "primary_key" THEN redactValue(v.of[k])
           ELSE IF redactedKey(k) THEN Redacted ELSE redactValue(v.of[k])])
    [] v.tag = "list" -> List([i \in DOMAIN v.of |-> redactValue(v.of[i])])
    [] OTHER -> v

\* Bytes that do not parse are left out.
redactConfigKeys(raw) == IF raw = Malformed THEN Malformed ELSE redactValue(raw)

\* The configuration is not cut, the error is.
buildPipelineErrorContext(config, error) ==
  [NoPrompt EXCEPT !.about = "pipelineRun", !.config = config, !.shown = redactConfigKeys(config),
                   !.bytes = Header + truncate(error, maxErrorContextBytes)]

\* The first nodes that neither passed nor were skipped, a line each.
failedModelLines(nodes) ==
  LET failed == SelectSeq(nodes, LAMBDA n : n.failed)
      kept == SubSeq(failed, 1, IF Len(failed) < maxFailedModelLines THEN Len(failed) ELSE maxFailedModelLines)
  IN  [i \in DOMAIN kept |-> Header + truncate(kept[i].message, maxMessageBytes)]

\* Lines are written until the context is full: how many units of how many.
Written(lines, bytes) ==
  FoldLeft(LAMBDA w, line : IF w.bytes >= maxErrorContextBytes THEN w
                            ELSE [bytes |-> w.bytes + line, lines |-> Append(w.lines, line)],
           [bytes |-> bytes, lines |-> <<>>], lines)

\* The error gets what the nodes left.
Rest(error, bytes) ==
  IF bytes < maxErrorContextBytes THEN truncate(error, maxErrorContextBytes - bytes) ELSE 0

\* At least one line is written, whatever the header takes.
buildTransformationErrorContext(nodes, error) ==
  LET lines == failedModelLines(nodes)
      w == IF lines = <<>> THEN [bytes |-> Header, lines |-> <<>>]
           ELSE Written(Tail(lines), Header + Head(lines))
  IN  [NoPrompt EXCEPT !.about = "transformationRun", !.nodes = nodes,
                       !.lines = IF lines = <<>> THEN <<>> ELSE <<Head(lines)>> \o w.lines,
                       !.bytes = w.bytes + Rest(error, w.bytes)]

\* Half the bound for the statement, half for the error, then the tables.
buildSqlErrorContext(sql, error, tables) ==
  LET half == maxErrorContextBytes \div 2
      w == Written([i \in 1..tables |-> 1], Header + truncate(sql, half) + truncate(error, half))
  IN  [NoPrompt EXCEPT !.about = "sqlError", !.lines = w.lines, !.bytes = w.bytes]

-----------------------------------------------------------------------------
(* The three targets; a run that is not among the recent ones has none *)

findPipelineRun == \E config \in Configs, error \in {0, MaxText} : prompt' = buildPipelineErrorContext(config, error)
findTransformationRun ==
  \E nodes \in SeqOf([failed : BOOLEAN, message : {0, MaxText}], MaxNodes), error \in Texts :
    prompt' = buildTransformationErrorContext(nodes, error)
NotFound == prompt' = NoPrompt

ExplainPipelineRunText == findPipelineRun \/ NotFound
ExplainTransformationRunText == findTransformationRun \/ NotFound
\* The listing may fail or be empty.
ExplainSqlErrorText ==
  \E sql, error \in Texts \ {0}, tables \in 0..MaxTables : prompt' = buildSqlErrorContext(sql, error, tables)

ENext ==
  \/ prompt = NoPrompt /\ (ExplainPipelineRunText \/ ExplainTransformationRunText \/ ExplainSqlErrorText)
  \/ prompt # NoPrompt /\ prompt' = NoPrompt

-----------------------------------------------------------------------------

\* Where the values of a tree are: the keys and positions that lead to them.
RECURSIVE Paths(_)
Paths(v) ==
  CASE v.tag = "leaf" -> {<<>>}
    [] v.tag \in {"list", "object"} -> UNION {{<<ToString(k)>> \o p : p \in Paths(v.of[k])} : k \in DOMAIN v.of}
    [] OTHER -> {}

\* The prompt shows a value of the configuration exactly when no key on the way
\* to it is credential-shaped, primary_key aside, however deep and inside
\* whatever lists it is; nothing of a configuration that does not parse
\* (redactConfigKeys, redactValue).
SecretsStay ==
  Paths(prompt.shown) =
    {p \in Paths(prompt.config) : \A i \in DOMAIN p : p[i] # ToString("token")}

=============================================================================
