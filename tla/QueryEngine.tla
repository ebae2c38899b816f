---------------------------- MODULE QueryEngine ----------------------------
(***************************************************************************)
(* One statement through the query engine, the user's own or the one       *)
(* behind the table browser: QueryServer clamps the row limit,             *)
(* duckflight.Client reads the result from its Flight endpoints batch by   *)
(* batch, and every cell is put in the JSON form the Console parses.  A    *)
(* result is endpoints of batches of rows; the rows are one column wide    *)
(* and numbered.                                                           *)
(***************************************************************************)
EXTENDS Naturals, Sequences, SequencesExt

CONSTANTS Shapes,          \* results: sequences of endpoints, each a sequence of batch sizes
          ColumnTypes,
          Limits,          \* row limits a request may carry, 0 for none
          defaultMaxRows,
          maxMaxRows,
          FloatExact       \* largest integer a JSON number keeps (2^53 in the Console)

ASSUME QueryAssumption ==
  /\ Shapes \subseteq Seq(Seq(Nat)) /\ Limits \subseteq Nat
  /\ ColumnTypes \subseteq {"int32", "int64", "uint64", "date", "binary"}
  /\ {defaultMaxRows, maxMaxRows} \subseteq Nat \ {0} /\ FloatExact \in Nat

VARIABLE query    \* the statement: the result the engine holds and what was read of it

Sum2(shape) == FoldLeft(LAMBDA n, batch : n + batch, 0, FlattenSeq(shape))

\* The n-th row's value: integers past FloatExact where the type has them.
Value(type, n) == IF type \in {"int32", "text"} THEN n ELSE FloatExact + n

temporalValue(type) == type = "date"
binaryValue(type) == type = "binary"
\* rowValue: 64-bit integers, dates, times and binary are strings; the rest
\* stays what Arrow marshals: text, a JSON number for a small integer.
rowValue(type, n) ==
  [form |-> IF type \in {"int64", "uint64"} \/ temporalValue(type) \/ binaryValue(type) \/ type = "text"
            THEN "string" ELSE "number",
   value |-> n]

\* What the Console reads: a number is a float64.
Parsed(cell) ==
  IF cell.form = "string" \/ cell.value <= FloatExact THEN cell.value
  ELSE 2 * (cell.value \div 2)

\* ExecuteQuery's clamp.
maxRows(limit) ==
  IF limit = 0 THEN defaultMaxRows ELSE IF limit > maxMaxRows THEN maxMaxRows ELSE limit

NoQuery == [pc |-> "idle", rpc |-> "none", code |-> "none", type |-> "int32", shape |-> <<>>, limit |-> 1,
            endpoint |-> 1, batch |-> 1, rows |-> <<>>, seen |-> 0, truncated |-> FALSE]
QInit == query = NoQuery

\* What the engine's error is for the caller: that it turned the platform's
\* token away is not the caller's failed sign-in.
EngineCodes == {"DeadlineExceeded", "InvalidArgument", "NotFound", "Canceled", "ResourceExhausted",
                "Unauthenticated", "PermissionDenied", "Unavailable", "no status", "other"}
queryError(code) ==
  CASE code \in {"InvalidArgument", "NotFound"} -> "InvalidArgument"
    [] code \in {"DeadlineExceeded", "Canceled", "ResourceExhausted"} -> code
    [] code \in {"Unavailable", "no status"} -> "Unavailable"
    [] code \in {"Unauthenticated", "PermissionDenied", "other"} -> "Internal"
Fails(code) == query' = [NoQuery EXCEPT !.pc = "error", !.code = code]
EngineFails == \E code \in EngineCodes : Fails(queryError(code))

\* execute: the caller's engine, if it is enabled, gets the statement.
execute(rpc, type, limit) ==
  \/ \E code \in {"Unauthenticated", "NotFound", "FailedPrecondition"} : Fails(code)
  \/ EngineFails
  \/ \E shape \in Shapes :
       query' = [query EXCEPT !.pc = "read", !.rpc = rpc, !.type = type, !.shape = shape, !.limit = limit]

\* An empty statement or name is turned away.
ExecuteQuery ==
  /\ query.pc = "idle"
  /\ \/ Fails("InvalidArgument")
     \/ \E type \in ColumnTypes, limit \in Limits : execute("query", type, maxRows(limit))
\* Names come as text, and what is past the cap is left out.
ListTables == query.pc = "idle" /\ execute("tables", "text", maxMaxRows)
DescribeTable == query.pc = "idle" /\ (Fails("InvalidArgument") \/ execute("describe", "text", maxMaxRows))

\* Mutant: the limit reached is taken for rows left out.
HitMaxOnLast(size) == Len(query.rows) + size >= query.limit

\* appendRecord stops at the limit with rows of the batch still unread.
HitMax(size) == Len(query.rows) + size > query.limit

\* appendRecord: the batch's rows up to the limit.
appendRecord(size) ==
  LET room == query.limit - Len(query.rows)
      take == IF size <= room THEN size ELSE room
  IN  query.rows \o [i \in 1..take |-> rowValue(query.type, Value(query.type, query.seen + i))]

\* readEndpoint: the next batch; DoGet and Next may fail, and the deadline pass.
ReadBatch ==
  LET endpoint == query.shape[query.endpoint]
      size == endpoint[query.batch]
  IN
  /\ query.pc = "read" /\ query.endpoint <= Len(query.shape) /\ query.batch <= Len(endpoint)
  /\ \/ query' = [query EXCEPT !.rows = appendRecord(size), !.seen = @ + size, !.batch = @ + 1,
                               !.truncated = HitMax(size),
                               !.pc = IF HitMax(size) THEN "encode" ELSE "read"]
     \/ EngineFails

\* The endpoint is drained: on to the next, unless the stream ended in an error.
NextEndpoint ==
  /\ query.pc = "read" /\ query.endpoint <= Len(query.shape)
  /\ query.batch > Len(query.shape[query.endpoint])
  /\ query' = [query EXCEPT !.endpoint = @ + 1, !.batch = 1] \/ EngineFails

\* The answer: ExecuteQuery encodes row by row, and one that cannot be encoded
\* fails them all.
Respond ==
  /\ query.pc = "encode" \/ (query.pc = "read" /\ query.endpoint > Len(query.shape))
  /\ \/ query' = [query EXCEPT !.pc = "done"]
     \/ query.rpc = "query" /\ query.rows # <<>> /\ Fails("Internal")

QNext == ExecuteQuery \/ ListTables \/ DescribeTable \/ ReadBatch \/ NextEndpoint \/ Respond

-----------------------------------------------------------------------------

\* The grid shows the result's first rows up to the clamped limit, every cell
\* with the value the engine sent although the Console reads numbers as
\* floats, and says "truncated" exactly when rows are missing, however the
\* engine split the result (ExecuteQuery, readEndpoint, appendRecord, rowValue).
GridExact ==
  query.pc = "done" =>
    LET total == Sum2(query.shape) IN
    /\ Len(query.rows) = IF total < query.limit THEN total ELSE query.limit
    /\ \A i \in DOMAIN query.rows : Parsed(query.rows[i]) = Value(query.type, i)
    /\ query.truncated <=> total > query.limit

=============================================================================
