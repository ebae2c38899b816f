---------------------------- MODULE SourceSchema ----------------------------
(***************************************************************************)
(* What a pipeline's source_config and source_credentials must hold        *)
(* (workspace/pipeline_schema.go), and the envelope a Google credential    *)
(* travels in.  A JSON document is a function on the members it has, {} the *)
(* empty one; a list whose order does not matter is a set.  A validator is *)
(* the predicate of the documents it accepts.                              *)
(***************************************************************************)
EXTENDS TLC

NoDoc == <<>>
Member(raw, f, zero) == IF f \in DOMAIN raw THEN raw[f] ELSE zero
Given(raw, f) == Member(raw, f, "") # ""
Without(raw, f) == [g \in DOMAIN raw \ {f} |-> raw[g]]
isEmptyJSON(raw) == DOMAIN raw = {}

-----------------------------------------------------------------------------
(* source_config *)

validateRestAPIWriteDisposition(d) == d \in {"", "append", "replace", "merge"}
validateRestAPIResources(rs) == \A r \in rs : Given(r, "name") /\ Given(r, "endpoint")
\* An incremental block, when set, names its cursor.
Incremental(raw) == "incremental" \in DOMAIN raw => Given(raw.incremental, "cursor_path")

validateRestAPIConfig(raw) ==
  /\ Given(raw, "base_url")
  /\ Member(raw, "resources", {}) # {} /\ validateRestAPIResources(raw.resources)
  /\ validateRestAPIWriteDisposition(Member(raw, "write_disposition", ""))
  /\ Incremental(raw)
validateSQLDatabaseConfig(raw) ==
  \A t \in Member(raw, "tables_config", {}) : Given(t, "name") /\ Incremental(t)
validateFilesystemConfig(raw) == Given(raw, "bucket_url")
validateGoogleSheetsConfig(raw) ==
  Given(raw, "spreadsheet_url_or_id") /\ "" \notin Member(raw, "range_names", {})
\* A name that is not one of the accepted upload names is "bad".
validateFileUploadConfig(raw) ==
  \A f \in Member(raw, "files", {}) : Given(f, "name") /\ f.file # "bad"

duckdbExtensionAllowlist == {"mysql", "mssql", "pdf", "webbed", "gdrive", "httpfs"}
\* The set of extensions the worker loads; {} when there is no valid list.
loadList(raw) ==
  LET names == IF Given(raw, "extension") THEN {raw.extension} ELSE Member(raw, "extensions", {})
  IN IF \/ Given(raw, "extension") /\ Member(raw, "extensions", {}) # {}
        \/ ~(names \subseteq duckdbExtensionAllowlist)
     THEN {} ELSE names
hasExtension(raw, name) ==
  Member(raw, "extension", "") = name \/ name \in Member(raw, "extensions", {})
\* Attach is the set of the template's placeholders.
validateDuckDBTables(raw) ==
  \A t \in raw.tables :
    /\ Given(t, "name") /\ Member(t, "cursor_column", "") # "bad"
    /\ "attach" \in DOMAIN raw \/ Given(t, "query")
validateDuckDBConfig(raw) ==
  loadList(raw) # {} /\ Member(raw, "tables", {}) # {} /\ validateDuckDBTables(raw)

ValidateSourceConfig(type, raw) ==
  \/ type = "rest_api" /\ validateRestAPIConfig(raw)
  \/ type = "sql_database" /\ validateSQLDatabaseConfig(raw)
  \/ type = "filesystem" /\ validateFilesystemConfig(raw)
  \/ type = "google_sheets" /\ validateGoogleSheetsConfig(raw)
  \/ type = "file_upload" /\ validateFileUploadConfig(raw)
  \/ type = "duckdb" /\ validateDuckDBConfig(raw)

-----------------------------------------------------------------------------
(* source_credentials *)

\* A connection string is <<dialect, driver>>, <<>> when it is not a URL.
validateSQLDatabaseDialect(url) ==
  url # <<>> /\ url[1] \in {"postgres", "postgresql"} /\ url[2] \in {"", "psycopg"}
validateSQLDatabaseCreds(raw) ==
  "connection_string" \in DOMAIN raw /\ validateSQLDatabaseDialect(raw.connection_string)
isPublicBucketURL(config) == Member(config, "bucket_url", "") = "https"
validateFilesystemCreds(config, raw) ==
  isPublicBucketURL(config) \/ (Given(raw, "access_key_id") /\ Given(raw, "secret_access_key"))
validateGoogleOAuth(o) == Given(o, "grant_id") \/ Given(o, "connection_id") \/ Given(o, "refresh_token")
validateGoogleSheetsServiceAccount(key) == Given(key, "client_email") /\ Given(key, "private_key")
validateGoogleSheetsCreds(raw) ==
  /\ ("service_account_key" \in DOMAIN raw) # ("oauth" \in DOMAIN raw)
  /\ "oauth" \in DOMAIN raw => validateGoogleOAuth(raw.oauth)
  /\ "service_account_key" \in DOMAIN raw => validateGoogleSheetsServiceAccount(raw.service_account_key)
validateFileUploadCreds(raw) == isEmptyJSON(raw)
validateDuckDBAttachParams(attach, params) == attach \subseteq params
validateDuckDBOAuth(config, raw) ==
  "oauth" \in DOMAIN raw => hasExtension(config, "gdrive") /\ validateGoogleOAuth(raw.oauth)
validateDuckDBCreds(config, raw) ==
  /\ validateDuckDBAttachParams(Member(config, "attach", {}), Member(raw, "attach_params", {}))
  /\ validateDuckDBOAuth(config, raw)

\* rest_api takes any credentials.
ValidateSourceCredentials(type, config, raw) ==
  \/ type = "rest_api"
  \/ type = "sql_database" /\ validateSQLDatabaseCreds(raw)
  \/ type = "filesystem" /\ validateFilesystemCreds(config, raw)
  \/ type = "google_sheets" /\ validateGoogleSheetsCreds(raw)
  \/ type = "file_upload" /\ validateFileUploadCreds(raw)
  \/ type = "duckdb" /\ validateDuckDBCreds(config, raw)

-----------------------------------------------------------------------------
(* The envelope of a Google credential: its oauth member, {} when there is   *)
(* none.                                                                     *)

isGoogleOAuthSourceType(type) == type \in {"google_sheets", "duckdb"}
\* Whether the consent must cover Drive.
googleScopeRequired(type) == type = "duckdb"
parseGoogleOAuth(type, raw) ==
  IF isGoogleOAuthSourceType(type) THEN Member(raw, "oauth", NoDoc) ELSE NoDoc
storeGoogleOAuth(raw, o) == ("oauth" :> o) @@ raw
googleGrantID(type, raw) == Member(parseGoogleOAuth(type, raw), "grant_id", "")
\* Embedded wins: it is the resolved form.
googleConnectionRef(type, raw) ==
  LET o == parseGoogleOAuth(type, raw)
  IN IF Given(o, "refresh_token") THEN "" ELSE Member(o, "connection_id", "")
storedGoogleOAuthCreds(raw, token, app) == storeGoogleOAuth(raw, [refresh_token |-> token, client_id |-> app])

\* gdrive reads a DuckDB secret, so the oauth member becomes one; a secret
\* that names its own type or provider keeps them.
renderDuckDBGoogleSecret(raw, o) ==
  LET given == Member(raw, "secret", NoDoc)
      token == [REFRESH_TOKEN |-> o.refresh_token, CLIENT_ID |-> o.client_id,
                CLIENT_SECRET |-> Member(o, "client_secret", "")]
  IN ("secret" :> (token @@ given @@ [type |-> "gdrive", PROVIDER |-> "config"]))
     @@ Without(raw, "oauth")
serveGoogleOAuthCredential(type, raw) ==
  IF type = "duckdb" THEN renderDuckDBGoogleSecret(raw, raw.oauth) ELSE raw
\* Mutant: the pair is added to any token.
Mintable(o, app) == Given(o, "refresh_token")
MintedBy(o, app) == Given(o, "refresh_token") /\ Member(o, "client_id", "") = app
\* The credential with the app's secret, for a token that app minted.
injectGoogleOAuthClient(type, raw, app) ==
  LET o == ("client_secret" :> app) @@ parseGoogleOAuth(type, raw)
  IN IF type = "duckdb" THEN renderDuckDBGoogleSecret(raw, o) ELSE storeGoogleOAuth(raw, o)
=============================================================================
