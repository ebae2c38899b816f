--------------------------- MODULE MCConnections ---------------------------
(* Connections for TLC: what the editor may save. *)
EXTENDS Connections

\* Nothing tells the sign-ins apart, and no property is about what happens at last.
FlowsAlike == Permutations(Flows)

Sheet == [spreadsheet_url_or_id |-> "s", range_names |-> {"r"}]
Table == {[name |-> "t", query |-> "q"]}
Drive == [extensions |-> {"gdrive", "pdf"}, tables |-> Table]
Pdf == [extension |-> "pdf", tables |-> Table]
\* The other source types, accepted and refused.
Api == [base_url |-> "u", resources |-> {[name |-> "r", endpoint |-> "e"]}]
Others ==
  [type : {"rest_api"}, creds : {NoDoc},
   config : {("write_disposition" :> d) @@ Api : d \in {"merge", "upsert"}}]
  \cup [type : {"sql_database"}, config : {[tables_config |-> {[name |-> "t"]}]},
        creds : {[connection_string |-> u] : u \in {<<"postgresql", "psycopg">>, <<"mysql", "">>, <<>>}}]
  \cup [type : {"filesystem"}, config : {[bucket_url |-> b] : b \in {"s3"}}, creds : {NoDoc}]
  \cup [type : {"file_upload"}, config : {[files |-> {[name |-> "n", file |-> f]}] : f \in {"bad"}},
        creds : {NoDoc}]
\* Sheets with a sign-in, Drive with a connection, a config that loads no
\* gdrive, and edits that send no credentials.
MCDrafts ==
  [type : {"google_sheets"}, config : {Sheet}, creds : {[oauth |-> [grant_id |-> f]] : f \in Flows}]
  \cup [type : {"duckdb"}, config : {Drive, Pdf},
        creds : {NoDoc} \cup {[oauth |-> [connection_id |-> f], secret |-> [type |-> "x"]] : f \in Flows}]
  \cup Others
=============================================================================
