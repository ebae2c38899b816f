------------------------------ MODULE MCStores ------------------------------
(***************************************************************************)
(* Five components that share no state, one at a time: which of them runs  *)
(* is chosen at the start, and the others stay in one initial state.       *)
(***************************************************************************)
EXTENDS FileDrop, RepoEditor, Catalog, Keyring, WarehouseStorage, TLC

CONSTANTS v1, v2

VARIABLE focus

vars == <<focus, dvars, rvars, cvars, kvars, wvars>>

MCColumns == <<"pipelines", "connections">>
\* Requests for warehouses: storage a user describes for "a", with flags that
\* agree or disagree with the mode and endpoints of each kind, and the
\* workspace's own storage, or a named prefix of it, for the others.
MCS3 ==
  {[bucket |-> "own", prefix |-> "theirs", endpoint |-> NoEndpoint, mode |-> m, sts |-> f, signing |-> f, r2 |-> TRUE] :
     m \in {"UNSPECIFIED", "VENDED", "NONE"}, f \in {"unset", "on", "off"}}
  \cup {[bucket |-> "own", prefix |-> "theirs", endpoint |-> e, mode |-> "REMOTE_SIGNING", sts |-> "unset", signing |-> "unset", r2 |-> FALSE] :
          e \in [bare : BOOLEAN, host : {"s3.example.com", "minio"}]}
MCAsked ==
  [name : {"a"}, prefix : {""}, s3 : MCS3]
  \cup [name : {"a", "b"}, prefix : {""}, s3 : {NoS3}]
  \cup [name : {"c"}, prefix : {"a", "Bad Name"}, s3 : {NoS3}]
  \cup [name : {"", "Bad Name"}, prefix : {""}, s3 : {NoS3}]
\* The state of a component that does not run.
Parked(c) == focus # c

Init ==
  /\ focus \in {"files", "editor", "catalog", "keyring", "warehouses"}
  /\ DInit /\ RInit /\ CInit /\ KInit /\ WInit
  /\ Parked("editor") => box = Usual
  /\ Parked("catalog") => central
  /\ Parked("warehouses") => ready
  /\ Parked("keyring") => db = [c \in Cols |-> Encrypt(<<1>>, v1)]

Next ==
  /\ UNCHANGED focus
  /\ \/ focus = "files" /\ DNext /\ UNCHANGED <<rvars, cvars, kvars, wvars>>
     \/ focus = "editor" /\ RNext /\ UNCHANGED <<dvars, cvars, kvars, wvars>>
     \/ focus = "catalog" /\ CNext /\ UNCHANGED <<dvars, rvars, kvars, wvars>>
     \/ focus = "keyring" /\ KNext /\ UNCHANGED <<dvars, rvars, cvars, wvars>>
     \/ focus = "warehouses" /\ WNext /\ UNCHANGED <<dvars, rvars, cvars, kvars>>

Spec == Init /\ [][Next]_vars /\ (focus = "catalog" => CFair)

=============================================================================
