-------------------------- MODULE WarehouseStorage --------------------------
(***************************************************************************)
(* The warehouses of a workspace's catalog (workspace/warehouse.go over    *)
(* lakekeeper/client.go): what a user asks of a new one, and the storage   *)
(* profile and credential the catalog is given for it.                     *)
(*                                                                         *)
(* A request is [name, prefix, s3].  s3 is NoS3, or what the user gave:    *)
(* [bucket, prefix, endpoint, mode, sts, signing, r2], the mode that of the *)
(* protocol and the flags "unset", "on" or "off"; an endpoint is           *)
(* NoEndpoint or [bare, host].                                             *)
(***************************************************************************)
EXTENDS Naturals, FiniteSets, TLC

CONSTANTS Asked,     \* the requests users make
          Creators,  \* requests in flight
          MaxAsks    \* bound: requests and failed calls

VARIABLES ready,   \* whether the workspace's catalog is provisioned
          houses,  \* the warehouses of the catalog
          making,  \* creator -> its request in flight
          said,    \* creator -> its last answer
          asks

wvars == <<ready, houses, making, said, asks>>

NoS3 == [bucket |-> "inherit"]
NoEndpoint == [bare |-> FALSE, host |-> ""]
Resting == [pc |-> "idle"]
Count == asks < MaxAsks /\ asks' = asks + 1
Free == UNCHANGED asks

WInit ==
  /\ ready \in BOOLEAN /\ houses = {} /\ asks = 0
  /\ making = [c \in Creators |-> Resting] /\ said = [c \in Creators |-> "none"]

-----------------------------------------------------------------------------
(* What is asked for *)

\* Lower-case letters, digits and inner hyphens.
validateWarehouseName(name) == name \notin {"", "Bad Name"}
validateKeyPrefix(prefix) == prefix # "Bad Name"
isInternalIP(host) == host \in {"127.0.0.1", "10.0.0.1"}
\* One label, or a reserved suffix, is inside the deployment's own network.
isPublicS3Host(host) == host \notin {"", "minio", "s3.internal"} /\ ~isInternalIP(host)
isBareS3URL(endpoint) == endpoint.bare
validateS3Endpoint(endpoint) ==
  endpoint = NoEndpoint \/ (isBareS3URL(endpoint) /\ isPublicS3Host(endpoint.host))
validateCreateWarehouseInput(r) ==
  /\ validateWarehouseName(r.name)
  /\ r.prefix # "" => validateKeyPrefix(r.prefix)
  /\ r.s3 # NoS3 => validateS3Endpoint(r.s3.endpoint)

\* The workspace's own storage: no mode, no flags, no Cloudflare token; its
\* endpoint is the deployment's and passes no check.
loadS3Config ==
  [bucket |-> "home", prefix |-> "data", endpoint |-> [bare |-> TRUE, host |-> "minio"], mode |-> "",
   sts |-> "unset", signing |-> "unset", r2 |-> FALSE]
\* The prefix is the request's own, never the one inside its s3 or the workspace's.
resolveWarehouseS3(r) ==
  [(IF r.s3 # NoS3 THEN r.s3 ELSE loadS3Config) EXCEPT !.prefix = IF r.prefix = "" THEN r.name ELSE r.prefix]

-----------------------------------------------------------------------------
(* What the catalog is given *)

derefBool(flag, def) == IF flag = "unset" THEN def ELSE flag = "on"
\* The mode, when there is one, overrides the flags.
resolveDelegationFlags(s3) ==
  [sts |-> IF s3.mode = "" THEN derefBool(s3.sts, FALSE) ELSE s3.mode = "vended",
   signing |-> IF s3.mode = "" THEN derefBool(s3.signing, TRUE) ELSE s3.mode = "remote-signing"]
s3ProfileOptions(s3) == resolveDelegationFlags(s3) @@ [endpoint |-> s3.endpoint, prefix |-> s3.prefix]
\* Only vending from R2 takes the Cloudflare token.
buildStorageConfig(s3) ==
  [bucket |-> s3.bucket, profile |-> s3ProfileOptions(s3),
   cred |-> IF s3.r2 /\ s3.mode = "vended" THEN "cloudflare-r2" ELSE "access-key"]

-----------------------------------------------------------------------------
(* Requests *)

Making(c, m) == making' = [making EXCEPT ![c] = m]
Say(c, a) == Making(c, Resting) /\ said' = [said EXCEPT ![c] = a]

\* The service, up to the client token.
createWarehouse(c, r) ==
  /\ Count
  /\ \/ ~validateCreateWarehouseInput(r) /\ Say(c, "invalid")
     \/ validateCreateWarehouseInput(r) /\ ~ready /\ Say(c, "unprovisioned")
     \/ validateCreateWarehouseInput(r) /\ ready /\ Say(c, "error")
     \/ /\ validateCreateWarehouseInput(r) /\ ready
        /\ Making(c, [pc |-> "create", req |-> r]) /\ UNCHANGED said
  /\ UNCHANGED <<ready, houses>>
warehouseCredModeToString(mode) ==
  IF mode = "VENDED" THEN "vended" ELSE IF mode = "REMOTE_SIGNING" THEN "remote-signing"
  ELSE IF mode = "NONE" THEN "none" ELSE ""
warehouseS3ToCore(s3) == [s3 EXCEPT !.mode = warehouseCredModeToString(@)]
ToCore(r) == IF r.s3 = NoS3 THEN r ELSE [r EXCEPT !.s3 = warehouseS3ToCore(@)]
\* The handler: a name is required first.
ServeCreateWarehouse(c, r) ==
  /\ making[c].pc = "idle"
  /\ \/ r.name = "" /\ Count /\ Say(c, "invalid") /\ UNCHANGED <<ready, houses>>
     \/ r.name # "" /\ createWarehouse(c, ToCore(r))

ListWarehouses == {h.name : h \in houses}
Provided(r) ==
  [name |-> r.name, asked |-> r, storage |-> buildStorageConfig(resolveWarehouseS3(r))]
\* The catalog takes a name once.  Mutant: a taken name is a success.
TakenIsFine(r) == TRUE
Untaken(r) == r.name \notin ListWarehouses
Added(r) == IF r.name \in ListWarehouses THEN houses ELSE houses \cup {Provided(r)}
PostWarehouse(c) ==
  LET r == making[c].req IN
  /\ making[c].pc = "create"
  /\ \/ Free /\ Untaken(r) /\ houses' = Added(r) /\ Making(c, [making[c] EXCEPT !.pc = "id"]) /\ UNCHANGED said
     \/ Free /\ ~Untaken(r) /\ Say(c, "error") /\ UNCHANGED houses
     \/ Count /\ Say(c, "error") /\ houses' \in {houses, Added(r)}
  /\ UNCHANGED ready
\* Found by name in the list; the warehouse stays when that fails.
GetWarehouseID(c) ==
  /\ making[c].pc = "id"
  /\ \/ Free /\ making[c].req.name \in ListWarehouses /\ Say(c, "ok")
     \/ Count /\ Say(c, "error")
  /\ UNCHANGED <<ready, houses>>

WNext ==
  \E c \in Creators :
    (\E r \in Asked : ServeCreateWarehouse(c, r)) \/ PostWarehouse(c) \/ GetWarehouseID(c)

WarehouseSpec == WInit /\ [][WNext]_wvars

-----------------------------------------------------------------------------
(* Properties *)

\* Whoever is told that their warehouse was created has the storage they asked
\* for in it, not that of somebody who took the name first (CreateWarehouse
\* looks its warehouse up by name afterwards).
CreatedAsAsked ==
  [][\A c \in Creators :
       making[c].pc = "id" /\ said'[c] = "ok" /\ making'[c] = Resting => Provided(making[c].req) \in houses']_wvars

=============================================================================
