------------------------------ MODULE Catalog ------------------------------
(***************************************************************************)
(* Service accounts of the data platform (workspace/lakekeeper_user.go):   *)
(* each is an application in Casdoor, a user in the Lakekeeper catalog and *)
(* relations on its warehouses, made and unmade one call at a time.        *)
(*                                                                         *)
(* A call that fails may have done its work.  An account is its name, and  *)
(* "oidc" the workspace's own application.                                 *)
(***************************************************************************)
EXTENDS Naturals, FiniteSets

CONSTANTS Accounts, Warehouses, Roles, Ops,
          MaxCalls \* bound: what users start and what fails

\* "none" is nobody, and warehouses have a name (warehouseNameRegex).
ASSUME CatalogAssumption == "none" \notin Accounts /\ "" \notin Warehouses

VARIABLES central, \* whether this deployment keeps the audience list
          apps,    \* Casdoor applications
          users,   \* Lakekeeper users
          rel,     \* warehouse -> account -> its relations; {} for no warehouse
          whs,     \* the warehouses there are
          aud,     \* the audiences the catalog accepts
          op,      \* the requests in flight
          unwanted,\* accounts somebody asked to remove
          calls

cvars == <<central, apps, users, rel, whs, aud, op, unwanted, calls>>

NoOp == [pc |-> "idle", acct |-> "none"]
Call == calls < MaxCalls /\ calls' = calls + 1
Same == UNCHANGED calls

\* Granted out of band; no role writes them.
adminRelations == {"pass_grants", "manage_grants"}
\* An earlier account of a name may have left what it was granted.
CInit ==
  /\ central \in BOOLEAN
  /\ apps = {"oidc"} /\ users = {} /\ aud = {"oidc"}
  /\ whs = {w \in Warehouses : w = "default"}
  /\ \E granted \in {{}, adminRelations} :
       rel = [w \in Warehouses |-> [a \in Accounts |-> IF w \in whs THEN granted ELSE {}]]
  /\ op = [o \in Ops |-> NoOp] /\ unwanted = {} /\ calls = 0

-----------------------------------------------------------------------------
(* Roles *)

\* The variable, not the comment of AssignWarehouseRole, which counts
\* "ownership" among the relations that are "deliberately left untouched".
roleManagedRelations == {"describe", "select", "create", "modify", "ownership"}
warehouseRelations(role) ==
  IF role = "reader" THEN {"describe", "select"}
  ELSE IF role = "writer" THEN {"describe", "select", "create", "modify"}
  ELSE {"ownership"}
relationsToRole(relations) ==
  IF "ownership" \in relations THEN "admin"
  ELSE IF {"create", "modify"} \cap relations # {} THEN "writer"
  ELSE IF {"describe", "select"} \cap relations # {} THEN "reader" ELSE ""
\* What AssignWarehouseRole writes and deletes.  Mutant: it deletes nothing.
DiffWrites(want, have) == [writes |-> want \ have, deletes |-> {}]
Diff(want, have) == [writes |-> want \ have, deletes |-> (have \ want) \cap roleManagedRelations]
\* The permission store takes a batch whole or not at all.
Fits(d, have) == d.writes \cap have = {} /\ d.deletes \subseteq have
Patch(d, have) == (have \ d.deletes) \cup d.writes

-----------------------------------------------------------------------------
(* What is there *)

\* Casdoor's applications without the workspace's own.
ListApps == apps \ {"oidc"}
GetWarehouseAssignments(w) == rel[w]
\* The role an account has in a warehouse.
applyWarehouseAssignments(w, a) == relationsToRole(GetWarehouseAssignments(w)[a])
\* The warehouse whose role is shown: the default one first, then any; those
\* whose lookup failed are skipped.
fillWarehouseAssignments(failed) ==
  [a \in Accounts |->
     LET held == {w \in whs \ failed : applyWarehouseAssignments(w, a) # ""}
     IN IF "default" \in held THEN "default" ELSE IF held = {} THEN "" ELSE CHOOSE w \in held : TRUE]
ListUsers(failed) ==
  LET at == fillWarehouseAssignments(failed)
  IN [a \in ListApps |-> [wh |-> at[a], role |-> IF at[a] = "" THEN "" ELSE applyWarehouseAssignments(at[a], a)]]

-----------------------------------------------------------------------------
(* Requests *)

Turn(o, r) == op' = [op EXCEPT ![o] = r]
To(o, pc) == Turn(o, [op[o] EXCEPT !.pc = pc])
Finish(o) == Turn(o, NoOp)
\* Accepting a request for an account ends the solitude of the others.
Accepted(o, r) ==
  op' = [p \in Ops |-> IF p = o THEN [r EXCEPT !.alone = \A q \in Ops : op[q].acct # r.acct]
                       ELSE IF op[p].acct = r.acct THEN [op[p] EXCEPT !.alone = FALSE] ELSE op[p]]

isDataPlatformApp(a) == a # "oidc"
validateRole(role) == role \in {"reader", "writer", "admin"}
AddUser(o, a, role, w) ==
  /\ Call /\ op[o].pc = "idle" /\ validateRole(role) /\ a \notin unwanted
  /\ Accepted(o, [pc |-> "app", acct |-> a, role |-> role, wh |-> w, have |-> {}, todo |-> {}, alone |-> TRUE])
  /\ UNCHANGED <<central, apps, users, rel, whs, aud, unwanted>>
\* RemoveUser of an account the list shows; tried again while it is there.
RemoveUser(o, a) ==
  /\ IF a \in unwanted THEN Same ELSE Call
  /\ op[o].pc = "idle" /\ a \in apps /\ isDataPlatformApp(a)
  /\ \A p \in Ops : op[p].acct # a \/ op[p].pc = "idle" \/ a \notin unwanted
  /\ Accepted(o, [pc |-> "list", acct |-> a, role |-> "none", wh |-> "none", have |-> {}, todo |-> {}, alone |-> TRUE])
  /\ unwanted' = unwanted \cup {a}
  /\ UNCHANGED <<central, apps, users, rel, whs, aud>>
CreateWarehouse(w) ==
  /\ Call /\ w \notin whs /\ whs' = whs \cup {w}
  /\ UNCHANGED <<central, apps, users, rel, aud, op, unwanted>>

\* AddApp; the application is not cleaned up when its answer is lost.
AddApp(o) ==
  /\ op[o].pc = "app"
  /\ LET a == op[o].acct IN
     \/ Same /\ a \notin apps /\ apps' = apps \cup {a} /\ To(o, "token")
     \/ Same /\ a \in apps /\ Finish(o) /\ UNCHANGED apps
     \/ Call /\ a \notin apps /\ apps' = apps \cup {a} /\ Finish(o)
  /\ UNCHANGED <<central, users, rel, whs, aud, unwanted>>

\* Where a failed step of AddUser continues.
Undo(pc) == IF pc = "sync" THEN "unregister" ELSE "cleanup"
GetClientToken(o) ==
  /\ op[o].pc = "token"
  /\ (Same /\ To(o, "register")) \/ (Call /\ To(o, Undo("token")))
  /\ UNCHANGED <<central, apps, users, rel, whs, aud, unwanted>>
CreateUser(o) ==
  /\ op[o].pc = "register"
  /\ \/ Same /\ users' = users \cup {op[o].acct} /\ To(o, "read")
     \/ Call /\ users' \in {users, users \cup {op[o].acct}} /\ To(o, Undo("register"))
  /\ UNCHANGED <<central, apps, rel, whs, aud, unwanted>>
\* AssignWarehouseRole reads what the account has, then sends the difference.
ReadAssignments(o) ==
  /\ op[o].pc = "read"
  /\ \/ Same /\ op[o].wh \in whs
        /\ Turn(o, [op[o] EXCEPT !.pc = "assign", !.have = rel[op[o].wh][op[o].acct]])
     \/ (Call \/ (Same /\ op[o].wh \notin whs)) /\ To(o, Undo("read"))
  /\ UNCHANGED <<central, apps, users, rel, whs, aud, unwanted>>
AssignWarehouseRole(o) ==
  LET r == op[o]
      d == Diff(warehouseRelations(r.role), r.have)
      now == rel[r.wh][r.acct]
      done == [rel EXCEPT ![r.wh][r.acct] = Patch(d, now)]
  IN /\ r.pc = "assign"
     /\ \/ Same /\ Fits(d, now) /\ rel' = done /\ To(o, "sync")
        \/ Same /\ ~Fits(d, now) /\ UNCHANGED rel /\ To(o, Undo("assign"))
        \/ Call /\ rel' \in {rel, IF Fits(d, now) THEN done ELSE rel} /\ To(o, Undo("assign"))
     /\ UNCHANGED <<central, apps, users, whs, aud, unwanted>>
\* The catalog's side of an addition.
registerLakekeeperUser(o) == CreateUser(o) \/ ReadAssignments(o) \/ AssignWarehouseRole(o)
\* syncAudiences, at the end of AddUser and, best effort, of RemoveUser.
syncAudiences(o) ==
  /\ op[o].pc \in {"sync", "resync"}
  /\ \/ /\ Same /\ aud' = (IF central THEN {"oidc"} \cup ListApps ELSE aud) /\ Finish(o)
     \/ /\ Call /\ central /\ UNCHANGED aud
        /\ IF op[o].pc = "sync" THEN To(o, Undo("sync")) ELSE Finish(o)
  /\ UNCHANGED <<central, apps, users, rel, whs, unwanted>>

Unregister(o) ==
  /\ op[o].pc = "unregister" /\ To(o, "cleanup")
  /\ (Same /\ users' = users \ {op[o].acct}) \/ (Call /\ UNCHANGED users)
  /\ UNCHANGED <<central, apps, rel, whs, aud, unwanted>>
cleanup(o) ==
  /\ op[o].pc = "cleanup"
  /\ \/ Same /\ apps' = apps \ {op[o].acct} /\ Finish(o)
     \/ Call /\ UNCHANGED apps /\ Finish(o)
  /\ UNCHANGED <<central, users, rel, whs, aud, unwanted>>

\* The token and the list of warehouses come first; a failure ends the removal.
ListAllWarehouses(o) ==
  /\ op[o].pc = "list"
  /\ (Same /\ Turn(o, [op[o] EXCEPT !.pc = "roles", !.todo = whs])) \/ (Call /\ Finish(o))
  /\ UNCHANGED <<central, apps, users, rel, whs, aud, unwanted>>
\* All seven relations are deleted in a batch; that some are not there counts
\* as success, whether or not the rest went.
RemoveWarehouseRole(o, w) ==
  \/ /\ Same /\ Turn(o, [op[o] EXCEPT !.todo = @ \ {w}])
     /\ rel' \in {rel, [rel EXCEPT ![w][op[o].acct] = {}]}
  \/ Call /\ Finish(o) /\ UNCHANGED rel
removeWarehouseRoles(o) ==
  /\ op[o].pc = "roles"
  /\ IF op[o].todo = {} THEN Same /\ To(o, "unuser") /\ UNCHANGED rel
     ELSE \E w \in op[o].todo : RemoveWarehouseRole(o, w)
  /\ UNCHANGED <<central, apps, users, whs, aud, unwanted>>
\* A user that is already gone is deleted.  Mutant: it is an error.
DeletableOnce(a) == a \in users
Deletable(a) == TRUE
DeleteUser(o) ==
  /\ op[o].pc = "unuser"
  /\ \/ Same /\ Deletable(op[o].acct) /\ users' = users \ {op[o].acct} /\ To(o, "unapp")
     \/ Same /\ ~Deletable(op[o].acct) /\ UNCHANGED users /\ Finish(o)
     \/ Call /\ users' \in {users, users \ {op[o].acct}} /\ Finish(o)
  /\ UNCHANGED <<central, apps, rel, whs, aud, unwanted>>
DeleteApp(o) ==
  /\ op[o].pc = "unapp"
  /\ \/ Same /\ op[o].acct \in apps /\ apps' = apps \ {op[o].acct} /\ To(o, "resync")
     \/ Same /\ op[o].acct \notin apps /\ UNCHANGED apps /\ Finish(o)
     \/ Call /\ apps' \in {apps, apps \ {op[o].acct}} /\ Finish(o)
  /\ unwanted' = unwanted \cap apps'
  /\ UNCHANGED <<central, users, rel, whs, aud>>

-----------------------------------------------------------------------------

Proceed(o) ==
  \/ AddApp(o) \/ GetClientToken(o) \/ registerLakekeeperUser(o)
  \/ syncAudiences(o) \/ Unregister(o) \/ cleanup(o)
  \/ ListAllWarehouses(o) \/ removeWarehouseRoles(o) \/ DeleteUser(o) \/ DeleteApp(o)
\* The handlers: a name, a role and a warehouse are required, a user id is.
ServeAddUser(o, a, role, w) == a # "" /\ role # "" /\ w # "" /\ AddUser(o, a, role, w)
ServeRemoveUser(o, a) == a # "" /\ RemoveUser(o, a)
CNext ==
  \/ \E o \in Ops :
       \/ \E a \in Accounts : ServeRemoveUser(o, a) \/ \E role \in Roles, w \in Warehouses : ServeAddUser(o, a, role, w)
       \/ Proceed(o)
  \/ \E w \in Warehouses : CreateWarehouse(w)
\* Requests run to their end, and whoever wants an account gone tries again.
CFair ==
  /\ \A o \in Ops : WF_cvars(Proceed(o))
  /\ \A a \in Accounts : WF_cvars(a \in unwanted /\ \E o \in Ops : ServeRemoveUser(o, a))

CatalogSpec == CInit /\ [][CNext]_cvars

-----------------------------------------------------------------------------
(* Properties *)

\* The relations an addition leaves on its warehouse.
Due(r) == warehouseRelations(r.role) \cup (r.have \cap adminRelations)
\* What holds when the request o has just been answered and was alone with its
\* account: lookups that fail on other warehouses included.
EndsExact(o) ==
  LET r == op[o] IN
  r.pc = "sync" /\ r.alone /\ op'[o] = NoOp =>
    /\ r.acct \in apps' /\ r.acct \in users' /\ (central => r.acct \in aud')
    /\ rel'[r.wh][r.acct] = Due(r)
    /\ \A failed \in SUBSET (whs \ {r.wh}) :
         LET shown == ListUsers(failed)'[r.acct] IN
         /\ shown.role # "" /\ (r.wh = "default" => shown.wh = r.wh)
         /\ shown.wh = r.wh => shown.role = r.role

\* An account whose addition was answered while nothing else touched it has an
\* application the catalog accepts, a user, and on its warehouse exactly the
\* relations of the role it was given and those granted out of band, whatever
\* role an earlier account of that name had there (AssignWarehouseRole).  A
\* leftover "ownership" goes: the list could not show the new role otherwise,
\* although the comment of AssignWarehouseRole says that it stays.  The list
\* shows that role, or, for another warehouse than the default one, a role left
\* elsewhere; lookups that fail elsewhere do not change that.
RoleExact == [][\A o \in Ops : EndsExact(o)]_cvars

\* An account somebody removes can no longer sign in, whichever call of
\* RemoveUser fails and however much of it is done already, if they keep
\* trying.  An addition under way meanwhile may leave its catalog user behind.
RemovalCompletes == \A a \in Accounts : a \in unwanted ~> a \notin apps
=============================================================================
