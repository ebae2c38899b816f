------------------------------ MODULE BoxTrust ------------------------------
(***************************************************************************)
(* BoxIssuerTrust.keyfuncFor: the trust anchor of a deployment that serves *)
(* many boxes.  A box's key set is fetched without the lock held, so two   *)
(* requests with the same issuer may both fetch it.                        *)
(***************************************************************************)
EXTENDS Naturals

CONSTANTS Lookups,      \* calls of keyfuncFor
          Boxes,        \* issuers that match the pattern
          MaxBoxChanges

ASSUME BoxesAssumption == Boxes # {}

VARIABLES keyCache,     \* issuer -> the key set cached for it, 0 for none
          loaded,       \* key sets fetched so far; each keeps a refresh goroutine
          vms,          \* issuers whose slug is a dedicated-VM customer
          lookup,       \* call -> its progress
          boxChanges

trustVars == <<keyCache, loaded, vms, lookup, boxChanges>>

TInit ==
  /\ keyCache = [b \in Boxes |-> 0] /\ loaded = 0 /\ vms \in SUBSET Boxes
  /\ lookup = [l \in Lookups |-> [pc |-> "idle", box |-> CHOOSE b \in Boxes : TRUE, kf |-> 0]]
  /\ boxChanges = 0

Advance(l, pc, kf) == lookup' = [lookup EXCEPT ![l].pc = pc, ![l].kf = kf]

\* The first critical section: the cached key set, or none.
keyfuncFor(l, b) ==
  /\ lookup[l].pc = "idle"
  /\ lookup' = [lookup EXCEPT ![l] = [pc |-> IF keyCache[b] # 0 THEN "done" ELSE "check",
                                     box |-> b, kf |-> keyCache[b]]]
  /\ UNCHANGED <<keyCache, loaded, vms, boxChanges>>

\* The gate before any fetch; the lookup may fail.
IsVMCustomer(l) ==
  /\ lookup[l].pc = "check"
  /\ \/ lookup[l].box \in vms /\ Advance(l, "fetch", 0)
     \/ Advance(l, "refused", 0)
  /\ UNCHANGED <<keyCache, loaded, vms, boxChanges>>

newKeyfunc(l) ==
  /\ lookup[l].pc = "fetch"
  /\ \/ loaded' = loaded + 1 /\ Advance(l, "store", loaded + 1)
     \/ UNCHANGED loaded /\ Advance(l, "refused", 0)
  /\ UNCHANGED <<keyCache, vms, boxChanges>>

\* Mutant: the fetched key set is stored without a second look.
AdoptOwn(l) == lookup[l].kf

\* The key set that stays: one cached in the meantime wins.
Adopt(l) == IF keyCache[lookup[l].box] # 0 THEN keyCache[lookup[l].box] ELSE lookup[l].kf

\* The second critical section.
StoreKeys(l) ==
  /\ lookup[l].pc = "store"
  /\ keyCache' = [keyCache EXCEPT ![lookup[l].box] = Adopt(l)]
  /\ Advance(l, "done", Adopt(l))
  /\ UNCHANGED <<loaded, vms, boxChanges>>

\* A box is provisioned or retired.
Provision(b) ==
  /\ boxChanges < MaxBoxChanges /\ boxChanges' = boxChanges + 1
  /\ vms' = IF b \in vms THEN vms \ {b} ELSE vms \cup {b}
  /\ UNCHANGED <<keyCache, loaded, lookup>>

TNext ==
  \/ \E l \in Lookups :
       (\E b \in Boxes : keyfuncFor(l, b)) \/ IsVMCustomer(l) \/ newKeyfunc(l) \/ StoreKeys(l)
  \/ \E b \in Boxes : Provision(b)

TrustSpec == TInit /\ [][TNext]_trustVars

-----------------------------------------------------------------------------

\* Whatever the race, every request of an issuer verifies against one key set,
\* the cached one: no token is checked with a set whose refresh nobody keeps
\* (keyfuncFor's second critical section).
OneKeySet ==
  \A l \in Lookups : lookup[l].pc = "done" => lookup[l].kf # 0 /\ lookup[l].kf = keyCache[lookup[l].box]

=============================================================================
