------------------------------ MODULE Keyring ------------------------------
(***************************************************************************)
(* Rotation of the key that credentials are encrypted under at rest        *)
(* (crypto.Keyring, postgres/rewrap.go, postgres/migrate.go): replicas     *)
(* restart one by one into a new ring, re-encrypt what they find on the    *)
(* way up, and serve saves meanwhile; the old key is dropped once an audit *)
(* finds nothing under it.                                                 *)
(*                                                                         *)
(* A stored value is its envelope, its key and its plaintext; the nonce    *)
(* that makes two encryptions of one value differ is left out.  One row    *)
(* per column.                                                             *)
(***************************************************************************)
EXTENDS Naturals, Sequences

CONSTANTS Replicas,
          EncryptedColumns,   \* WorkspaceEncryptedColumns, in order; the first is pipelines
          Values,    \* what users save
          MaxWrites  \* bound: saves and crashes together

ASSUME KeyringAssumption == EncryptedColumns \in Seq(STRING) /\ EncryptedColumns # <<>>

VARIABLES stage,    \* the operator's configuration
          proc,     \* replica -> where it is, and its ring
          db,       \* column -> stored value
          last,     \* column -> what the user saved last, for the properties
          undone,   \* columns whose save the plaintext migration undid
          audited,  \* columns the audit under way found clean
          writes

kvars == <<stage, proc, db, last, undone, audited, writes>>

\* The three steps of a rotation from key 1 to key 2: primary first.
Stages == <<[ring |-> <<1>>, rewrap |-> FALSE],
            [ring |-> <<2, 1>>, rewrap |-> TRUE],
            [ring |-> <<2>>, rewrap |-> TRUE]>>
NewKeyring(cfg) == cfg.ring
Cols == {EncryptedColumns[k] : k \in DOMAIN EncryptedColumns}
RingKeys(ring) == {ring[k] : k \in DOMAIN ring}
Forms == [env : {"plain"}, key : {0}, val : Values] \cup [env : {"untagged", "tagged"}, key : {1, 2}, val : Values]
NoValue == [env |-> "none", key |-> 0]

Encrypt(ring, v) == [env |-> "tagged", key |-> ring[1], val |-> v]
\* Whether a ring reads a stored value: by the id of its key, by trying every
\* key when it has none, as it is when it was never encrypted.
Decrypt(ring, x) == x.env = "plain" \/ x.key \in RingKeys(ring)

Stopped == [pc |-> "down", ring |-> <<>>, rewrap |-> FALSE, k |-> 0, read |-> NoValue]
Write == writes < MaxWrites /\ writes' = writes + 1
Go(r, p) == proc' = [proc EXCEPT ![r] = p]
Col(r) == EncryptedColumns[proc[r].k]

\* The service has run on key 1 for long: rows from before key ids, and a
\* pipeline row from before encryption.
KInit ==
  /\ stage = 1
  /\ proc = [r \in Replicas |-> [Stopped EXCEPT !.pc = "serve", !.ring = NewKeyring(Stages[1])]]
  /\ db \in [Cols -> {x \in Forms : x.key # 2}]
  /\ \A c \in Cols : db[c].env = "plain" => c = EncryptedColumns[1]
  /\ last = [c \in Cols |-> db[c].val]
  /\ undone = {} /\ audited = {} /\ writes = 0

-----------------------------------------------------------------------------
(* A replica *)

\* A request saves a new value under the replica's own primary key.
Save(r, c, v) ==
  /\ Write /\ proc[r].pc = "serve" /\ v # last[c]
  /\ db' = [db EXCEPT ![c] = Encrypt(proc[r].ring, v)]
  /\ last' = [last EXCEPT ![c] = v] /\ undone' = undone \ {c}
  /\ UNCHANGED <<stage, proc, audited>>

\* A replica restarts into a new configuration, or crashes.
Outdated(r) == proc[r].ring # NewKeyring(Stages[stage])
Stop(r) ==
  /\ proc[r].pc # "down" /\ Go(r, Stopped)
  /\ UNCHANGED <<stage, db, last, undone, audited>>
Rollout(r) == Outdated(r) /\ Stop(r) /\ UNCHANGED writes
Crash(r) == Write /\ Stop(r)

\* openDatabase: the migration selects its rows.
Boot(r) ==
  /\ proc[r].pc = "down"
  /\ Go(r, [pc |-> "encrypt", ring |-> NewKeyring(Stages[stage]), rewrap |-> Stages[stage].rewrap,
            k |-> 1, read |-> IF db[EncryptedColumns[1]].env = "plain" THEN db[EncryptedColumns[1]] ELSE NoValue])
  /\ UNCHANGED <<stage, db, last, undone, audited, writes>>

\* The update of MigrateEncryptCredentials is unconditional.
MigrateEncryptCredentials(r) ==
  /\ proc[r].pc = "encrypt"
  /\ Go(r, [proc[r] EXCEPT !.pc = IF proc[r].rewrap THEN "select" ELSE "serve", !.read = NoValue])
  /\ IF proc[r].read = NoValue THEN UNCHANGED <<db, undone>>
     ELSE /\ db' = [db EXCEPT ![EncryptedColumns[1]] = Encrypt(proc[r].ring, proc[r].read.val)]
          /\ undone' = undone \cup (IF proc[r].read.val # last[EncryptedColumns[1]] THEN {EncryptedColumns[1]} ELSE {})
  /\ UNCHANGED <<stage, last, audited, writes>>

\* Mutant: only values that name another key count as stale.
StaleTagged(x, primary) == x.env = "tagged" /\ x.key # primary
\* Encrypted, but not tagged with this key: the pattern rewrap and audit share.
Stale(x, primary) == x.env # "plain" /\ ~(x.env = "tagged" /\ x.key = primary)

selectStaleRows(r) ==
  /\ proc[r].pc = "select"
  /\ Go(r, [proc[r] EXCEPT !.pc = "apply",
              !.read = IF Stale(db[Col(r)], proc[r].ring[1]) THEN db[Col(r)] ELSE NoValue])
  /\ UNCHANGED <<stage, db, last, undone, audited, writes>>

\* Mutant: the row is written whatever it holds by now.
SwapAlways(x, read) == TRUE
\* Compare and swap against the ciphertext that was read.
Swap(x, read) == x = read
NextColumn(p) ==
  IF p.k < Len(EncryptedColumns) THEN [p EXCEPT !.pc = "select", !.k = @ + 1, !.read = NoValue]
  ELSE [p EXCEPT !.pc = "serve", !.read = NoValue]
\* A value the ring cannot read fails the start.
applyRewrap(r) ==
  LET p == proc[r] IN
  /\ p.pc = "apply"
  /\ IF p.read # NoValue /\ ~Decrypt(p.ring, p.read) THEN Go(r, Stopped) ELSE Go(r, NextColumn(p))
  /\ db' = IF p.read # NoValue /\ Decrypt(p.ring, p.read) /\ Swap(db[Col(r)], p.read)
           THEN [db EXCEPT ![Col(r)] = Encrypt(p.ring, p.read.val)] ELSE db
  /\ UNCHANGED <<stage, last, undone, audited, writes>>

-----------------------------------------------------------------------------
(* The operator *)

AddKey ==
  /\ stage = 1 /\ stage' = 2
  /\ UNCHANGED <<proc, db, last, undone, audited, writes>>

\* The audit asks column by column, once every replica runs the new ring; a
\* column that is not clean sends a replica round again.
RolledOut == \A r \in Replicas : ~Outdated(r) /\ proc[r].pc = "serve"
AuditStaleCiphertext(c) ==
  /\ stage = 2 /\ c \notin audited /\ (audited = {} => RolledOut)
  /\ IF Stale(db[c], 2)
     THEN audited' = {} /\ \E r \in Replicas : proc[r].pc = "serve" /\ Go(r, Stopped)
     ELSE audited' = audited \cup {c} /\ UNCHANGED proc
  /\ UNCHANGED <<stage, db, last, undone, writes>>

DropKey ==
  /\ stage = 2 /\ audited = Cols /\ stage' = 3
  /\ UNCHANGED <<proc, db, last, undone, audited, writes>>

-----------------------------------------------------------------------------

Startup(r) == Boot(r) \/ MigrateEncryptCredentials(r) \/ selectStaleRows(r) \/ applyRewrap(r)
Operator == AddKey \/ DropKey \/ \E c \in Cols : AuditStaleCiphertext(c)
KNext ==
  \/ Operator
  \/ \E r \in Replicas : Startup(r) \/ Rollout(r) \/ Crash(r) \/ \E c \in Cols, v \in Values : Save(r, c, v)

KSpec == KInit /\ [][KNext]_kvars

-----------------------------------------------------------------------------
(* Properties *)

\* A rewrap never reverts a save: a column holds what the user saved last,
\* whatever another replica read before (applyRewrap's compare-and-swap: "a
\* silent revert of customer data").  The plaintext migration has no such guard.
SavesKept == \A c \in Cols \ undone : db[c].val = last[c]

\* Dropping a key loses nothing: a replica running the operator's latest
\* configuration reads every stored value, also while others still roll
\* (AuditStaleCiphertext: "a column missed here turns key destruction into data
\* destruction").
AlwaysReadable ==
  \A r \in Replicas : proc[r].pc = "serve" /\ ~Outdated(r) => \A c \in Cols : Decrypt(proc[r].ring, db[c])

=============================================================================
