---------------------------- MODULE StoresProofs ----------------------------
(***************************************************************************)
(* Keys, uploads, warehouses, relayed calls and the muxes, for any number  *)
(* of replicas, columns, values, requests and calls.                       *)
(*                                                                         *)
(* A rotation keeps every saved credential readable, the files of an       *)
(* upload pipeline are what was uploaded, a warehouse is as it was asked   *)
(* for, a relay acts at most once on a call, and a request is served for   *)
(* the tenant its token stands for.                                        *)
(***************************************************************************)
EXTENDS Keyring, FileDrop, WarehouseStorage, Assist, Gateway, TLAPS

-----------------------------------------------------------------------------
(* Key rotation: the audit is what makes it safe to drop the old key.  It  *)
(* starts only when every replica runs the new ring, and from then on      *)
(* whatever a replica writes, restarts included, is under the new key.     *)

Labels == {"down", "encrypt", "select", "apply", "serve"}
Rings == {<<>>, <<1>>, <<2, 1>>, <<2>>}
Procs == [pc : Labels, ring : Rings, rewrap : BOOLEAN, k : Nat, read : Forms \cup {NoValue}]

\* Types, and the ring of a replica that is up: one of the configurations the
\* operator has given out so far.
RingsGiven ==
  /\ stage \in 1..3
  /\ db \in [Cols -> Forms] /\ last \in [Cols -> Values]
  /\ undone \subseteq Cols /\ audited \subseteq Cols
  /\ proc \in [Replicas -> Procs]
  /\ \A r \in Replicas :
       /\ proc[r].pc # "down" => proc[r].ring # <<>>
       /\ proc[r].pc \in {"encrypt", "select", "apply"} => proc[r].k \in DOMAIN EncryptedColumns
       /\ stage = 1 => proc[r].ring \in {<<>>, <<1>>}
       /\ stage = 2 => proc[r].ring # <<2>>

\* Nothing is under the new key before it exists.
KeyExists == stage = 1 => \A c \in Cols : db[c].key # 2

\* Nobody writes under the old key once the audit has found a column clean.
Underway == audited # {} \/ stage = 3
OldKeyIdle == Underway => stage \in {2, 3} /\ \A r \in Replicas : proc[r].ring # <<1>>

\* A column the audit found clean stays so.
Clean(x) == x.env = "plain" \/ x.key = 2
AuditedClean ==
  /\ \A c \in audited : Clean(db[c])
  /\ stage = 3 => \A c \in Cols : Clean(db[c])

KInv == RingsGiven /\ KeyExists /\ OldKeyIdle /\ AuditedClean /\ SavesKept

-----------------------------------------------------------------------------
(* Values and rings *)

LEMMA EncryptFacts ==
  ASSUME NEW ring \in Rings \ {<<>>}, NEW v \in Values
  PROVE  /\ Encrypt(ring, v) \in Forms
         /\ Encrypt(ring, v).val = v
         /\ Encrypt(ring, v).env = "tagged"
         /\ Encrypt(ring, v).key = ring[1]
         /\ ring # <<1>> => Encrypt(ring, v).key = 2
         /\ ring = <<1>> => Encrypt(ring, v).key = 1
  BY DEF Encrypt, Forms, Rings

LEMMA FormFields ==
  ASSUME NEW x \in Forms
  PROVE  /\ x.val \in Values /\ x # NoValue
         /\ x.env \in {"plain", "untagged", "tagged"}
         /\ x.key \in {0, 1, 2} /\ (x.env # "plain" => x.key \in {1, 2})
         /\ x.env = "plain" => x.key = 0
  BY DEF Forms, NoValue

LEMMA StageRings ==
  /\ NewKeyring(Stages[1]) = <<1>> /\ NewKeyring(Stages[2]) = <<2, 1>> /\ NewKeyring(Stages[3]) = <<2>>
  /\ \A s \in 1..3 : NewKeyring(Stages[s]) \in Rings \ {<<>>} /\ Stages[s].rewrap \in BOOLEAN
<1>1. Stages[1] = [ring |-> <<1>>, rewrap |-> FALSE]
  BY DEF Stages
<1>2. Stages[2] = [ring |-> <<2, 1>>, rewrap |-> TRUE]
  BY DEF Stages
<1>3. Stages[3] = [ring |-> <<2>>, rewrap |-> TRUE]
  BY DEF Stages
<1>4. \A s \in 1..3 : s = 1 \/ s = 2 \/ s = 3
  OBVIOUS
<1>5. <<1>> # <<>> /\ <<2, 1>> # <<>> /\ <<2>> # <<>>
  OBVIOUS
<1>6. /\ NewKeyring(Stages[1]) = <<1>> /\ Stages[1].rewrap \in BOOLEAN
      /\ NewKeyring(Stages[2]) = <<2, 1>> /\ Stages[2].rewrap \in BOOLEAN
      /\ NewKeyring(Stages[3]) = <<2>> /\ Stages[3].rewrap \in BOOLEAN
  BY <1>1, <1>2, <1>3 DEF NewKeyring
<1>7. \A s \in 1..3 : NewKeyring(Stages[s]) \in Rings \ {<<>>}
  BY <1>4, <1>5, <1>6 DEF Rings
<1>8. \A s \in 1..3 : Stages[s].rewrap \in BOOLEAN
  BY <1>4, <1>6
<1>. QED
  BY <1>6, <1>7, <1>8

LEMMA FirstColumn == 1 \in DOMAIN EncryptedColumns /\ \A k \in DOMAIN EncryptedColumns : k \in Nat /\ EncryptedColumns[k] \in Cols
  BY KeyringAssumption DEF Cols

-----------------------------------------------------------------------------
(* The invariant is inductive *)

LEMMA InitKInv == KInit => KInv
<1>. SUFFICES ASSUME KInit PROVE KInv
  OBVIOUS
<1>0. stage = 1 /\ undone = {} /\ audited = {} /\ last = [c \in Cols |-> db[c].val]
  BY DEF KInit
<1>1. proc \in [Replicas -> Procs] /\ \A r \in Replicas : proc[r].pc = "serve" /\ proc[r].ring = <<1>>
  BY StageRings, Zenon DEF KInit, Procs, Labels, Rings, Stopped
<1>2. db \in [Cols -> Forms] /\ \A c \in Cols : db[c].key # 2
  BY DEF KInit
<1>3. last \in [Cols -> Values]
  BY <1>0, <1>2, FormFields
<1>4. RingsGiven
  <2>1. <<1>> # <<>>
    OBVIOUS
  <2>2. stage \in 1..3 /\ stage # 2 /\ undone \subseteq Cols /\ audited \subseteq Cols
    BY <1>0
  <2>3. \A r \in Replicas :
          /\ proc[r].ring # <<>> /\ proc[r].pc \notin {"encrypt", "select", "apply"} /\ proc[r].ring \in {<<>>, <<1>>}
    BY <1>1, <2>1, Zenon
  <2>. QED
    BY <1>1, <1>2, <1>3, <2>2, <2>3 DEF RingsGiven
<1>. QED
  BY <1>0, <1>1, <1>2, <1>4 DEF KInv, KeyExists, OldKeyIdle, Underway, AuditedClean, SavesKept

\* What a replica writes is under its primary key, which is the new one as
\* soon as it matters.
LEMMA WriteKeeps ==
  ASSUME KInv, NEW r \in Replicas, proc[r].pc # "down", NEW c \in Cols, NEW v \in Values,
         db' = [db EXCEPT ![c] = Encrypt(proc[r].ring, v)], stage' = stage, audited' = audited
  PROVE  db' \in [Cols -> Forms] /\ KeyExists' /\ AuditedClean'
<1>1. proc[r].ring \in Rings \ {<<>>}
  BY DEF KInv, RingsGiven, Procs
<1>2. db'[c] = Encrypt(proc[r].ring, v) /\ \A d \in Cols \ {c} : db'[d] = db[d]
  BY DEF KInv, RingsGiven
<1>3. db' \in [Cols -> Forms]
  BY <1>1, EncryptFacts DEF KInv, RingsGiven
<1>4. KeyExists'
  BY <1>1, <1>2, EncryptFacts DEF KInv, RingsGiven, KeyExists
<1>5. Underway => Clean(db'[c])
  BY <1>1, <1>2, EncryptFacts DEF KInv, OldKeyIdle, Clean
<1>6. AuditedClean'
  BY <1>2, <1>5 DEF KInv, RingsGiven, AuditedClean, Underway, Clean
<1>. QED
  BY <1>3, <1>4, <1>6

\* A replica that moves on keeps what is said of the replicas.
LEMMA MoveKeeps ==
  ASSUME KInv, NEW r \in Replicas, NEW p \in Procs, proc' = [proc EXCEPT ![r] = p],
         stage' = stage, audited' = audited, last' \in [Cols -> Values],
         db' \in [Cols -> Forms], undone' \subseteq Cols,
         p.pc # "down" => p.ring # <<>>,
         p.pc \in {"encrypt", "select", "apply"} => p.k \in DOMAIN EncryptedColumns,
         p.ring \in {<<>>, proc[r].ring, NewKeyring(Stages[stage])}
  PROVE  RingsGiven' /\ OldKeyIdle'
<1>1. stage \in 1..3
  BY DEF KInv, RingsGiven
<1>2. <<2>> # <<1>> /\ <<2, 1>> # <<1>> /\ <<2, 1>> # <<2>> /\ <<>> # <<1>> /\ <<>> # <<2>>
  OBVIOUS
<1>3. /\ stage = 1 => p.ring \in {<<>>, <<1>>}
      /\ stage = 2 => p.ring # <<2>>
      /\ Underway => p.ring # <<1>>
  BY <1>1, <1>2, StageRings, Zenon DEF KInv, RingsGiven, OldKeyIdle
<1>4. proc' \in [Replicas -> Procs] /\ proc'[r] = p /\ \A q \in Replicas \ {r} : proc'[q] = proc[q]
  BY DEF KInv, RingsGiven
<1>5. RingsGiven'
  BY <1>3, <1>4 DEF KInv, RingsGiven
<1>6. OldKeyIdle'
  BY <1>3, <1>4 DEF KInv, OldKeyIdle, Underway
<1>. QED
  BY <1>5, <1>6

LEMMA NextKInv == KInv /\ [KNext]_kvars => KInv'
<1>. SUFFICES ASSUME KInv, [KNext]_kvars PROVE KInv'
  OBVIOUS
<1>1. ASSUME NEW r \in Replicas, NEW c \in Cols, NEW v \in Values, Save(r, c, v) PROVE KInv'
  <2>1. proc[r].pc # "down" /\ db' = [db EXCEPT ![c] = Encrypt(proc[r].ring, v)]
        /\ UNCHANGED <<stage, proc, audited>>
    BY <1>1 DEF Save
  <2>2. db' \in [Cols -> Forms] /\ KeyExists' /\ AuditedClean'
    BY <2>1, WriteKeeps, Zenon
  <2>3. last' = [last EXCEPT ![c] = v] /\ undone' = undone \ {c}
    BY <1>1 DEF Save
  <2>4. RingsGiven' /\ OldKeyIdle'
    BY <2>1, <2>2, <2>3 DEF KInv, RingsGiven, OldKeyIdle, Underway
  <2>5. proc[r].ring \in Rings \ {<<>>}
    BY <2>1 DEF KInv, RingsGiven, Procs
  <2>6. db'[c].val = v /\ last'[c] = v
    BY <2>1, <2>3, <2>5, EncryptFacts DEF KInv, RingsGiven
  <2>7. SavesKept'
    BY <2>1, <2>3, <2>6 DEF KInv, RingsGiven, SavesKept
  <2>. QED
    BY <2>2, <2>4, <2>7 DEF KInv
<1>2. ASSUME NEW r \in Replicas, Stop(r) PROVE KInv'
  <2>1. Stopped \in Procs /\ Stopped.pc = "down" /\ Stopped.ring = <<>>
    BY DEF Stopped, Procs, Labels, Rings
  <2>2. proc' = [proc EXCEPT ![r] = Stopped] /\ UNCHANGED <<stage, db, last, undone, audited>>
    BY <1>2 DEF Stop, Go
  <2>3. RingsGiven' /\ OldKeyIdle'
    <3>1. db' \in [Cols -> Forms] /\ last' \in [Cols -> Values] /\ undone' \subseteq Cols
      BY <2>2 DEF KInv, RingsGiven
    <3>. QED
      BY <2>1, <2>2, <3>1, MoveKeeps, Zenon
  <2>. QED
    BY <2>2, <2>3 DEF KInv, KeyExists, AuditedClean, Clean, SavesKept
<1>3. ASSUME NEW r \in Replicas, Boot(r) PROVE KInv'
  <2>. DEFINE p == [pc |-> "encrypt", ring |-> NewKeyring(Stages[stage]), rewrap |-> Stages[stage].rewrap,
                    k |-> 1, read |-> IF db[EncryptedColumns[1]].env = "plain" THEN db[EncryptedColumns[1]] ELSE NoValue]
  <2>1. proc' = [proc EXCEPT ![r] = p] /\ UNCHANGED <<stage, db, last, undone, audited>>
    BY <1>3 DEF Boot, Go
  <2>2. db[EncryptedColumns[1]] \in Forms /\ stage \in 1..3
    BY FirstColumn DEF KInv, RingsGiven
  <2>3. p \in Procs /\ p.pc = "encrypt" /\ p.ring = NewKeyring(Stages[stage]) /\ p.ring # <<>>
        /\ p.k = 1
    BY <2>2, StageRings DEF Procs, Labels
  <2>4. RingsGiven' /\ OldKeyIdle'
    <3>1. db' \in [Cols -> Forms] /\ last' \in [Cols -> Values] /\ undone' \subseteq Cols
      BY <2>1 DEF KInv, RingsGiven
    <3>. HIDE DEF p
    <3>. QED
      BY <2>1, <2>3, <3>1, FirstColumn, MoveKeeps, Zenon
  <2>. QED
    BY <2>1, <2>4 DEF KInv, KeyExists, AuditedClean, Clean, SavesKept
<1>4. ASSUME NEW r \in Replicas, MigrateEncryptCredentials(r) PROVE KInv'
  <2>. DEFINE p == [proc[r] EXCEPT !.pc = IF proc[r].rewrap THEN "select" ELSE "serve", !.read = NoValue]
  <2>1. proc[r].pc = "encrypt" /\ proc' = [proc EXCEPT ![r] = p] /\ UNCHANGED <<stage, last, audited>>
    BY <1>4 DEF MigrateEncryptCredentials, Go
  <2>2. proc[r] \in Procs /\ proc[r].ring \in Rings \ {<<>>} /\ proc[r].k \in DOMAIN EncryptedColumns
    BY <2>1 DEF KInv, RingsGiven, Procs
  <2>3. p \in Procs /\ p.pc \in {"select", "serve"} /\ p.ring = proc[r].ring /\ p.k = proc[r].k
    BY <2>2, Zenon DEF Procs, Labels
  <2>. HIDE DEF p
  <2>4. CASE proc[r].read = NoValue
    <3>1. UNCHANGED <<db, undone>>
      BY <1>4, <2>4 DEF MigrateEncryptCredentials
    <3>2. db' \in [Cols -> Forms] /\ last' \in [Cols -> Values] /\ undone' \subseteq Cols
      BY <2>1, <3>1 DEF KInv, RingsGiven
    <3>3. RingsGiven' /\ OldKeyIdle'
      BY <2>1, <2>2, <2>3, <3>2, MoveKeeps, Zenon
    <3>. QED
      BY <2>1, <3>1, <3>3 DEF KInv, KeyExists, AuditedClean, Clean, SavesKept
  <2>5. CASE proc[r].read # NoValue
    <3>. DEFINE c == EncryptedColumns[1]
                v == proc[r].read.val
    <3>1. /\ db' = [db EXCEPT ![c] = Encrypt(proc[r].ring, v)]
          /\ undone' = undone \cup (IF v # last[c] THEN {c} ELSE {})
      BY <1>4, <2>5 DEF MigrateEncryptCredentials
    <3>2. c \in Cols /\ v \in Values
      BY <2>2, <2>5, FirstColumn, FormFields DEF Procs
    <3>. HIDE DEF c, v
    <3>3. db' \in [Cols -> Forms] /\ KeyExists' /\ AuditedClean'
      BY <2>1, <3>1, <3>2, WriteKeeps, Zenon
    <3>4. last' \in [Cols -> Values] /\ undone' \subseteq Cols
      BY <2>1, <3>1, <3>2 DEF KInv, RingsGiven
    <3>5. RingsGiven' /\ OldKeyIdle'
      BY <2>1, <2>2, <2>3, <3>3, <3>4, MoveKeeps, Zenon
    <3>6. db'[c].val = v /\ \A d \in Cols \ {c} : db'[d] = db[d]
      BY <2>2, <3>1, <3>2, EncryptFacts DEF KInv, RingsGiven
    <3>7. SavesKept'
      BY <2>1, <3>1, <3>2, <3>6 DEF KInv, SavesKept
    <3>. QED
      BY <3>3, <3>5, <3>7 DEF KInv
  <2>. QED
    BY <2>4, <2>5
<1>5. ASSUME NEW r \in Replicas, selectStaleRows(r) PROVE KInv'
  <2>. DEFINE p == [proc[r] EXCEPT !.pc = "apply",
                      !.read = IF Stale(db[Col(r)], proc[r].ring[1]) THEN db[Col(r)] ELSE NoValue]
  <2>1. proc[r].pc = "select" /\ proc' = [proc EXCEPT ![r] = p]
        /\ UNCHANGED <<stage, db, last, undone, audited>>
    BY <1>5 DEF selectStaleRows, Go
  <2>2. proc[r] \in Procs /\ proc[r].ring # <<>> /\ proc[r].k \in DOMAIN EncryptedColumns
    BY <2>1 DEF KInv, RingsGiven
  <2>3. db[Col(r)] \in Forms
    BY <2>2, FirstColumn DEF KInv, RingsGiven, Col
  <2>4. p \in Procs /\ p.pc = "apply" /\ p.ring = proc[r].ring /\ p.k = proc[r].k
    BY <2>2, <2>3, Zenon DEF Procs, Labels
  <2>. HIDE DEF p
  <2>5. db' \in [Cols -> Forms] /\ last' \in [Cols -> Values] /\ undone' \subseteq Cols
    BY <2>1 DEF KInv, RingsGiven
  <2>6. RingsGiven' /\ OldKeyIdle'
    BY <2>1, <2>2, <2>4, <2>5, MoveKeeps, Zenon
  <2>. QED
    BY <2>1, <2>6 DEF KInv, KeyExists, AuditedClean, Clean, SavesKept
<1>6. ASSUME NEW r \in Replicas, applyRewrap(r) PROVE KInv'
  <2>. DEFINE unread == proc[r].read # NoValue /\ ~Decrypt(proc[r].ring, proc[r].read)
              p == IF unread THEN Stopped ELSE NextColumn(proc[r])
              c == Col(r)
  <2>1. proc[r].pc = "apply" /\ proc' = [proc EXCEPT ![r] = p] /\ UNCHANGED <<stage, last, undone, audited>>
    BY <1>6 DEF applyRewrap, Go
  <2>2. proc[r] \in Procs /\ proc[r].ring \in Rings \ {<<>>} /\ proc[r].k \in DOMAIN EncryptedColumns
    BY <2>1 DEF KInv, RingsGiven, Procs
  <2>3. p \in Procs /\ (p.pc # "down" => p.ring # <<>>) /\ p.ring \in {<<>>, proc[r].ring}
        /\ (p.pc \in {"encrypt", "select", "apply"} => p.k \in DOMAIN EncryptedColumns)
    <3>1. CASE unread
      BY <3>1 DEF Stopped, Procs, Labels, Rings
    <3>2. CASE ~unread /\ proc[r].k < Len(EncryptedColumns)
      <4>1. p = [proc[r] EXCEPT !.pc = "select", !.k = @ + 1, !.read = NoValue]
        BY <3>2 DEF NextColumn
      <4>2. proc[r].k + 1 \in DOMAIN EncryptedColumns
        <5>1. DOMAIN EncryptedColumns = 1..Len(EncryptedColumns) /\ Len(EncryptedColumns) \in Nat
          BY KeyringAssumption
        <5>. QED
          BY <2>2, <3>2, <5>1
      <4>3. proc[r].k + 1 \in Nat
        BY <2>2 DEF Procs
      <4>. HIDE DEF p
      <4>4. p.pc = "select" /\ p.k = proc[r].k + 1 /\ p.ring = proc[r].ring
        BY <2>2, <4>1 DEF Procs
      <4>5. p \in Procs
        BY <2>2, <4>1, <4>3, Zenon DEF Procs, Labels
      <4>. QED
        BY <2>2, <4>2, <4>4, <4>5
    <3>3. CASE ~unread /\ ~(proc[r].k < Len(EncryptedColumns))
      BY <2>2, <3>3, Zenon DEF NextColumn, Procs, Labels
    <3>. QED
      BY <3>1, <3>2, <3>3, ZenonT(30)
  <2>. HIDE DEF p, unread
  <2>4. c \in Cols /\ db[c] \in Forms
    BY <2>2, FirstColumn DEF Col, KInv, RingsGiven
  <2>5. db' = db \/ (db[c] = proc[r].read /\ db' = [db EXCEPT ![c] = Encrypt(proc[r].ring, db[c].val)])
    BY <1>6, Zenon DEF applyRewrap, Swap
  <2>. HIDE DEF c
  <2>6. CASE db' = db
    <3>1. db' \in [Cols -> Forms] /\ last' \in [Cols -> Values] /\ undone' \subseteq Cols
      BY <2>1, <2>6 DEF KInv, RingsGiven
    <3>2. RingsGiven' /\ OldKeyIdle'
      BY <2>1, <2>3, <3>1, MoveKeeps, Zenon
    <3>. QED
      BY <2>1, <2>6, <3>2 DEF KInv, KeyExists, AuditedClean, Clean, SavesKept
  <2>7. CASE db' = [db EXCEPT ![c] = Encrypt(proc[r].ring, db[c].val)]
    <3>1. db[c].val \in Values
      BY <2>4, FormFields
    <3>2. db' \in [Cols -> Forms] /\ KeyExists' /\ AuditedClean'
      BY <2>1, <2>4, <2>7, <3>1, WriteKeeps, Zenon
    <3>3. last' \in [Cols -> Values] /\ undone' \subseteq Cols
      BY <2>1 DEF KInv, RingsGiven
    <3>4. RingsGiven' /\ OldKeyIdle'
      BY <2>1, <2>3, <3>2, <3>3, MoveKeeps, Zenon
    <3>5. \A d \in Cols : db'[d].val = db[d].val
      BY <2>2, <2>4, <2>7, <3>1, EncryptFacts DEF KInv, RingsGiven
    <3>. QED
      BY <2>1, <3>2, <3>4, <3>5 DEF KInv, SavesKept
  <2>. QED
    BY <2>5, <2>6, <2>7
<1>7. CASE AddKey
  <2>1. stage = 1 /\ stage' = 2 /\ UNCHANGED <<proc, db, last, undone, audited>>
    BY <1>7 DEF AddKey
  <2>2. audited = {} /\ \A r \in Replicas : proc[r].ring \in {<<>>, <<1>>}
    BY <2>1 DEF KInv, RingsGiven, OldKeyIdle, Underway
  <2>3. <<1>> # <<2>> /\ <<>> # <<2>>
    OBVIOUS
  <2>4. \A r \in Replicas : proc[r].ring # <<2>>
    BY <2>2, <2>3
  <2>5. RingsGiven'
    BY <2>1, <2>4 DEF KInv, RingsGiven
  <2>. QED
    BY <2>1, <2>2, <2>5 DEF KInv, KeyExists, OldKeyIdle, Underway, AuditedClean, Clean, SavesKept
<1>8. CASE DropKey
  <2>1. stage = 2 /\ stage' = 3 /\ audited = Cols /\ UNCHANGED <<proc, db, last, undone, audited>>
    BY <1>8 DEF DropKey
  <2>2. \A r \in Replicas : proc[r].ring # <<1>>
    BY <2>1, FirstColumn DEF KInv, OldKeyIdle, Underway
  <2>3. RingsGiven'
    BY <2>1 DEF KInv, RingsGiven
  <2>. QED
    BY <2>1, <2>2, <2>3 DEF KInv, KeyExists, OldKeyIdle, Underway, AuditedClean, Clean, SavesKept
<1>9. ASSUME NEW c \in Cols, AuditStaleCiphertext(c) PROVE KInv'
  <2>1. stage = 2 /\ (audited = {} => RolledOut) /\ UNCHANGED <<stage, db, last, undone>>
    BY <1>9 DEF AuditStaleCiphertext
  <2>2. CASE Stale(db[c], 2)
    <3>1. PICK r \in Replicas : proc' = [proc EXCEPT ![r] = Stopped] /\ audited' = {}
      BY <1>9, <2>2 DEF AuditStaleCiphertext, Go
    <3>2. Stopped \in Procs /\ Stopped.pc = "down" /\ Stopped.ring = <<>> /\ <<>> # <<2>>
      BY DEF Stopped, Procs, Labels, Rings
    <3>3. RingsGiven'
      BY <2>1, <3>1, <3>2 DEF KInv, RingsGiven
    <3>. QED
      BY <2>1, <3>1, <3>3 DEF KInv, KeyExists, OldKeyIdle, Underway, AuditedClean, Clean, SavesKept
  <2>3. CASE ~Stale(db[c], 2)
    <3>1. audited' = audited \cup {c} /\ UNCHANGED proc
      BY <1>9, <2>3 DEF AuditStaleCiphertext
    <3>2. Clean(db[c])
      BY <2>3 DEF Stale, Clean
    <3>3. \A r \in Replicas : proc[r].ring # <<1>>
      <4>1. <<2, 1>> # <<1>>
        OBVIOUS
      <4>2. CASE audited = {}
        BY <2>1, <4>1, <4>2, StageRings DEF RolledOut, Outdated
      <4>3. CASE audited # {}
        BY <4>3 DEF KInv, OldKeyIdle, Underway
      <4>. QED
        BY <4>2, <4>3
    <3>4. RingsGiven'
      BY <2>1, <3>1 DEF KInv, RingsGiven
    <3>5. AuditedClean'
      BY <2>1, <3>1, <3>2 DEF KInv, AuditedClean, Clean
    <3>. QED
      BY <2>1, <3>1, <3>3, <3>4, <3>5 DEF KInv, KeyExists, OldKeyIdle, Underway, SavesKept
  <2>. QED
    BY <2>2, <2>3
<1>10. CASE UNCHANGED kvars
  BY <1>10 DEF kvars, KInv, RingsGiven, KeyExists, OldKeyIdle, Underway, AuditedClean, Clean, SavesKept
<1>. QED
  BY <1>1, <1>2, <1>3, <1>4, <1>5, <1>6, <1>7, <1>8, <1>9, <1>10
  DEF KNext, Startup, Operator, Rollout, Crash

-----------------------------------------------------------------------------
(* Theorems *)

\* A rewrap never reverts a save: applyRewrap swaps only the ciphertext it
\* read, so a column holds what the user saved last, whatever replicas
\* restart, crash and rewrap at once (the plaintext migration aside).
THEOREM RotationKeepsSaves == KSpec => []SavesKept
<1>1. KInv => SavesKept
  BY DEF KInv
<1>. QED
  BY InitKInv, NextKInv, <1>1, PTL DEF KSpec

\* A replica that serves with the operator's latest ring reads every stored
\* value: AuditStaleCiphertext lets no key go that a value still needs.
LEMMA ReadableKInv == KInv => AlwaysReadable
<1>. SUFFICES ASSUME KInv, NEW r \in Replicas, proc[r].pc = "serve", ~Outdated(r), NEW c \in Cols
              PROVE  Decrypt(proc[r].ring, db[c])
  BY DEF AlwaysReadable
<1>1. db[c] \in Forms /\ stage \in 1..3 /\ proc[r].ring = NewKeyring(Stages[stage])
  BY DEF KInv, RingsGiven, Outdated
<1>2. db[c].env = "plain" \/ db[c].key \in {1, 2}
  BY <1>1, FormFields
<1>3. CASE stage = 1
  <2>1. proc[r].ring = <<1>> /\ db[c].key # 2
    BY <1>1, <1>3, StageRings DEF KInv, KeyExists
  <2>2. RingKeys(<<1>>) = {1}
    BY DEF RingKeys
  <2>. QED
    BY <1>2, <2>1, <2>2 DEF Decrypt
<1>4. CASE stage = 2
  <2>1. proc[r].ring = <<2, 1>>
    BY <1>1, <1>4, StageRings
  <2>2. RingKeys(<<2, 1>>) = {1, 2}
    BY DEF RingKeys
  <2>. QED
    BY <1>2, <2>1, <2>2 DEF Decrypt
<1>5. CASE stage = 3
  <2>1. proc[r].ring = <<2>> /\ Clean(db[c])
    BY <1>1, <1>5, StageRings DEF KInv, AuditedClean
  <2>2. RingKeys(<<2>>) = {2}
    BY DEF RingKeys
  <2>. QED
    BY <2>1, <2>2 DEF Decrypt, Clean
<1>. QED
  BY <1>1, <1>3, <1>4, <1>5

\* Dropping the old key loses nothing, for any number of replicas that still
\* roll, columns and saves in between (AuditStaleCiphertext).
THEOREM KeysDroppedSafely == KSpec => []AlwaysReadable
  BY InitKInv, NextKInv, ReadableKInv, PTL DEF KSpec

-----------------------------------------------------------------------------
(* Uploads: a request whose row nobody wrote since it was read holds the   *)
(* row as it is, so what it writes back changes its own file or settings   *)
(* only.                                                                   *)

DropRows == [files : SUBSET Files, set : Nat]
DropJobs == [pc : {"put", "delete", "reread", "write", "save"}, file : Files \cup {""},
             op : {"put", "delete", "save"}, row : DropRows, stale : BOOLEAN]

\* A request that names a file has one; only the editor's has none.
Named(r) == r.pc # "save" => r.file \in Files

DropTypes ==
  /\ drow \in DropRows /\ kept \in DropRows /\ raced \in BOOLEAN
  /\ job \in [Jobs -> DropJobs \cup {NoJob}]
  /\ \A j \in Jobs : job[j] # NoJob => Named(job[j])

RowAsRead == Owned => \A j \in Jobs : job[j] # NoJob /\ ~job[j].stale => job[j].row = drow
RowAsKept == ~raced /\ Owned => drow = kept

DropInv == DropTypes /\ RowAsRead /\ RowAsKept

LEMMA BusyJob ==
  ASSUME DropInv, NEW j \in Jobs, job[j].pc # "idle"
  PROVE  job[j] \in DropJobs /\ job[j] # NoJob /\ Named(job[j])
  BY DEF DropInv, DropTypes, NoJob

LEMMA DropJobFields ==
  ASSUME NEW r \in DropJobs
  PROVE  r # NoJob /\ r.row \in DropRows /\ r.stale \in BOOLEAN /\ r.row.files \subseteq Files /\ r.row.set \in Nat
<1>1. r.pc # NoJob.pc
  BY Zenon DEF DropJobs, NoJob
<1>2. r # NoJob
  BY <1>1
<1>. QED
  BY <1>2, Zenon DEF DropJobs, DropRows

LEMMA InitDropInv == DInit => DropInv
<1>. SUFFICES ASSUME DInit PROVE DropInv
  OBVIOUS
<1>1. drow \in DropRows /\ kept = drow /\ raced = FALSE /\ job = [j \in Jobs |-> NoJob]
  BY DEF DInit, DropRows
<1>. QED
  BY <1>1, Zenon DEF DropInv, DropTypes, RowAsRead, RowAsKept

\* A request that moves on alone: it ends, or holds a row that is current or
\* no more stale than before.
LEMMA StepKeeps ==
  ASSUME DropInv, NEW j \in Jobs, NEW r \in DropJobs \cup {NoJob}, Step(j, r),
         r # NoJob => Named(r),
         Owned /\ r # NoJob /\ ~r.stale => r.row = drow,
         UNCHANGED <<drow, kept, raced>>
  PROVE  DropInv'
<1>1. job' = [job EXCEPT ![j] = r]
  BY DEF Step
<1>2. job' \in [Jobs -> DropJobs \cup {NoJob}] /\ job'[j] = r /\ \A k \in Jobs \ {j} : job'[k] = job[k]
  BY <1>1 DEF DropInv, DropTypes
<1>3. DropTypes'
  BY <1>2 DEF DropInv, DropTypes
<1>4. RowAsRead' /\ RowAsKept'
  BY <1>2 DEF DropInv, RowAsRead, RowAsKept, Owned
<1>. QED
  BY <1>3, <1>4 DEF DropInv

LEMMA AnswerKeeps == ASSUME DropInv, NEW j \in Jobs, Answer(j), UNCHANGED <<drow, kept, raced>> PROVE DropInv'
  BY StepKeeps DEF Answer

\* A write of the row: every other request is stale from here on.
LEMMA WriteRowKeeps ==
  ASSUME DropInv, NEW j \in Jobs, job[j] # NoJob, Owned, NEW new \in DropRows, UpdatePipeline(j, new),
         kept' \in DropRows, ~raced /\ ~job[j].stale => new = kept'
  PROVE  DropInv'
<1>1. drow' = new /\ raced' = (raced \/ job[j].stale)
  BY DEF UpdatePipeline
<1>2. job' = [k \in Jobs |-> IF k = j THEN NoJob
                             ELSE IF job[k] = NoJob THEN NoJob ELSE [job[k] EXCEPT !.stale = TRUE]]
  BY DEF UpdatePipeline
<1>3. \A k \in Jobs : job[k] # NoJob => job[k] \in DropJobs
  BY DEF DropInv, DropTypes
<1>4. ASSUME NEW k \in Jobs, job[k] # NoJob
      PROVE  LET x == [job[k] EXCEPT !.stale = TRUE] IN x \in DropJobs /\ x.stale = TRUE /\ Named(x)
  <2>. DEFINE x == [job[k] EXCEPT !.stale = TRUE]
  <2>1. job[k] \in DropJobs /\ Named(job[k])
    BY <1>4 DEF DropInv, DropTypes
  <2>2. x \in DropJobs /\ x.stale = TRUE /\ x.pc = job[k].pc /\ x.file = job[k].file
    BY <2>1, Zenon DEF DropJobs
  <2>. QED
    BY <2>1, <2>2 DEF Named
<1>5. ASSUME NEW k \in Jobs, job'[k] # NoJob
      PROVE  job'[k] \in DropJobs /\ job'[k].stale = TRUE /\ Named(job'[k])
  <2>1. job[k] # NoJob /\ job'[k] = [job[k] EXCEPT !.stale = TRUE]
    BY <1>2, <1>5
  <2>. QED
    BY <1>4, <2>1
<1>6. job' \in [Jobs -> DropJobs \cup {NoJob}]
  BY <1>2, <1>5, Zenon
<1>7. raced' \in BOOLEAN /\ (~raced' => ~raced /\ ~job[j].stale)
  <2>1. job[j].stale \in BOOLEAN /\ raced \in BOOLEAN
    BY <1>3, DropJobFields DEF DropInv, DropTypes
  <2>. QED
    BY <1>1, <2>1
<1>8. DropTypes'
  BY <1>1, <1>5, <1>6, <1>7, Zenon DEF DropTypes
<1>9. RowAsRead' /\ RowAsKept'
  BY <1>1, <1>5, <1>7, Zenon DEF RowAsRead, RowAsKept
<1>. QED
  BY <1>8, <1>9 DEF DropInv

LEMMA NextDropInv == DropInv /\ [DNext]_dvars => DropInv'
<1>. SUFFICES ASSUME DropInv, [DNext]_dvars PROVE DropInv'
  OBVIOUS
<1>u. UNCHANGED <<drow, kept, raced, job>> => DropInv'
  BY DEF DropInv, DropTypes, RowAsRead, RowAsKept, Owned
<1>1. ASSUME NEW j \in Jobs, NEW f \in Files, NEW kind \in {"put", "delete"}, Accept(j, kind, f) PROVE DropInv'
  <2>. DEFINE r == [pc |-> kind, file |-> f, op |-> kind, row |-> drow, stale |-> FALSE]
  <2>1. r \in DropJobs /\ Named(r) /\ r.row = drow
    BY Zenon DEF DropJobs, Named, DropInv, DropTypes
  <2>2. Step(j, r) /\ UNCHANGED <<drow, kept, raced>>
    BY <1>1 DEF Accept
  <2>. HIDE DEF r
  <2>. QED
    BY <2>1, <2>2, StepKeeps
<1>2. ASSUME NEW j \in Jobs, Store(j) PROVE DropInv'
  <2>. DEFINE r == [job[j] EXCEPT !.pc = "reread"]
  <2>1. job[j].pc \in {"put", "delete"} /\ (Step(j, r) \/ Answer(j)) /\ UNCHANGED <<drow, kept, raced>>
    BY <1>2 DEF Store
  <2>2. job[j] \in DropJobs /\ job[j] # NoJob /\ Named(job[j])
    BY <2>1, BusyJob
  <2>3. r \in DropJobs /\ Named(r) /\ r.row = job[j].row /\ r.stale = job[j].stale
    BY <2>1, <2>2, Zenon DEF DropJobs, Named
  <2>4. Owned /\ ~r.stale => r.row = drow
    BY <2>2, <2>3 DEF DropInv, RowAsRead
  <2>. HIDE DEF r
  <2>. QED
    BY <2>1, <2>3, <2>4, StepKeeps, AnswerKeeps
<1>3. ASSUME NEW j \in Jobs, Reread(j) PROVE DropInv'
  <2>. DEFINE r1 == [job[j] EXCEPT !.pc = "write", !.row = drow, !.stale = FALSE]
              r2 == [job[j] EXCEPT !.pc = "write"]
  <2>1. job[j].pc = "reread" /\ (Step(j, r1) \/ Step(j, r2)) /\ UNCHANGED <<drow, kept, raced>>
    BY <1>3 DEF Reread, ReadAgain
  <2>2. job[j] \in DropJobs /\ job[j] # NoJob /\ Named(job[j]) /\ drow \in DropRows
    BY <2>1, BusyJob DEF DropInv, DropTypes
  <2>3. r1 \in DropJobs /\ Named(r1) /\ r1.row = drow
    BY <2>1, <2>2, Zenon DEF DropJobs, Named
  <2>4. r2 \in DropJobs /\ Named(r2) /\ r2.row = job[j].row /\ r2.stale = job[j].stale
    BY <2>1, <2>2, Zenon DEF DropJobs, Named
  <2>5. Owned /\ ~r2.stale => r2.row = drow
    BY <2>2, <2>4 DEF DropInv, RowAsRead
  <2>. HIDE DEF r1, r2
  <2>. QED
    BY <2>1, <2>3, <2>4, <2>5, StepKeeps
<1>4. ASSUME NEW j \in Jobs, updateFiles(j) PROVE DropInv'
  <2>. DEFINE f == job[j].file
              files == IF job[j].op = "put" THEN job[j].row.files \cup {f} ELSE job[j].row.files \ {f}
              new == [files |-> files, set |-> job[j].row.set]
  <2>1. job[j].pc = "write"
    BY <1>4 DEF updateFiles
  <2>2. job[j] \in DropJobs /\ job[j] # NoJob /\ f \in Files
    BY <2>1, BusyJob DEF Named
  <2>3. CASE Answer(j) /\ UNCHANGED <<drow, kept, raced>>
    BY <2>3, AnswerKeeps
  <2>4. CASE /\ Owned /\ UpdatePipeline(j, new)
             /\ kept' = [kept EXCEPT !.files = IF job[j].op = "put" THEN @ \cup {f} ELSE @ \ {f}]
    <3>1. new \in DropRows
      BY <2>2, DropJobFields DEF DropRows
    <3>2. kept \in DropRows
      BY DEF DropInv, DropTypes
    <3>3. kept' \in DropRows
      BY <2>2, <2>4, <3>2 DEF DropRows
    <3>4. ~raced /\ ~job[j].stale => new = kept'
      <4>1. SUFFICES ASSUME ~raced, ~job[j].stale PROVE new = kept'
        OBVIOUS
      <4>2. job[j].row = kept
        BY <2>2, <2>4, <4>1 DEF DropInv, RowAsRead, RowAsKept
      <4>. QED
        BY <2>4, <3>2, <4>2 DEF DropRows
    <3>. HIDE DEF new
    <3>. QED
      BY <2>2, <2>4, <3>1, <3>3, <3>4, WriteRowKeeps
  <2>. QED
    BY <1>4, <2>3, <2>4 DEF updateFiles
<1>5. ASSUME NEW j \in Jobs, Open(j) PROVE DropInv'
  <2>. DEFINE r == [pc |-> "save", file |-> "", op |-> "save", row |-> drow, stale |-> FALSE]
  <2>1. r \in DropJobs /\ Named(r) /\ r.row = drow
    BY Zenon DEF DropJobs, Named, DropInv, DropTypes
  <2>2. Step(j, r) /\ UNCHANGED <<drow, kept, raced>>
    BY <1>5, Zenon DEF Open
  <2>. HIDE DEF r
  <2>. QED
    BY <2>1, <2>2, StepKeeps
<1>6. ASSUME NEW j \in Jobs, SaveSettings(j) PROVE DropInv'
  <2>. DEFINE new == [job[j].row EXCEPT !.set = @ + 1]
  <2>1. job[j].pc = "save"
    BY <1>6 DEF SaveSettings
  <2>2. job[j] \in DropJobs /\ job[j] # NoJob /\ job[j].row \in DropRows /\ kept \in DropRows
    BY <2>1, BusyJob, DropJobFields DEF DropInv, DropTypes
  <2>3. CASE Answer(j) /\ UNCHANGED <<drow, kept, raced>>
    BY <2>3, AnswerKeeps
  <2>4. CASE Owned /\ UpdatePipeline(j, new) /\ kept' = [kept EXCEPT !.set = job[j].row.set + 1]
    <3>1. new \in DropRows /\ kept' \in DropRows
      BY <2>2, <2>4 DEF DropRows
    <3>2. ~raced /\ ~job[j].stale => job[j].row = kept
      BY <2>2, <2>4 DEF DropInv, RowAsRead, RowAsKept
    <3>3. ~raced /\ ~job[j].stale => new = kept'
      BY <2>2, <2>4, <3>2 DEF DropRows
    <3>. HIDE DEF new
    <3>. QED
      BY <2>2, <2>4, <3>1, <3>3, WriteRowKeeps
  <2>. QED
    BY <1>6, <2>3, <2>4 DEF SaveSettings
<1>7. CASE DeletePipelineRow
  <2>1. drow' = NoPipeline /\ kept' = NoPipeline /\ NoPipeline \in DropRows /\ UNCHANGED <<job, raced>>
    BY <1>7 DEF DeletePipelineRow, NoPipeline, DropRows
  <2>. QED
    BY <2>1 DEF DropInv, DropTypes, RowAsRead, RowAsKept, Owned
<1>8. ASSUME NEW f \in Files, OutOfBand(f) PROVE DropInv'
  BY <1>8, <1>u DEF OutOfBand
<1>9. CASE List
  BY <1>9, <1>u DEF List
<1>10. CASE UNCHANGED dvars
  BY <1>10, <1>u DEF dvars
<1>. QED
  BY <1>1, <1>2, <1>3, <1>4, <1>5, <1>6, <1>7, <1>8, <1>9, <1>10 DEF DNext, Upload, Delete

\* As long as no row was overwritten unseen, every answered upload, deletion
\* and save of settings is in the row the worker is served, whichever of them
\* fail half way and however they interleave (updateFiles).
THEOREM UploadsServed == DropSpec => []UploadsKept
<1>1. DropInv => UploadsKept
  BY DEF DropInv, RowAsKept, UploadsKept, resolveFileUploadPipeline
<1>. QED
  BY InitDropInv, NextDropInv, <1>1, PTL DEF DropSpec

-----------------------------------------------------------------------------
(* Warehouses: between its creation and its lookup by name a warehouse is  *)
(* there as its creator asked for it.                                      *)

CoreRequests == {ToCore(r) : r \in Asked}
Makings == {Resting} \cup [pc : {"create", "id"}, req : CoreRequests]

MadeAsAsked == \A c \in Creators : making[c].pc = "id" => Provided(making[c].req) \in houses

WarehouseInv == making \in [Creators -> Makings] /\ MadeAsAsked

LEMMA MakingKeeps ==
  ASSUME WarehouseInv, NEW c \in Creators, NEW m \in Makings, Making(c, m), houses \subseteq houses',
         m.pc = "id" => Provided(m.req) \in houses'
  PROVE  WarehouseInv'
<1>1. making' = [making EXCEPT ![c] = m]
  BY DEF Making
<1>2. making' \in [Creators -> Makings] /\ making'[c] = m /\ \A d \in Creators \ {c} : making'[d] = making[d]
  BY <1>1 DEF WarehouseInv
<1>. QED
  BY <1>2 DEF WarehouseInv, MadeAsAsked

LEMMA SayKeeps ==
  ASSUME WarehouseInv, NEW c \in Creators, NEW a, Say(c, a), houses \subseteq houses'
  PROVE  WarehouseInv'
<1>1. Resting \in Makings /\ Resting.pc # "id"
  BY DEF Makings, Resting
<1>. QED
  BY <1>1, MakingKeeps DEF Say

LEMMA NextWarehouseInv == WarehouseInv /\ [WNext]_wvars => WarehouseInv'
<1>. SUFFICES ASSUME WarehouseInv, [WNext]_wvars PROVE WarehouseInv'
  OBVIOUS
<1>1. ASSUME NEW c \in Creators, NEW r \in Asked, ServeCreateWarehouse(c, r) PROVE WarehouseInv'
  <2>. DEFINE m == [pc |-> "create", req |-> ToCore(r)]
  <2>1. m \in Makings /\ m.pc # "id"
    BY DEF Makings, CoreRequests
  <2>2. UNCHANGED houses /\ (Making(c, m) \/ \E a \in {"invalid", "unprovisioned", "error"} : Say(c, a))
    BY <1>1, Zenon DEF ServeCreateWarehouse, createWarehouse
  <2>. HIDE DEF m
  <2>. QED
    BY <2>1, <2>2, MakingKeeps, SayKeeps
<1>2. ASSUME NEW c \in Creators, PostWarehouse(c) PROVE WarehouseInv'
  <2>. DEFINE r == making[c].req
              m == [making[c] EXCEPT !.pc = "id"]
  <2>1. making[c].pc = "create" /\ making[c] \in Makings /\ houses \subseteq Added(r)
    BY <1>2 DEF PostWarehouse, WarehouseInv, Added
  <2>2. making[c] \in [pc : {"create", "id"}, req : CoreRequests]
    BY <2>1 DEF Makings, Resting
  <2>3. m \in Makings /\ m.req = r
    BY <2>2 DEF Makings
  <2>4. CASE Untaken(r) /\ houses' = Added(r) /\ Making(c, m)
    <3>1. Provided(m.req) \in houses'
      BY <2>3, <2>4 DEF Untaken, Added
    <3>. HIDE DEF m
    <3>. QED
      BY <2>1, <2>3, <2>4, <3>1, MakingKeeps
  <2>5. CASE Say(c, "error") /\ houses' \in {houses, Added(r)}
    BY <2>1, <2>5, SayKeeps
  <2>. QED
    BY <1>2, <2>4, <2>5 DEF PostWarehouse
<1>3. ASSUME NEW c \in Creators, GetWarehouseID(c) PROVE WarehouseInv'
  BY <1>3, SayKeeps DEF GetWarehouseID
<1>4. CASE UNCHANGED wvars
  BY <1>4 DEF wvars, WarehouseInv, MadeAsAsked
<1>. QED
  BY <1>1, <1>2, <1>3, <1>4 DEF WNext

\* However many users ask for the same name at once, whoever is told "ok" has
\* the warehouse they described, although CreateWarehouse finds it again by
\* its name only.
THEOREM WarehousesAsAsked == WarehouseSpec => CreatedAsAsked
<1>1. WInit => WarehouseInv
  BY DEF WInit, WarehouseInv, MadeAsAsked, Makings, Resting
<1>2. WarehouseInv /\ [WNext]_wvars =>
        [\A c \in Creators :
           making[c].pc = "id" /\ said'[c] = "ok" /\ making'[c] = Resting =>
             Provided(making[c].req) \in houses']_wvars
  <2>. SUFFICES ASSUME WarehouseInv, WNext, NEW c \in Creators, making[c].pc = "id"
                PROVE  Provided(making[c].req) \in houses'
    OBVIOUS
  <2>1. Provided(making[c].req) \in houses
    BY DEF WarehouseInv, MadeAsAsked
  <2>2. houses \subseteq houses'
    BY Zenon DEF WNext, ServeCreateWarehouse, createWarehouse, PostWarehouse, Added, GetWarehouseID
  <2>. QED
    BY <2>1, <2>2
<1>. QED
  BY <1>1, <1>2, NextWarehouseInv, PTL DEF WarehouseSpec, CreatedAsAsked

-----------------------------------------------------------------------------
(* The relays: only a call that is not over is posted, and every answer    *)
(* that may hide an action of the relay ends it.                           *)

CallStates == [pc : {"idle", "bearer", "mint", "post", "done"}, attempt : {0, 1}, token : Nat,
               out : {"none", "sent", "drafted", "suppressed", "unconfigured", "limited", "error", "refused"}]

RelayTypes ==
  /\ cache \in [Clients -> Nat] /\ revoked \in Nat /\ minted \in Nat
  /\ call \in [Calls -> CallStates] /\ handled \in [Calls -> {0, 1}]

OpenUnhandled == \A c \in Calls : call[c].pc # "done" => handled[c] = 0

RelayInv == RelayTypes /\ OpenUnhandled

LEMMA EndsKeeps ==
  ASSUME RelayTypes, NEW c \in Calls, NEW out \in {"sent", "drafted", "suppressed", "unconfigured", "limited", "error", "refused"},
         Ends(c, out)
  PROVE  /\ call' \in [Calls -> CallStates] /\ call'[c].pc = "done"
         /\ \A d \in Calls \ {c} : call'[d] = call[d]
<1>. DEFINE r == [pc |-> "done", attempt |-> 0, token |-> 0, out |-> out]
<1>1. r \in CallStates /\ r.pc = "done"
  BY DEF CallStates
<1>2. call' = [call EXCEPT ![c] = r]
  BY DEF Ends
<1>. HIDE DEF r
<1>. QED
  BY <1>1, <1>2 DEF RelayTypes

LEMMA MovesKeep ==
  ASSUME RelayTypes, NEW c \in Calls, NEW r \in CallStates, call' = [call EXCEPT ![c] = r]
  PROVE  /\ call' \in [Calls -> CallStates] /\ call'[c] = r
         /\ \A d \in Calls \ {c} : call'[d] = call[d]
  BY DEF RelayTypes

LEMMA InitRelayInv == AInit => RelayInv
<1>. SUFFICES ASSUME AInit PROVE RelayInv
  OBVIOUS
<1>. DEFINE r == [pc |-> "idle", attempt |-> 0, token |-> 0, out |-> "none"]
<1>1. r \in CallStates
  BY DEF CallStates
<1>2. call = [c \in Calls |-> r] /\ handled = [c \in Calls |-> 0]
  BY DEF AInit, RelayInit
<1>3. cache \in [Clients -> Nat] /\ revoked \in Nat /\ minted \in Nat
  BY DEF AInit, RelayInit
<1>. HIDE DEF r
<1>. QED
  BY <1>1, <1>2, <1>3 DEF RelayInv, RelayTypes, OpenUnhandled

LEMMA StartKeeps == ASSUME RelayInv, NEW c \in Calls, Start(c) PROVE RelayInv'
<1>. DEFINE r == [call[c] EXCEPT !.pc = "bearer"]
<1>1. r \in CallStates /\ call[c].pc = "idle"
  BY DEF RelayInv, RelayTypes, Start, CallStates
<1>2. call' = [call EXCEPT ![c] = r] /\ UNCHANGED <<cache, revoked, minted, handled>>
  BY DEF Start
<1>. HIDE DEF r
<1>3. /\ call' \in [Calls -> CallStates] /\ call'[c] = r
      /\ \A d \in Calls \ {c} : call'[d] = call[d]
  BY <1>1, <1>2, MovesKeep, Zenon DEF RelayInv
<1>. QED
  BY <1>1, <1>2, <1>3 DEF RelayInv, RelayTypes, OpenUnhandled

LEMMA BearerKeeps == ASSUME RelayInv, NEW c \in Calls, Bearer(c) PROVE RelayInv'
<1>. DEFINE k == Client(c)
            r1 == [call[c] EXCEPT !.pc = "post", !.token = cache[k]]
            r2 == [call[c] EXCEPT !.pc = "mint"]
<1>0. k \in Clients /\ call[c] \in CallStates /\ cache[k] \in Nat
  BY DEF RelayInv, RelayTypes, Client, Clients
<1>1. r1 \in CallStates /\ r2 \in CallStates /\ call[c].pc # "done"
  BY <1>0, Zenon DEF Bearer, CallStates
<1>2. /\ call' = [call EXCEPT ![c] = r1] \/ call' = [call EXCEPT ![c] = r2]
      /\ UNCHANGED <<cache, revoked, minted, handled>>
  BY Zenon DEF Bearer
<1>. HIDE DEF r1, r2
<1>3. /\ call' \in [Calls -> CallStates]
      /\ \A d \in Calls \ {c} : call'[d] = call[d]
  BY <1>1, <1>2, MovesKeep DEF RelayInv
<1>. QED
  BY <1>1, <1>2, <1>3 DEF RelayInv, RelayTypes, OpenUnhandled

LEMMA MintKeeps == ASSUME RelayInv, NEW c \in Calls, Mint(c) PROVE RelayInv'
<1>. DEFINE k == Client(c)
            r == [call[c] EXCEPT !.pc = "post", !.token = minted + 1]
<1>0. k \in Clients /\ call[c] \in CallStates /\ minted \in Nat /\ minted + 1 \in Nat
  BY DEF RelayInv, RelayTypes, Client, Clients
<1>p. call[c].pc # "done"
  BY DEF Mint
<1>1. r \in CallStates /\ call[c].pc # "done"
  BY <1>0, <1>p, Zenon DEF CallStates
<1>2. CASE /\ minted' = minted + 1 /\ cache' = [cache EXCEPT ![k] = minted + 1]
           /\ call' = [call EXCEPT ![c] = r]
  <2>. HIDE DEF r
  <2>1. /\ call' \in [Calls -> CallStates]
        /\ \A d \in Calls \ {c} : call'[d] = call[d]
    BY <1>1, <1>2, MovesKeep, Zenon DEF RelayInv
  <2>2. UNCHANGED <<revoked, handled>>
    BY DEF Mint
  <2>3. cache' \in [Clients -> Nat] /\ minted' \in Nat
    BY <1>0, <1>2 DEF RelayInv, RelayTypes
  <2>. QED
    BY <1>1, <2>1, <2>2, <2>3 DEF RelayInv, RelayTypes, OpenUnhandled
<1>3. CASE Ends(c, "error") /\ UNCHANGED <<minted, cache>>
  <2>1. /\ call' \in [Calls -> CallStates] /\ call'[c].pc = "done"
        /\ \A d \in Calls \ {c} : call'[d] = call[d]
    BY <1>3, EndsKeeps DEF RelayInv
  <2>2. UNCHANGED <<revoked, handled>>
    BY DEF Mint
  <2>. QED
    BY <1>3, <2>1, <2>2 DEF RelayInv, RelayTypes, OpenUnhandled
<1>. QED
  BY <1>2, <1>3, Zenon DEF Mint

LEMMA PostKeeps == ASSUME RelayInv, NEW c \in Calls, Post(c) PROVE RelayInv'
<1>. DEFINE outs == {"sent", "drafted", "suppressed", "unconfigured", "limited", "error", "refused"}
            r == [call[c] EXCEPT !.pc = "bearer", !.attempt = 1]
<1>0. call[c] \in CallStates /\ handled[c] = 0 /\ UNCHANGED <<cache, revoked, minted>>
  BY DEF RelayInv, RelayTypes, OpenUnhandled, Post
<1>1. r \in CallStates
  BY <1>0, Zenon DEF CallStates
<1>2. ASSUME NEW out \in outs, Ends(c, out), NEW n \in {0, 1}, handled' = [handled EXCEPT ![c] = n]
      PROVE  RelayInv'
  <2>1. /\ call' \in [Calls -> CallStates] /\ call'[c].pc = "done"
        /\ \A d \in Calls \ {c} : call'[d] = call[d]
    BY <1>2, EndsKeeps DEF RelayInv
  <2>2. handled' \in [Calls -> {0, 1}] /\ \A d \in Calls \ {c} : handled'[d] = handled[d]
    BY <1>2 DEF RelayInv, RelayTypes
  <2>. QED
    BY <1>0, <2>1, <2>2 DEF RelayInv, RelayTypes, OpenUnhandled
<1>3. CASE call' = [call EXCEPT ![c] = r] /\ UNCHANGED handled
  <2>. HIDE DEF r
  <2>1. /\ call' \in [Calls -> CallStates]
        /\ \A d \in Calls \ {c} : call'[d] = call[d]
    BY <1>1, <1>3, MovesKeep, Zenon DEF RelayInv
  <2>. QED
    BY <1>0, <1>3, <2>1 DEF RelayInv, RelayTypes, OpenUnhandled
<1>4. UNCHANGED handled => handled' = [handled EXCEPT ![c] = 0]
  BY <1>0 DEF RelayInv, RelayTypes
<1>5. CASE \E out \in Acted(c) : Ends(c, out) /\ handled' = [handled EXCEPT ![c] = @ + 1]
  <2>1. PICK out \in outs : Ends(c, out) /\ handled' = [handled EXCEPT ![c] = 1]
    BY <1>0, <1>5 DEF Acted
  <2>. QED
    BY <1>2, <2>1
<1>6. CASE (\E out \in Declined(c) : Ends(c, out)) /\ UNCHANGED handled
  BY <1>2, <1>4, <1>6 DEF Declined
<1>7. CASE Ends(c, "error") /\ \E acted \in {0, 1} : handled' = [handled EXCEPT ![c] = @ + acted]
  <2>1. PICK acted \in {0, 1} : handled' = [handled EXCEPT ![c] = handled[c] + acted]
    BY <1>7, Zenon
  <2>2. handled[c] + acted = acted
    BY <1>0
  <2>. QED
    BY <1>2, <1>7, <2>1, <2>2, Zenon
<1>8. CASE UNCHANGED handled /\ Ends(c, "refused")
  BY <1>2, <1>4, <1>8
<1>. QED
  BY <1>3, <1>5, <1>6, <1>7, <1>8, Zenon DEF Post

LEMMA NextRelayInv == RelayInv /\ [ANext]_assistVars => RelayInv'
<1>. SUFFICES ASSUME RelayInv, [ANext]_assistVars PROVE RelayInv'
  OBVIOUS
<1>q. UNCHANGED relayVars => RelayInv'
  BY DEF relayVars, RelayInv, RelayTypes, OpenUnhandled
<1>1. ASSUME NEW d \in Drafts, Request(d) PROVE RelayInv'
  BY <1>1, <1>q, Zenon DEF Request, Quiet
<1>2. ASSUME NEW c \in Calls, Start(c) PROVE RelayInv'
  BY <1>2, StartKeeps
<1>3. ASSUME NEW d \in Drafts, AssistStep(d) PROVE RelayInv'
  <2>1. CASE Read(d) \/ Describe(d) \/ Context(d) \/ Decode(d) \/ Explain(d)
    BY <2>1, <1>q DEF Read, Describe, Context, Decode, Explain, Quiet
  <2>2. CASE \E t \in asked[d].busy : Columns(d, t)
    BY <2>2, <1>q DEF Columns, Quiet
  <2>3. CASE Complete(d)
    <3>0. d \in Calls
      BY DEF Calls
    <3>1. CASE CompleteRelay(d)
      BY <1>2, <3>0, <3>1 DEF CompleteRelay
    <3>2. CASE CompleteOpenAICompat(d) \/ CompleteAnthropic(d)
      <4>1. PICK out \in {"drafted", "error"} : Ends(d, out)
        BY <3>2 DEF CompleteOpenAICompat, CompleteAnthropic, decodeChatResponse, firstText
      <4>2. UNCHANGED <<cache, revoked, minted, handled>>
        BY <3>2 DEF CompleteOpenAICompat, CompleteAnthropic, Exchanged
      <4>3. /\ call' \in [Calls -> CallStates] /\ call'[d].pc = "done"
            /\ \A e \in Calls \ {d} : call'[e] = call[e]
        BY <3>0, <4>1, EndsKeeps DEF RelayInv
      <4>. QED
        BY <4>2, <4>3 DEF RelayInv, RelayTypes, OpenUnhandled
    <3>. QED
      BY <2>3, <3>1, <3>2 DEF Complete
  <2>. QED
    BY <1>3, <2>1, <2>2, <2>3 DEF AssistStep
<1>4. ASSUME NEW c \in Calls, RelayStep(c) PROVE RelayInv'
  BY <1>4, BearerKeeps, MintKeeps, PostKeeps DEF RelayStep
<1>5. CASE Outside
  <2>1. UNCHANGED <<cache, minted, call, handled>> /\ revoked' \in Nat
    BY <1>5 DEF Outside, Revoke, Expire, RelayInv, RelayTypes
  <2>. QED
    BY <2>1 DEF RelayInv, RelayTypes, OpenUnhandled
<1>6. CASE UNCHANGED assistVars
  BY <1>6, <1>q DEF assistVars
<1>. QED
  BY <1>1, <1>2, <1>3, <1>4, <1>5, <1>6 DEF ANext, Goroutine, Alert, Calls

\* No failed run is mailed twice and no question is drafted twice, whatever
\* tokens expire, are revoked or cannot be minted, and however many calls race
\* for the TokenSource (AlertPipelineFailure, RemoteCaller.post).
THEOREM RelayActsOnce == AssistSpec => []HandledOnce
<1>1. RelayInv => HandledOnce
  BY DEF RelayInv, RelayTypes, HandledOnce
<1>. QED
  BY InitRelayInv, NextRelayInv, <1>1, PTL DEF AssistSpec

-----------------------------------------------------------------------------
(* The muxes: only Arrive hands a request to a handler, with what the      *)
(* interceptor and workerAuth made of its token.                           *)

\* A request that is served for a tenant.
Bound(mux, rpc, t, tenant) ==
  rpc # "health" =>
    /\ t.valid
    /\ rpc \in {"poll", "report"} =>
         /\ mux = "internal"
         /\ IF t.iss = "own" THEN tenant = "own"
            ELSE <<tenant, t.sub>> \in {<<"own", "worker-own">>, <<"other", "worker-other">>}
    /\ rpc \notin {"poll", "report"} => t.iss = "own" /\ t.sub \in {"person", "member"}

LEMMA CallerSlugs ==
  ASSUME NEW mux \in Muxes, NEW t \in Tokens, callerSlug(mux, t) # "none"
  PROVE  /\ mux = "internal"
         /\ IF t.iss = "own" THEN callerSlug(mux, t) = "own"
            ELSE <<callerSlug(mux, t), t.sub>> \in {<<"own", "worker-own">>, <<"other", "worker-other">>}
<1>1. mux = "internal"
  BY DEF callerSlug, newWorkerAuth
<1>2. CASE t.iss = "own"
  BY <1>1, <1>2 DEF callerSlug, newWorkerAuth, slugForIssuer
<1>3. CASE t.iss # "own"
  BY <1>1, <1>3 DEF callerSlug, newWorkerAuth, slugForIssuer
<1>. QED
  BY <1>1, <1>2, <1>3

LEMMA TenantsBound ==
  ASSUME NEW mux \in Muxes, NEW rpc \in RPCs, NEW t \in Tokens, NEW slug \in Slugs,
         Tenant(mux, rpc, t, slug) # "none"
  PROVE  Bound(mux, rpc, t, Tenant(mux, rpc, t, slug))
<1>s. t.sub \in Subjects
  BY DEF Tokens, NoToken, Subjects
<1>1. CASE rpc \in {"user", "stream", "upload"}
  <2>1. GetWorkspaceByUser(t.sub) /\ parseToken(t)
    BY <1>1 DEF Tenant, WrapUnary, WrapStreamingHandler, UserIDFromBearer, userIDFromToken,
                authenticateBearer, authenticateToken
  <2>. QED
    BY <1>1, <1>s, <2>1 DEF Bound, GetWorkspaceByUser, parseToken, parserOptions, IsServiceAccount, Subjects
<1>2. CASE rpc \in {"poll", "report"}
  <2>1. Admitted(mux, t) /\ Tenant(mux, rpc, t, slug) = callerSlug(mux, t)
    BY <1>2 DEF Tenant, PollTenant
  <2>2. callerSlug(mux, t) # "none"
    BY <2>1
  <2>3. mux = "internal"
    BY <2>2, CallerSlugs
  <2>4. t.valid
    BY <2>1, <2>3 DEF Admitted, internalCallerFromRequest
  <2>. QED
    BY <1>2, <2>1, <2>2, <2>4, CallerSlugs DEF Bound
<1>. QED
  BY <1>1, <1>2 DEF RPCs, Bound

RequestStates ==
  [pc : {"waiting", "refused", "handler", "answered"}, mux : Muxes, rpc : RPCs, tenant : Slugs, token : Tokens]

RequestBound(q) == q.pc = "handler" => Bound(q.mux, q.rpc, q.token, q.tenant)

GatewayInv ==
  /\ request \in [Requests -> RequestStates]
  /\ \A r \in Requests : RequestBound(request[r])

LEMMA IdleRequest ==
  ASSUME NEW pc \in {"waiting", "refused", "answered"}
  PROVE  [Waiting EXCEPT !.pc = pc] \in RequestStates /\ [Waiting EXCEPT !.pc = pc].pc # "handler"
  BY DEF Waiting, RequestStates, Muxes, RPCs, Slugs, Tokens

LEMMA RequestSet ==
  ASSUME GatewayInv, NEW r \in Requests, NEW q \in RequestStates, RequestBound(q),
         request' = [request EXCEPT ![r] = q]
  PROVE  GatewayInv'
  BY DEF GatewayInv

LEMMA InitGatewayInv == GInit => GatewayInv
<1>. SUFFICES ASSUME GInit PROVE GatewayInv
  OBVIOUS
<1>1. Waiting \in RequestStates /\ Waiting.pc # "handler"
  BY DEF Waiting, RequestStates, Muxes, RPCs, Slugs, Tokens
<1>. QED
  BY <1>1 DEF GInit, GatewayInv, RequestBound

LEMMA NextGatewayInv == GatewayInv /\ [GNext]_gatewayVars => GatewayInv'
<1>. SUFFICES ASSUME GatewayInv, [GNext]_gatewayVars PROVE GatewayInv'
  OBVIOUS
<1>u. UNCHANGED request => GatewayInv'
  BY DEF GatewayInv
<1>1. CASE Process \/ TenSeconds \/ Signal
  BY <1>1, <1>u, Zenon DEF Process, StartUp, Setup, ReadConfig, openDatabase, loadKeys, StartupStep, Wire, Drain,
                    PublicDrained, CloseInternal, InternalDrained, Exit, TenSeconds, Signal
<1>2. ASSUME NEW m \in Muxes, Listen(m) PROVE GatewayInv'
  BY <1>2, <1>u DEF Listen
<1>3. ASSUME NEW r \in Requests, Handled(r) PROVE GatewayInv'
  <2>. DEFINE q == [Waiting EXCEPT !.pc = "answered"]
  <2>1. q \in RequestStates /\ RequestBound(q)
    BY IdleRequest DEF RequestBound
  <2>2. request' = [request EXCEPT ![r] = q]
    BY <1>3 DEF Handled
  <2>. HIDE DEF q
  <2>. QED
    BY <2>1, <2>2, RequestSet, Zenon
<1>4. ASSUME NEW r \in Requests, Arrive(r) PROVE GatewayInv'
  <2>1. PICK mux \in Muxes, rpc \in RPCs, t \in Tokens, slug \in Slugs :
          request' = [request EXCEPT ![r] =
            IF Tenant(mux, rpc, t, slug) = "none" THEN [Waiting EXCEPT !.pc = "refused"]
            ELSE [pc |-> "handler", mux |-> mux, rpc |-> rpc, tenant |-> Tenant(mux, rpc, t, slug), token |-> t]]
    <3>1. \E mux \in Muxes, rpc \in RPCs, t \in Tokens, slug \in Slugs :
            /\ listener[mux] = "open"
            /\ rpc = "health" => t = NoToken
            /\ LET tenant == Tenant(mux, rpc, t, slug) IN
               request' = [request EXCEPT ![r] =
                 IF tenant = "none" THEN [Waiting EXCEPT !.pc = "refused"]
                 ELSE [pc |-> "handler", mux |-> mux, rpc |-> rpc, tenant |-> tenant, token |-> t]]
      BY <1>4, Zenon DEF Arrive
    <3>. QED
      BY <3>1, Zenon
  <2>. DEFINE tenant == Tenant(mux, rpc, t, slug)
              q1 == [Waiting EXCEPT !.pc = "refused"]
              q2 == [pc |-> "handler", mux |-> mux, rpc |-> rpc, tenant |-> tenant, token |-> t]
  <2>2. CASE tenant = "none"
    <3>1. q1 \in RequestStates /\ RequestBound(q1)
      BY IdleRequest DEF RequestBound
    <3>2. request' = [request EXCEPT ![r] = q1]
      BY <2>1, <2>2
    <3>. HIDE DEF q1
    <3>. QED
      BY <3>1, <3>2, RequestSet, Zenon
  <2>3. CASE tenant # "none"
    <3>1. tenant \in Slugs
      BY DEF Tenant, PollTenant, callerSlug, newWorkerAuth, slugForIssuer, Muxes, RPCs, Slugs
    <3>2. q2 \in RequestStates
      BY <3>1 DEF RequestStates
    <3>3. Bound(mux, rpc, t, tenant)
      BY <2>3, TenantsBound
    <3>4. RequestBound(q2)
      BY <3>3 DEF RequestBound
    <3>5. request' = [request EXCEPT ![r] = q2]
      BY <2>1, <2>3
    <3>. HIDE DEF q2
    <3>. QED
      BY <3>2, <3>4, <3>5, RequestSet, Zenon
  <2>. QED
    BY <2>2, <2>3
<1>5. CASE UNCHANGED gatewayVars
  BY <1>5, <1>u DEF gatewayVars
<1>. QED
  BY <1>1, <1>2, <1>3, <1>4, <1>5 DEF GNext

\* Whatever token, slug and mux a request comes with, it reaches a handler for
\* the tenant its token stands for only, in every phase of the process
\* (workerAuth, authInterceptor, StaticResolver).
THEOREM ServedForOwnTenant == GatewaySpec => []TenantBound
<1>1. GatewayInv => TenantBound
  BY DEF GatewayInv, RequestBound, Bound, TenantBound
<1>. QED
  BY InitGatewayInv, NextGatewayInv, <1>1, PTL DEF GatewaySpec

=============================================================================
