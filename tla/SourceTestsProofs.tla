------------------------- MODULE SourceTestsProofs -------------------------
(***************************************************************************)
(* The safety of source tests for any set of tests, workers and tenants,   *)
(* and of restored versions for any pipelines, definitions and requests.   *)
(***************************************************************************)
EXTENDS SourceTests, Versions, SequenceTheorems, FiniteSetTheorems, WellFoundedInduction, TLAPS

\* What the workers may hold of a test: nothing before it is claimed; then at
\* most one worker holds it, and what it holds agrees with the row.
HoldersAgree ==
  \A t \in Tests :
    /\ \A w, v \in Workers : work[w][t] # "no" /\ work[v][t] # "no" => w = v
    /\ \A w \in Workers : work[w][t] # "no" =>
         /\ handed[t] = 1
         /\ test[t] # None => \/ test[t].status = "running"
                              \/ test[t].status \in Verdicts /\ test[t].status = work[w][t]

\* A test that was not asked for yet has no row; one that waits for its claim
\* was handed to nobody.
ClaimOpen ==
  \A t \in Tests :
    /\ console[t] = "unasked" => test[t] = None /\ handed[t] = 0
    /\ test[t] # None /\ test[t].status = "pending" => handed[t] = 0

IInv == /\ TypeOK /\ ProbedOnce /\ ShownVerdictStands /\ CredentialsUntilAnswered
        /\ HoldersAgree /\ ClaimOpen

\* A row built from values of the right types is a row.
LEMMA RowType ==
  ASSUME NEW c \in Tenants, NEW st \in {"pending", "running"} \cup Verdicts,
         NEW cr \in BOOLEAN, NEW ex \in BOOLEAN
  PROVE  /\ Row(c, st, cr, ex) \in SourceTest
         /\ Row(c, st, cr, ex) # None
         /\ Row(c, st, cr, ex).tenant = c
         /\ Row(c, st, cr, ex).status = st
         /\ Row(c, st, cr, ex).creds = cr
         /\ Row(c, st, cr, ex).expired = ex
<1>1. Row(c, st, cr, ex) \in SourceTest
  BY DEF Row, SourceTest
<1>2. Row(c, st, cr, ex) # None
  BY <1>1, TestsAssumption DEF SourceTest, Verdicts
<1>. QED
  BY <1>1, <1>2 DEF Row

\* The fields of a row that exists.
LEMMA FieldTypes ==
  ASSUME TypeOK, NEW t \in Tests, test[t] # None
  PROVE  /\ test[t].tenant \in Tenants
         /\ test[t].status \in {"pending", "running"} \cup Verdicts
         /\ test[t].creds \in BOOLEAN
         /\ test[t].expired \in BOOLEAN
  BY DEF TypeOK, SourceTest

\* Every initial state satisfies the inductive invariant.
LEMMA InitIInv == Init => IInv
  BY DEF Init, IInv, TypeOK, ProbedOnce, ShownVerdictStands, CredentialsUntilAnswered,
         HoldersAgree, ClaimOpen, Verdicts

\* A Console asks for a test.
LEMMA StartIInv ==
  ASSUME IInv, NEW t \in Tests, NEW c \in Tenants, StartSourceTest(t, c)
  PROVE  IInv'
<1>. DEFINE r == Row(c, "pending", TRUE, FALSE)
<1>1. /\ r \in SourceTest /\ r # None /\ r.status = "pending" /\ r.creds = TRUE
  <2>1. "pending" \in {"pending", "running"} \cup Verdicts /\ TRUE \in BOOLEAN /\ FALSE \in BOOLEAN
    OBVIOUS
  <2>. QED
    BY <2>1, RowType, Zenon
<1>. HIDE DEF r
<1>2. /\ test' = [test EXCEPT ![t] = r]
      /\ \E shown \in {"waiting", "gone"} : console' = [console EXCEPT ![t] = shown]
      /\ work' = work /\ handed' = handed
  BY Zenon DEF StartSourceTest, r
<1>3. console[t] = "unasked" /\ test[t] = None /\ handed[t] = 0
  BY DEF StartSourceTest, IInv, ClaimOpen
<1>4. \A w \in Workers : work[w][t] = "no"
  BY <1>3 DEF IInv, HoldersAgree
<1>5. TypeOK'
  BY <1>1, <1>2 DEF IInv, TypeOK
<1>6. (ProbedOnce /\ ShownVerdictStands /\ CredentialsUntilAnswered)'
  BY <1>1, <1>2 DEF IInv, TypeOK, ProbedOnce, ShownVerdictStands, CredentialsUntilAnswered, Verdicts
<1>7. HoldersAgree'
  BY <1>1, <1>2, <1>4 DEF IInv, TypeOK, HoldersAgree
<1>8. ClaimOpen'
  BY <1>1, <1>2, <1>3 DEF IInv, TypeOK, ClaimOpen
<1>. QED
  BY <1>5, <1>6, <1>7, <1>8 DEF IInv

\* A Console polls.
LEMMA GetIInv ==
  ASSUME IInv, NEW t \in Tests, GetSourceTest(t)
  PROVE  IInv'
<1>1. TypeOK'
  BY DEF IInv, TypeOK, GetSourceTest, Verdicts
<1>2. ShownVerdictStands'
  BY DEF IInv, TypeOK, GetSourceTest, ShownVerdictStands, Found, Verdicts
<1>3. (ProbedOnce /\ CredentialsUntilAnswered /\ HoldersAgree)'
  BY DEF IInv, GetSourceTest, ProbedOnce, CredentialsUntilAnswered, HoldersAgree
<1>4. ClaimOpen'
  BY DEF IInv, TypeOK, GetSourceTest, ClaimOpen, Verdicts
<1>. QED
  BY <1>1, <1>2, <1>3, <1>4 DEF IInv

\* A worker claims.
LEMMA ClaimIInv ==
  ASSUME IInv, NEW w \in Workers, ClaimPendingSourceTests(w)
  PROVE  IInv'
<1>. DEFINE r(t) == Row(test[t].tenant, "running", test[t].creds, test[t].expired)
<1>1. \A t \in Claimable(w) :
        /\ t \in Tests /\ test[t] # None /\ test[t].status = "pending" /\ handed[t] = 0
        /\ \A v \in Workers : work[v][t] = "no"
  <2>. SUFFICES ASSUME NEW t \in Claimable(w)
                PROVE  /\ t \in Tests /\ test[t] # None /\ test[t].status = "pending" /\ handed[t] = 0
                       /\ \A v \in Workers : work[v][t] = "no"
    OBVIOUS
  <2>1. t \in Tests /\ test[t] # None /\ test[t].status = "pending"
    BY DEF Claimable, Found
  <2>2. handed[t] = 0
    BY <2>1 DEF IInv, ClaimOpen
  <2>. QED
    BY <2>1, <2>2 DEF IInv, HoldersAgree
<1>2. \A t \in Claimable(w) :
        /\ r(t) \in SourceTest /\ r(t) # None
        /\ r(t).status = "running" /\ r(t).creds = test[t].creds
  <2>. SUFFICES ASSUME NEW t \in Claimable(w)
                PROVE  /\ r(t) \in SourceTest /\ r(t) # None
                       /\ r(t).status = "running" /\ r(t).creds = test[t].creds
    OBVIOUS
  <2>1. test[t].tenant \in Tenants /\ test[t].creds \in BOOLEAN /\ test[t].expired \in BOOLEAN
    BY <1>1, FieldTypes DEF IInv
  <2>2. "running" \in {"pending", "running"} \cup Verdicts
    OBVIOUS
  <2>. DEFINE q == Row(test[t].tenant, "running", test[t].creds, test[t].expired)
  <2>3. /\ q \in SourceTest /\ q # None
        /\ q.status = "running" /\ q.creds = test[t].creds
    <3>1. q \in SourceTest
      BY <2>1, <2>2 DEF Row, SourceTest
    <3>2. q # None
      BY <3>1, TestsAssumption DEF SourceTest, Verdicts
    <3>. QED
      BY <3>1, <3>2 DEF Row
  <2>. QED
    BY <2>3
<1>. HIDE DEF r
<1>3. /\ test' = [t \in Tests |-> IF t \in Claimable(w) THEN r(t) ELSE test[t]]
      /\ console' = console
  BY DEF ClaimPendingSourceTests, r
<1>4. \/ /\ work' = [work EXCEPT ![w] = [t \in Tests |->
                                     IF t \in Claimable(w) THEN "claimed" ELSE work[w][t]]]
         /\ handed' = [t \in Tests |-> IF t \in Claimable(w) THEN handed[t] + 1 ELSE handed[t]]
      \/ work' = work /\ handed' = handed
  BY DEF ClaimPendingSourceTests, IInv, TypeOK
<1>5. TypeOK'
  <2>1. test' \in [Tests -> SourceTest \cup {None}] /\ console' = console
    BY <1>2, <1>3 DEF IInv, TypeOK
  <2>2. /\ work' \in [Workers -> [Tests -> {"no", "claimed"} \cup Verdicts]]
        /\ handed' \in [Tests -> Nat]
    BY <1>4 DEF IInv, TypeOK
  <2>. QED
    BY <2>1, <2>2 DEF IInv, TypeOK
<1>6. ProbedOnce'
  BY <1>1, <1>4 DEF IInv, TypeOK, ProbedOnce
<1>7. ShownVerdictStands'
  BY <1>1, <1>2, <1>3 DEF IInv, TypeOK, ShownVerdictStands, Verdicts
<1>8. CredentialsUntilAnswered'
  BY <1>1, <1>2, <1>3 DEF IInv, TypeOK, CredentialsUntilAnswered, Verdicts
<1>9. HoldersAgree'
  <2>1. CASE work' = work /\ handed' = handed
    BY <1>1, <1>2, <1>3, <2>1 DEF IInv, TypeOK, HoldersAgree
  <2>2. CASE /\ work' = [work EXCEPT ![w] = [t \in Tests |->
                                  IF t \in Claimable(w) THEN "claimed" ELSE work[w][t]]]
             /\ handed' = [t \in Tests |-> IF t \in Claimable(w) THEN handed[t] + 1 ELSE handed[t]]
    <3>. SUFFICES ASSUME NEW t \in Tests
                  PROVE  /\ \A u, v \in Workers : work'[u][t] # "no" /\ work'[v][t] # "no" => u = v
                         /\ \A u \in Workers : work'[u][t] # "no" =>
                              /\ handed'[t] = 1
                              /\ test'[t] # None => \/ test'[t].status = "running"
                                                    \/ /\ test'[t].status \in Verdicts
                                                       /\ test'[t].status = work'[u][t]
      BY DEF HoldersAgree
    <3>1. CASE t \in Claimable(w)
      <4>1. \A u \in Workers : work'[u][t] # "no" => u = w
        BY <1>1, <2>2, <3>1 DEF IInv, TypeOK
      <4>2. handed'[t] = 1 /\ test'[t].status = "running"
        BY <1>1, <1>2, <1>3, <2>2, <3>1
      <4>. QED
        BY <4>1, <4>2
    <3>2. CASE t \notin Claimable(w)
      <4>1. /\ \A u \in Workers : work'[u][t] = work[u][t]
            /\ handed'[t] = handed[t] /\ test'[t] = test[t]
        BY <1>3, <2>2, <3>2 DEF IInv, TypeOK
      <4>. QED
        BY <4>1 DEF IInv, HoldersAgree
    <3>. QED
      BY <3>1, <3>2
  <2>. QED
    BY <1>4, <2>1, <2>2
<1>10. ClaimOpen'
  BY <1>1, <1>2, <1>3, <1>4 DEF IInv, TypeOK, ClaimOpen
<1>. QED
  BY <1>5, <1>6, <1>7, <1>8, <1>9, <1>10 DEF IInv

\* A worker probes: what it holds goes from a claim to a verdict.
LEMMA ProbeIInv ==
  ASSUME IInv, NEW w \in Workers, NEW t \in Tests, Probe(w, t)
  PROVE  IInv'
<1>1. PICK v \in Verdicts : work' = [work EXCEPT ![w] = [work[w] EXCEPT ![t] = v]]
  BY Zenon DEF Probe, IInv, TypeOK
<1>2. work[w][t] = "claimed" /\ test' = test /\ console' = console /\ handed' = handed
  BY DEF Probe
<1>3. TypeOK'
  BY <1>1, <1>2 DEF IInv, TypeOK
<1>4. (ProbedOnce /\ ShownVerdictStands /\ CredentialsUntilAnswered /\ ClaimOpen)'
  BY <1>2 DEF IInv, ProbedOnce, ShownVerdictStands, CredentialsUntilAnswered, ClaimOpen
<1>5. HoldersAgree'
  <2>1. \A u \in Workers, s \in Tests : work'[u][s] # "no" => work[u][s] # "no"
    BY <1>1, <1>2 DEF IInv, TypeOK
  <2>2. test[t] # None => test[t].status = "running"
    BY <1>2 DEF IInv, HoldersAgree, Verdicts
  <2>3. \A u \in Workers, s \in Tests : u # w \/ s # t => work'[u][s] = work[u][s]
    BY <1>1 DEF IInv, TypeOK
  <2>. QED
    BY <1>2, <2>1, <2>2, <2>3 DEF IInv, HoldersAgree
<1>. QED
  BY <1>3, <1>4, <1>5 DEF IInv

\* A worker reports its verdict, perhaps again, perhaps late.
LEMMA ReportIInv ==
  ASSUME IInv, NEW w \in Workers, NEW t \in Tests, ReportSourceTest(w, t)
  PROVE  IInv'
<1>. DEFINE r == Row(test[t].tenant, work[w][t], FALSE, test[t].expired)
<1>1. work[w][t] \in Verdicts /\ work[w][t] # "no" /\ console' = console /\ handed' = handed
  BY DEF ReportSourceTest, Verdicts
<1>2. test[t] # None => r \in SourceTest /\ r # None /\ r.status = work[w][t] /\ r.creds = FALSE
  <2>. HAVE test[t] # None
  <2>1. test[t].tenant \in Tenants /\ test[t].expired \in BOOLEAN
    BY FieldTypes DEF IInv
  <2>2. r \in SourceTest
    BY <1>1, <2>1 DEF Row, SourceTest
  <2>3. r # None
    BY <2>2, TestsAssumption, Zenon DEF SourceTest, Verdicts
  <2>. QED
    BY <2>2, <2>3 DEF Row
<1>. HIDE DEF r
<1>3. test' = test \/ (test[t] # None /\ test' = [test EXCEPT ![t] = r])
  BY Zenon DEF ReportSourceTest, Completed, r
<1>4. work' = work \/ work' = [work EXCEPT ![w] = [work[w] EXCEPT ![t] = "no"]]
  BY DEF ReportSourceTest, IInv, TypeOK
<1>5. TypeOK'
  <2>1. test' \in [Tests -> SourceTest \cup {None}]
    BY <1>2, <1>3 DEF IInv, TypeOK
  <2>2. work' \in [Workers -> [Tests -> {"no", "claimed"} \cup Verdicts]]
    BY <1>4 DEF IInv, TypeOK
  <2>. QED
    BY <1>1, <2>1, <2>2 DEF IInv, TypeOK
<1>6. test[t] # None => test[t].status = "running" \/ test[t].status = work[w][t]
  BY <1>1 DEF IInv, HoldersAgree
<1>7. ProbedOnce'
  BY <1>1 DEF IInv, ProbedOnce
<1>8. ShownVerdictStands'
  BY <1>1, <1>2, <1>3, <1>6 DEF IInv, TypeOK, ShownVerdictStands, Verdicts
<1>9. CredentialsUntilAnswered'
  BY <1>1, <1>2, <1>3 DEF IInv, TypeOK, CredentialsUntilAnswered
<1>10. HoldersAgree'
  <2>1. \A u \in Workers, s \in Tests :
          work'[u][s] # "no" => work[u][s] # "no" /\ work'[u][s] = work[u][s]
    BY <1>4 DEF IInv, TypeOK
  <2>2. \A u \in Workers : work[u][t] # "no" => u = w
    BY <1>1 DEF IInv, HoldersAgree
  <2>3. \A s \in Tests : test'[s] = test[s] \/ (s = t /\ test[t] # None /\ test'[t] = r)
    BY <1>3 DEF IInv, TypeOK
  <2>. QED
    BY <1>1, <1>2, <2>1, <2>2, <2>3 DEF IInv, HoldersAgree
<1>11. ClaimOpen'
  <2>1. \A s \in Tests : test'[s] = test[s] \/ (s = t /\ test[t] # None /\ test'[t] = r)
    BY <1>3 DEF IInv, TypeOK
  <2>. QED
    BY <1>1, <1>2, <2>1 DEF IInv, ClaimOpen, Verdicts
<1>. QED
  BY <1>5, <1>7, <1>8, <1>9, <1>10, <1>11 DEF IInv

\* A worker restarts.
LEMMA RestartIInv ==
  ASSUME IInv, NEW w \in Workers, Restart(w)
  PROVE  IInv'
<1>1. work' = [work EXCEPT ![w] = [t \in Tests |-> "no"]] /\ test' = test /\ console' = console
      /\ handed' = handed
  BY DEF Restart
<1>2. TypeOK'
  BY <1>1 DEF IInv, TypeOK
<1>3. (ProbedOnce /\ ShownVerdictStands /\ CredentialsUntilAnswered /\ ClaimOpen)'
  BY <1>1 DEF IInv, ProbedOnce, ShownVerdictStands, CredentialsUntilAnswered, ClaimOpen
<1>4. HoldersAgree'
  <2>1. \A u \in Workers, s \in Tests : work'[u][s] # "no" => work'[u][s] = work[u][s]
    BY <1>1 DEF IInv, TypeOK
  <2>. QED
    BY <1>1, <2>1 DEF IInv, HoldersAgree
<1>. QED
  BY <1>2, <1>3, <1>4 DEF IInv

\* A test expires.
LEMMA ExpireIInv ==
  ASSUME IInv, NEW t \in Tests, Expire(t)
  PROVE  IInv'
<1>. DEFINE r == Row(test[t].tenant, test[t].status, test[t].creds, TRUE)
<1>1. /\ test[t] # None /\ test' = [test EXCEPT ![t] = r]
      /\ work' = work /\ console' = console /\ handed' = handed
  BY DEF Expire, Found
<1>2. r \in SourceTest /\ r # None /\ r.status = test[t].status /\ r.creds = test[t].creds
  <2>1. r \in SourceTest
    BY <1>1, FieldTypes DEF IInv, Row, SourceTest
  <2>2. r # None
    BY <2>1, TestsAssumption, Zenon DEF SourceTest, Verdicts
  <2>. QED
    BY <2>1, <2>2 DEF Row
<1>. HIDE DEF r
<1>3. \A s \in Tests : test'[s] = test[s] \/ (s = t /\ test'[t] = r)
  BY <1>1 DEF IInv, TypeOK
<1>4. TypeOK'
  BY <1>1, <1>2 DEF IInv, TypeOK
<1>5. (ProbedOnce /\ ShownVerdictStands /\ ClaimOpen)'
  BY <1>1, <1>2, <1>3 DEF IInv, ProbedOnce, ShownVerdictStands, ClaimOpen
<1>6. CredentialsUntilAnswered'
  BY <1>1, <1>2, <1>3 DEF IInv, CredentialsUntilAnswered
<1>7. HoldersAgree'
  BY <1>1, <1>2, <1>3 DEF IInv, HoldersAgree
<1>. QED
  BY <1>4, <1>5, <1>6, <1>7 DEF IInv

\* The sweep deletes.
LEMMA SweepIInv == IInv /\ SweepExpiredSourceTests => IInv'
<1>. SUFFICES ASSUME IInv, SweepExpiredSourceTests
              PROVE  IInv'
  OBVIOUS
<1>1. /\ \A s \in Tests : test'[s] = test[s] \/ test'[s] = None
      /\ work' = work /\ console' = console /\ handed' = handed
  BY DEF SweepExpiredSourceTests
<1>2. TypeOK'
  BY DEF IInv, TypeOK, SweepExpiredSourceTests
<1>3. (ProbedOnce /\ ShownVerdictStands /\ CredentialsUntilAnswered /\ ClaimOpen)'
  BY <1>1 DEF IInv, ProbedOnce, ShownVerdictStands, CredentialsUntilAnswered, ClaimOpen
<1>4. HoldersAgree'
  BY <1>1 DEF IInv, HoldersAgree
<1>. QED
  BY <1>2, <1>3, <1>4 DEF IInv

\* The inductive invariant holds in every reachable state.
LEMMA InvarianceIInv == Spec => []IInv
<1>1. IInv /\ [Next]_vars => IInv'
  <2>. SUFFICES ASSUME IInv, [Next]_vars
                PROVE  IInv'
    OBVIOUS
  <2>1. CASE UNCHANGED vars
    BY <2>1 DEF vars, IInv, TypeOK, ProbedOnce, ShownVerdictStands, CredentialsUntilAnswered,
                HoldersAgree, ClaimOpen
  <2>2. CASE Next
    BY <2>2, StartIInv, GetIInv, ClaimIInv, ProbeIInv, ReportIInv, RestartIInv, ExpireIInv,
       SweepIInv DEF Next
  <2>. QED
    BY <2>1, <2>2
<1>. QED
  BY <1>1, InitIInv, PTL DEF Spec

\* A test is handed to a worker at most once, for any number of workers polling,
\* restarting and losing answers (ClaimPendingSourceTests).
THEOREM TestsProbedOnce == Spec => [](TypeOK /\ ProbedOnce)
  BY InvarianceIInv, PTL DEF IInv

\* A verdict that was shown never changes under the row, although
\* CompleteSourceTest overwrites whatever status it finds.
THEOREM VerdictsStand == Spec => []ShownVerdictStands
  BY InvarianceIInv, PTL DEF IInv

\* A row holds credentials exactly until it is answered (CompleteSourceTest).
THEOREM CredentialsDropped == Spec => []CredentialsUntilAnswered
  BY InvarianceIInv, PTL DEF IInv

-----------------------------------------------------------------------------
(* Pipeline versions *)

\* What the mirror renders of row r: its definition, an upload's resolved.
Resolved(r) ==
  IF r.type # "file_upload" THEN r
  ELSE IF r.cfg = "empty" THEN Gone
  ELSE [r EXCEPT !.type = "filesystem", !.cfg = "uploads"]
Rendered(r) == Def(Resolved(r))

\* A commit of pipeline p's file holds a definition of p's own.
OwnFile(c, h) == \A p \in Pipes : c.file.id = p => c.file.def \in h[p]
\* What a request in flight knows: h is had, n the number of commits.
SaveOk(r, h, n) ==
  \/ r = NoSave
  \/ /\ r = Job(r.pc, r.id, r.restore, r.def, r.old) /\ r.id \in Pipes
     /\ r.pc \in {"sync", "write", "read"} /\ r.restore => r.def \in h[r.id]
     /\ r.pc = "read" => r.restore
     /\ r.pc = "version" => r.restore /\ r.old = Gone /\ r.def.sha \in 1..n
     /\ r.old # Gone => Rendered(r.old) \in h[r.id]

VersionsInv ==
  /\ DOMAIN rows = Pipes /\ DOMAIN had = Pipes /\ DOMAIN dialog = Pipes /\ DOMAIN save = Savers
  /\ \E T : commits \in Seq(T)
  /\ \A i \in 1..Len(commits) : OwnFile(commits[i], had)
  /\ \A p \in Pipes : rows[p] # Gone => Rendered(rows[p]) \in had[p]
  /\ \A p \in Pipes : dialog[p] \subseteq 1..Len(commits)
  /\ \A s \in Savers : SaveOk(save[s], had, Len(commits))

\* A set of naturals that has an element has a least one.
LEMMA LeastNat ==
  ASSUME NEW S \in SUBSET Nat, S # {}
  PROVE  \E x \in S : \A y \in S : x <= y
<1> DEFINE R == OpToRel(<, Nat)
<1>1. IsWellFoundedOn(R, Nat)
  BY NatLessThanWellFounded, Zenon
<1>2. \A x, y \in Nat : <<y, x>> \in R <=> y < x
  BY DEF OpToRel
<1> HIDE DEF R
<1>3. PICK x \in S : \A y \in S : ~(<<y, x>> \in R)
  BY <1>1, WFMin, Zenon
<1>4. \A y \in S : y \in Nat /\ x \in Nat /\ ~(y < x)
  BY <1>2, <1>3, Zenon
<1>5. \A y \in Nat : x \in Nat /\ ~(y < x) => x <= y
  OBVIOUS
<1> QED
  BY <1>3, <1>4, <1>5

\* ... and, if it is bounded, a greatest one.
LEMMA GreatestNat ==
  ASSUME NEW n \in Nat, NEW S \in SUBSET (1..n), S # {}
  PROVE  Max(S) \in S
<1> DEFINE D == {n - i : i \in S}
<1>1. D \in SUBSET Nat /\ D # {}
  <2>1. \A i \in 1..n : n - i \in Nat
    OBVIOUS
  <2>2. D \subseteq Nat
    BY <2>1
  <2>3. PICK i \in S : TRUE
    BY Zenon
  <2>4. n - i \in D
    OBVIOUS
  <2> QED
    BY <2>2, <2>4
<1>2. PICK d \in D : \A e \in D : d <= e
  BY <1>1, LeastNat, Zenon
<1>3. PICK m \in S : d = n - m
  BY <1>2
<1>4. \A i \in S : m >= i
  <2> TAKE i \in S
  <2>1. n - i \in D
    OBVIOUS
  <2> QED
    BY <1>2, <1>3, <2>1
<1> QED
  BY <1>3, <1>4, Zenon DEF Max

\* A finite set as a sequence has that set's elements.
LEMMA SetInSeq ==
  ASSUME NEW S, IsFiniteSet(S)
  PROVE  InSomeOrder(S) \in Seq(S)
<1>1. Cardinality(S) \in Nat /\ ExistsBijection(1..Cardinality(S), S)
  BY FS_CardinalityType
<1>2. PICK f \in Bijection(1..Cardinality(S), S) : TRUE
  BY <1>1 DEF ExistsBijection
<1>3. f \in [1..Cardinality(S) -> S] /\ IsInjective(f)
  BY <1>2 DEF Bijection, Injection
<1>4. InSomeOrder(S) \in [1..Cardinality(S) -> S]
  BY <1>3 DEF InSomeOrder
<1> QED
  BY <1>1, <1>4

LEMMA Ids ==
  /\ 0 \notin Pipes
  /\ Unused # {} => NextId \in Unused
<1>1. 0 \notin Pipes /\ Unused \in SUBSET Nat
  BY VersionsAssumption, Zenon DEF Unused
<1>2. ASSUME Unused # {} PROVE NextId \in Unused
  BY <1>1, <1>2, LeastNat, Zenon DEF NextId
<1> QED
  BY <1>1, <1>2

LEMMA JobRead ==
  ASSUME NEW r, r = Job(r.pc, r.id, r.restore, r.def, r.old), NEW x, NEW y
  PROVE  [r EXCEPT !.pc = x, !.def = y] = Job(x, r.id, r.restore, y, r.old)
<1> DEFINE b == r.id
           c == r.restore
           d == r.def
           e == r.old
           q == Job(x, b, c, d, e)
<1>1. [r EXCEPT !.pc = x] = q
  BY DEF Job
<1> HIDE DEF b, c, d, e
<1>2. [q EXCEPT !.def = y] = Job(x, b, c, y, e)
  BY DEF Job
<1> HIDE DEF q
<1>3. [r EXCEPT !.pc = x, !.def = y] = [[r EXCEPT !.pc = x] EXCEPT !.def = y]
  OBVIOUS
<1>4. [r EXCEPT !.pc = x, !.def = y] = Job(x, b, c, y, e)
  BY <1>1, <1>2, <1>3, Zenon
<1> QED
  BY <1>4 DEF b, c, d, e

LEMMA JobOn ==
  ASSUME NEW r, r = Job(r.pc, r.id, r.restore, r.def, r.old), NEW x
  PROVE  [r EXCEPT !.pc = x] = Job(x, r.id, r.restore, r.def, r.old)
BY DEF Job

\* Only the row itself decides what is rendered of it.
LEMMA RenderedOnly ==
  ASSUME NEW R, NEW p \in Pipes
  PROVE  resolveFileUploads(R)[p] = Resolved(R[p])
BY DEF resolveFileUploads, Resolved

LEMMA GoneUnresolved == Resolved(Gone) = Gone
BY DEF Resolved, Gone

-----------------------------------------------------------------------------
\* What pipelines' files have held is never forgotten.
Grows(h, g) == \A p \in Pipes : h[p] \subseteq g[p]

LEMMA SaveStill ==
  ASSUME NEW r, NEW h, NEW g, NEW n \in Nat, NEW m \in Nat, SaveOk(r, h, n), Grows(h, g), n <= m
  PROVE  SaveOk(r, g, m)
<1>1. \A i \in 1..n : i \in 1..m
  OBVIOUS
<1> QED
  BY <1>1 DEF SaveOk, Grows

\* A step of request s that leaves the repo alone.
LEMMA VersionStep ==
  ASSUME VersionsInv, NEW s \in Savers, NEW v, Steps(s, v), UNCHANGED <<commits, dialog>>,
         DOMAIN rows' = Pipes, DOMAIN had' = Pipes, Grows(had, had'),
         SaveOk(v, had', Len(commits)),
         \A p \in Pipes : rows'[p] # Gone => rows'[p] = rows[p] \/ Rendered(rows'[p]) \in had'[p]
  PROVE  VersionsInv'
<1>1. Len(commits) \in Nat /\ commits' = commits /\ dialog' = dialog
  BY DEF VersionsInv
<1>2. DOMAIN save' = Savers /\ save'[s] = v /\ \A t \in Savers : t # s => save'[t] = save[t]
  BY DEF VersionsInv, Steps
<1>3. \A t \in Savers : SaveOk(save[t], had, Len(commits))
  BY DEF VersionsInv
<1>4. \A t \in Savers : SaveOk(save'[t], had', Len(commits))
  <2> TAKE t \in Savers
  <2>1. CASE t = s
    BY <1>2, <2>1
  <2>2. CASE t # s
    <3>1. SaveOk(save[t], had', Len(commits))
      BY <1>1, <1>3, SaveStill
    <3> QED
      BY <1>2, <2>2, <3>1
  <2> QED
    BY <2>1, <2>2
<1>5. \A p \in Pipes : rows'[p] # Gone => Rendered(rows'[p]) \in had'[p]
  BY DEF VersionsInv, Grows
<1>6. \A i \in 1..Len(commits) : OwnFile(commits[i], had')
  BY DEF VersionsInv, OwnFile, Grows
<1> QED
  BY <1>1, <1>2, <1>4, <1>5, <1>6 DEF VersionsInv

\* What a path held as of a commit the repo has: nothing, or a file of its
\* pipeline's own.
LEMMA ReadOwn ==
  ASSUME VersionsInv, NEW path, NEW n \in 1..Len(commits), NEW p \in Pipes,
         GetContentsAt(path, n).id = p
  PROVE  GetContentsAt(path, n).def \in had[p]
<1>1. Len(commits) \in Nat /\ n \in Nat
  BY DEF VersionsInv
<1>2. CASE Touching(path, n) = {}
  BY <1>2, Ids DEF GetContentsAt, NoFile
<1>3. CASE Touching(path, n) # {}
  <2>1. Touching(path, n) \in SUBSET (1..n)
    BY DEF Touching
  <2>2. Max(Touching(path, n)) \in 1..n
    BY <1>1, <1>3, <2>1, GreatestNat, Zenon
  <2>3. Max(Touching(path, n)) \in 1..Len(commits)
    BY <1>1, <2>2
  <2>4. GetContentsAt(path, n) = commits[Max(Touching(path, n))].file
    BY <1>3 DEF GetContentsAt
  <2>5. OwnFile(commits[Max(Touching(path, n))], had)
    BY <2>3 DEF VersionsInv
  <2> QED
    BY <2>4, <2>5 DEF OwnFile
<1> QED
  BY <1>2, <1>3

\* What a converge commits is finite, and every file of it its pipeline's own.
LEMMA ConvergeOwn ==
  ASSUME VersionsInv
  PROVE  \E C : Converge(rows) \in Seq(C) /\ \A c \in C : OwnFile(c, had)
<1> DEFINE resolved == resolveFileUploads(rows)
           slugs == pipelineFileSlugs(resolved)
           file(p) == [path |-> slugs[p], file |-> renderPipelineFile(p, resolved[p])]
           want == {file(p) : p \in DOMAIN slugs}
           put == {c \in want : GetContentsAt(c.path, Len(commits)) # c.file}
           paths == {commits[i].path : i \in 1..Len(commits)}
           stale == paths \ {c.path : c \in want}
           left == {y \in stale : GetContentsAt(y, Len(commits)) # NoFile}
           gone(x) == [path |-> x, file |-> NoFile]
           drop == {gone(x) : x \in left}
<1>1. Converge(rows) = InSomeOrder(put) \o InSomeOrder(drop)
  BY DEF Converge
<1>2. Len(commits) \in Nat
  BY DEF VersionsInv
<1>3. DOMAIN slugs = {q \in Pipes : resolved[q] # Gone}
  BY DEF pipelineFileSlugs
<1>4. \A p \in DOMAIN slugs : p \in Pipes /\ rows[p] # Gone /\ Rendered(rows[p]) = Def(resolved[p])
  BY <1>3, RenderedOnly, GoneUnresolved DEF Rendered
<1>5. \A p \in DOMAIN slugs : file(p).file.id = p /\ file(p).file.def = Def(resolved[p])
  BY DEF renderPipelineFile
<1>6. \A c \in put : OwnFile(c, had)
  <2> SUFFICES ASSUME NEW p \in DOMAIN slugs PROVE OwnFile(file(p), had)
    OBVIOUS
  <2>1. Rendered(rows[p]) \in had[p]
    BY <1>4 DEF VersionsInv
  <2> QED
    BY <1>4, <1>5, <2>1 DEF OwnFile
<1>7. \A c \in drop : OwnFile(c, had)
  BY Ids DEF OwnFile, NoFile
<1> HIDE DEF resolved, slugs
<1>8. IsFiniteSet(put)
  <2>1. IsFiniteSet(DOMAIN slugs)
    BY <1>3, VersionsAssumption, FS_Subset
  <2> DEFINE f == [p \in DOMAIN slugs |-> file(p)]
  <2>2. f \in Surjection(DOMAIN slugs, want)
    BY DEF Surjection
  <2>3. IsFiniteSet(want)
    BY <2>1, <2>2, FS_Surjection
  <2>4. put \subseteq want
    OBVIOUS
  <2> HIDE DEF put, want
  <2> QED
    BY <2>3, <2>4, FS_Subset
<1>9. IsFiniteSet(drop)
  <2>1. IsFiniteSet(1..Len(commits))
    BY <1>2, FS_Interval
  <2> DEFINE f == [i \in 1..Len(commits) |-> commits[i].path]
             g == [x \in left |-> gone(x)]
  <2>2. f \in Surjection(1..Len(commits), paths)
    BY DEF Surjection
  <2>3. IsFiniteSet(paths)
    BY <2>1, <2>2, FS_Surjection
  <2>4. left \subseteq paths
    OBVIOUS
  <2>5. g \in Surjection(left, drop)
    BY DEF Surjection
  <2> HIDE DEF left, paths, drop, g
  <2>6. IsFiniteSet(left)
    BY <2>3, <2>4, FS_Subset
  <2> QED
    BY <2>5, <2>6, FS_Surjection
<1> HIDE DEF put, drop
<1>10. InSomeOrder(put) \in Seq(put) /\ InSomeOrder(drop) \in Seq(drop)
  BY <1>8, <1>9, SetInSeq
<1>11. InSomeOrder(put) \in Seq(put \cup drop) /\ InSomeOrder(drop) \in Seq(put \cup drop)
  BY <1>10
<1>12. Converge(rows) \in Seq(put \cup drop)
  BY <1>1, <1>11, ConcatProperties
<1> QED
  BY <1>6, <1>7, <1>12

\* The repo grows, and its files stay their pipelines' own.
LEMMA CommitsOwn ==
  ASSUME VersionsInv, commits' = commits \o Converge(rows)
  PROVE  /\ \E T : commits' \in Seq(T)
         /\ Len(commits) \in Nat /\ Len(commits') \in Nat /\ Len(commits) <= Len(commits')
         /\ \A i \in 1..Len(commits') : OwnFile(commits'[i], had)
<1>1. PICK C : Converge(rows) \in Seq(C) /\ \A c \in C : OwnFile(c, had)
  BY ConvergeOwn
<1>2. PICK T : commits \in Seq(T)
  BY DEF VersionsInv
<1> DEFINE x == Converge(rows)
           n == Len(commits)
<1>3. commits \in Seq(T \cup C) /\ x \in Seq(T \cup C)
  BY <1>1, <1>2
<1>4. Len(commits) \in Nat /\ Len(x) \in Nat /\ \A i \in 1..Len(x) : x[i] \in C
  BY <1>1, <1>2
<1> HIDE DEF x
<1>5. /\ commits' \in Seq(T \cup C) /\ Len(commits') = n + Len(x)
      /\ \A i \in 1..(n + Len(x)) : commits'[i] = IF i <= n THEN commits[i] ELSE x[i - n]
  BY <1>3, ConcatProperties DEF x
<1>6. \A i \in 1..n : OwnFile(commits[i], had)
  BY DEF VersionsInv
<1>7. ASSUME NEW i \in 1..Len(commits') PROVE OwnFile(commits'[i], had)
  <2>1. CASE i <= n
    BY <1>4, <1>5, <1>6, <2>1
  <2>2. CASE ~(i <= n)
    <3>1. i - n \in 1..Len(x)
      BY <1>4, <1>5, <2>2
    <3>2. commits'[i] = x[i - n]
      BY <1>5, <2>2
    <3> QED
      BY <1>1, <1>4, <3>1, <3>2
  <2> QED
    BY <2>1, <2>2
<1> QED
  BY <1>4, <1>5, <1>7

-----------------------------------------------------------------------------
(* The requests *)

LEMMA NewRow ==
  ASSUME VersionsInv, NEW p \in Pipes, NEW r, rows' = [rows EXCEPT ![p] = r], Grows(had, had'),
         r # Gone => Rendered(r) \in had'[p]
  PROVE  /\ DOMAIN rows' = Pipes
         /\ \A q \in Pipes : rows'[q] # Gone => rows'[q] = rows[q] \/ Rendered(rows'[q]) \in had'[q]
BY DEF VersionsInv

\* A row under a fresh id starts its pipeline's history.
LEMMA Inserted ==
  ASSUME VersionsInv, Unused # {}, NEW r, Insert(r),
         had' = [had EXCEPT ![NextId] = {Def(resolveFileUploads(rows')[NextId])}]
  PROVE  /\ DOMAIN rows' = Pipes /\ DOMAIN had' = Pipes /\ Grows(had, had') /\ NextId \in Pipes
         /\ \A q \in Pipes : rows'[q] # Gone => rows'[q] = rows[q] \/ Rendered(rows'[q]) \in had'[q]
<1>1. NextId \in Pipes /\ had[NextId] = {}
  BY Ids DEF Unused
<1>2. rows' = [rows EXCEPT ![NextId] = r]
  BY DEF Insert
<1> DEFINE p == NextId
<1> HIDE DEF p
<1>3. rows'[p] = r
  BY <1>1, <1>2 DEF VersionsInv, p
<1>4. resolveFileUploads(rows')[p] = Resolved(rows'[p])
  BY <1>1, RenderedOnly DEF p
<1>5. had' = [had EXCEPT ![p] = {Rendered(r)}]
  BY <1>3, <1>4 DEF Rendered, p
<1>6. DOMAIN had' = Pipes /\ Grows(had, had') /\ Rendered(r) \in had'[p]
  BY <1>1, <1>5, Zenon DEF VersionsInv, Grows, p
<1>7. rows' = [rows EXCEPT ![p] = r] /\ p \in Pipes
  BY <1>1, <1>2 DEF p
<1>8. /\ DOMAIN rows' = Pipes
      /\ \A q \in Pipes : rows'[q] # Gone => rows'[q] = rows[q] \/ Rendered(rows'[q]) \in had'[q]
  BY <1>6, <1>7, NewRow, ZenonT(30)
<1> QED
  BY <1>1, <1>6, <1>8

LEMMA CreateOwn ==
  ASSUME VersionsInv, NEW s \in Savers, NEW d, CreateVersioned(s, d)
  PROVE  VersionsInv'
<1>1. /\ DOMAIN rows' = Pipes /\ DOMAIN had' = Pipes /\ Grows(had, had') /\ NextId \in Pipes
      /\ \A q \in Pipes : rows'[q] # Gone => rows'[q] = rows[q] \/ Rendered(rows'[q]) \in had'[q]
  BY Inserted, Zenon DEF CreateVersioned
<1> DEFINE v == Job("sync", NextId, FALSE, d, Gone)
<1>2. v.pc = "sync" /\ v.id = NextId /\ v.restore = FALSE /\ v.def = d /\ v.old = Gone
  BY DEF Job
<1>3. Steps(s, v) /\ UNCHANGED <<commits, dialog>>
  BY Zenon DEF CreateVersioned
<1> HIDE DEF v
<1>4. v = Job(v.pc, v.id, v.restore, v.def, v.old)
  BY <1>2, Zenon DEF v
<1>5. SaveOk(v, had', Len(commits))
  BY <1>1, <1>2, <1>4 DEF SaveOk
<1> QED
  BY <1>1, <1>3, <1>5, VersionStep

LEMMA Unmoved ==
  ASSUME VersionsInv, UNCHANGED <<rows, had>>
  PROVE  /\ DOMAIN rows' = Pipes /\ DOMAIN had' = Pipes /\ Grows(had, had')
         /\ \A q \in Pipes : rows'[q] # Gone => rows'[q] = rows[q] \/ Rendered(rows'[q]) \in had'[q]
BY DEF VersionsInv, Grows

LEMMA EditOwn ==
  ASSUME VersionsInv, NEW s \in Savers, NEW p \in Pipes, NEW d, EditVersioned(s, p, d)
  PROVE  VersionsInv'
<1> DEFINE v == Job("write", p, FALSE, d, rows[p])
<1>1. v.pc = "write" /\ v.id = p /\ v.restore = FALSE /\ v.def = d /\ v.old = rows[p]
  BY DEF Job
<1>2. Steps(s, v) /\ UNCHANGED <<commits, dialog>> /\ UNCHANGED <<rows, had>> /\ had' = had
  BY Zenon DEF EditVersioned
<1> HIDE DEF v
<1>3. v = Job(v.pc, v.id, v.restore, v.def, v.old)
  BY <1>1, ZenonT(30) DEF v
<1>4. SaveOk(v, had', Len(commits))
  BY <1>1, <1>2, <1>3, Zenon DEF SaveOk, VersionsInv
<1> QED
  BY <1>2, <1>4, Unmoved, VersionStep

LEMMA DeleteOwn ==
  ASSUME VersionsInv, NEW s \in Savers, NEW p \in Pipes, DeleteVersioned(s, p)
  PROVE  VersionsInv'
<1> DEFINE v == Job("sync", p, FALSE, Def(Gone), rows[p])
<1>1. /\ v.pc = "sync" /\ v.id = p /\ v.restore = FALSE /\ v.def = Def(Gone) /\ v.old = rows[p]
  BY DEF Job
<1>2. /\ Steps(s, v) /\ UNCHANGED <<commits, dialog>> /\ had' = had
      /\ rows' = [rows EXCEPT ![p] = Gone]
  BY Zenon DEF DeleteVersioned
<1> HIDE DEF v
<1>3. v = Job(v.pc, v.id, v.restore, v.def, v.old)
  BY <1>1, ZenonT(30) DEF v
<1>4. SaveOk(v, had', Len(commits))
  BY <1>1, <1>2, <1>3, Zenon DEF SaveOk, VersionsInv
<1>5. DOMAIN had' = Pipes /\ Grows(had, had')
  BY <1>2, Zenon DEF VersionsInv, Grows
<1>6. /\ DOMAIN rows' = Pipes
      /\ \A q \in Pipes : rows'[q] # Gone => rows'[q] = rows[q] \/ Rendered(rows'[q]) \in had'[q]
  BY <1>2, <1>5, NewRow, Zenon
<1> QED
  BY <1>2, <1>4, <1>5, <1>6, VersionStep, Zenon

LEMMA RestoreOwn ==
  ASSUME VersionsInv, NEW s \in Savers, NEW p \in Pipes, NEW sha \in dialog[p],
         RestorePipelineVersion(s, p, sha)
  PROVE  VersionsInv'
<1> DEFINE at == [sha |-> sha, type |-> rows[p].type]
           v == Job("version", p, TRUE, at, Gone)
<1>1. at.sha = sha /\ sha \in 1..Len(commits)
  BY DEF VersionsInv
<1>2. v.pc = "version" /\ v.id = p /\ v.restore = TRUE /\ v.def = at /\ v.old = Gone
  BY DEF Job
<1>3. Steps(s, v) /\ UNCHANGED <<commits, dialog>> /\ UNCHANGED <<rows, had>>
  BY Zenon DEF RestorePipelineVersion
<1> HIDE DEF v, at
<1>4. v = Job(v.pc, v.id, v.restore, v.def, v.old)
  BY <1>2, Zenon DEF v
<1>5. SaveOk(v, had', Len(commits))
  BY <1>1, <1>2, <1>4 DEF SaveOk
<1> QED
  BY <1>3, <1>5, Unmoved, VersionStep

LEMMA EndOwn ==
  ASSUME VersionsInv, NEW s \in Savers, Ends(s), UNCHANGED <<commits, dialog>>,
         DOMAIN rows' = Pipes, DOMAIN had' = Pipes, Grows(had, had'),
         \A p \in Pipes : rows'[p] # Gone => rows'[p] = rows[p] \/ Rendered(rows'[p]) \in had'[p]
  PROVE  VersionsInv'
<1>1. SaveOk(NoSave, had', Len(commits)) /\ Steps(s, NoSave)
  BY DEF SaveOk, Ends
<1> QED
  BY <1>1, VersionStep

\* A request that is not over is a job.
LEMMA Underway ==
  ASSUME VersionsInv, NEW s \in Savers, save[s].pc # "idle"
  PROVE  /\ SaveOk(save[s], had, Len(commits)) /\ save[s] # NoSave /\ save[s].id \in Pipes
         /\ save[s] = Job(save[s].pc, save[s].id, save[s].restore, save[s].def, save[s].old)
<1>1. SaveOk(save[s], had, Len(commits))
  BY DEF VersionsInv
<1>2. save[s] # NoSave
  BY DEF NoSave
<1> QED
  BY <1>1, <1>2 DEF SaveOk

LEMMA ReadVersionOwn ==
  ASSUME VersionsInv, NEW s \in Savers, readVersion(s)
  PROVE  VersionsInv'
<1> DEFINE r == save[s]
<1>1. r.pc = "version" /\ UNCHANGED <<commits, dialog>> /\ UNCHANGED <<rows, had>> /\ had' = had
  BY ZenonT(30) DEF readVersion
<1>2. /\ SaveOk(r, had, Len(commits)) /\ r # NoSave /\ r.id \in Pipes
      /\ r = Job(r.pc, r.id, r.restore, r.def, r.old)
  BY <1>1, Underway
<1>3. r.restore /\ r.old = Gone /\ r.def.sha \in 1..Len(commits)
  BY <1>1, <1>2 DEF SaveOk
<1>4. ASSUME NEW d \in VersionAt(r.id, r.def.sha), Steps(s, [r EXCEPT !.pc = "read", !.def = d])
      PROVE  VersionsInv'
  <2> DEFINE there == GetContentsAt(CurrentPath(r.id), r.def.sha)
  <2>7. there.id = r.id /\ d = there.def
    BY DEF VersionAt, pipelineFromFile
  <2>8. there.def \in had[r.id]
    BY <1>2, <1>3, <2>7, ReadOwn
  <2>1. d \in had[r.id]
    BY <2>7, <2>8
  <2> HIDE DEF there
  <2> DEFINE v == Job("read", r.id, r.restore, d, r.old)
  <2>2. [r EXCEPT !.pc = "read", !.def = d] = v
    BY <1>2, JobRead, Zenon
  <2>3. v.pc = "read" /\ v.id = r.id /\ v.restore = r.restore /\ v.def = d /\ v.old = r.old
    BY DEF Job
  <2> HIDE DEF v
  <2>4. v = Job(v.pc, v.id, v.restore, v.def, v.old)
    BY <2>3 DEF v
  <2>5. SaveOk(v, had', Len(commits))
    BY <1>1, <1>2, <1>3, <2>1, <2>3, <2>4, Zenon DEF SaveOk
  <2>6. Steps(s, v)
    BY <1>4, <2>2
  <2> QED
    BY <1>1, <2>5, <2>6, Unmoved, VersionStep
<1>5. CASE Ends(s)
  BY <1>1, <1>5, Unmoved, EndOwn
<1> QED
  BY <1>4, <1>5, ZenonT(30) DEF readVersion

LEMMA UpdateRestoredOwn ==
  ASSUME VersionsInv, NEW s \in Savers, updateRestored(s)
  PROVE  VersionsInv'
<1> DEFINE r == save[s]
<1>1. r.pc = "read" /\ UNCHANGED <<commits, dialog>> /\ UNCHANGED <<rows, had>> /\ had' = had
  BY DEF updateRestored
<1>2. /\ SaveOk(r, had, Len(commits)) /\ r # NoSave /\ r.id \in Pipes
      /\ r = Job(r.pc, r.id, r.restore, r.def, r.old)
  BY <1>1, Underway
<1>3. r.restore /\ r.def \in had[r.id]
  BY <1>1, <1>2 DEF SaveOk
<1>4. CASE rows[r.id] # Gone /\ Steps(s, [r EXCEPT !.pc = "write", !.old = rows[r.id]])
  <2>0. PICK y : y = rows[r.id]
    OBVIOUS
  <2> DEFINE v == Job("write", r.id, r.restore, r.def, y)
  <2>1. [r EXCEPT !.pc = "write", !.old = y] = v
    <3> DEFINE q == Job("write", r.id, r.restore, r.def, r.old)
    <3>1. [r EXCEPT !.pc = "write"] = q
      BY <1>2, JobOn, Zenon
    <3>2. [q EXCEPT !.old = y] = v
      BY DEF Job
    <3> HIDE DEF r, q, v
    <3>3. [r EXCEPT !.pc = "write", !.old = y] = [[r EXCEPT !.pc = "write"] EXCEPT !.old = y]
      OBVIOUS
    <3> QED
      BY <3>1, <3>2, <3>3, Zenon
  <2>2. /\ v.pc = "write" /\ v.id = r.id /\ v.restore = r.restore /\ v.def = r.def
        /\ v.old = rows[r.id]
    BY <2>0 DEF Job
  <2> HIDE DEF v
  <2>3. v = Job(v.pc, v.id, v.restore, v.def, v.old)
    BY <2>0, <2>2, ZenonT(30) DEF v
  <2>4. SaveOk(v, had', Len(commits))
    BY <1>1, <1>2, <1>3, <2>2, <2>3, Zenon DEF SaveOk, VersionsInv
  <2>5. Steps(s, v)
    BY <1>4, <2>0, <2>1
  <2> QED
    BY <1>1, <2>4, <2>5, Unmoved, VersionStep, Zenon
<1>5. CASE Ends(s)
  BY <1>1, <1>5, Unmoved, EndOwn
<1> QED
  BY <1>4, <1>5 DEF updateRestored

LEMMA WriteOwn ==
  ASSUME VersionsInv, NEW s \in Savers, writeVersioned(s)
  PROVE  VersionsInv'
<1> DEFINE r == save[s]
<1>1. r.pc = "write" /\ UNCHANGED <<commits, dialog>>
  BY DEF writeVersioned
<1>2. /\ SaveOk(r, had, Len(commits)) /\ r # NoSave /\ r.id \in Pipes
      /\ r = Job(r.pc, r.id, r.restore, r.def, r.old)
  BY <1>1, Underway
<1>3. ASSUME NEW x, rows' = [rows EXCEPT ![r.id] = x], Steps(s, [r EXCEPT !.pc = "sync"]),
             had' = [had EXCEPT ![r.id] = @ \cup {Def(resolveFileUploads(rows')[r.id])}]
      PROVE  VersionsInv'
  <2> DEFINE p == r.id
             v == Job("sync", r.id, r.restore, r.def, r.old)
  <2>1. rows'[p] = x
    BY <1>2, <1>3 DEF VersionsInv
  <2>2. resolveFileUploads(rows')[p] = Resolved(rows'[p])
    BY <1>2, RenderedOnly
  <2>3. had' = [had EXCEPT ![p] = @ \cup {Rendered(x)}]
    BY <1>3, <2>1, <2>2, ZenonT(30) DEF Rendered
  <2>4. DOMAIN had' = Pipes /\ Grows(had, had') /\ Rendered(x) \in had'[p]
    BY <1>2, <2>3 DEF VersionsInv, Grows
  <2>5. /\ DOMAIN rows' = Pipes
        /\ \A q \in Pipes : rows'[q] # Gone => rows'[q] = rows[q] \/ Rendered(rows'[q]) \in had'[q]
    BY <1>2, <1>3, <2>4, NewRow, Zenon
  <2>6. [r EXCEPT !.pc = "sync"] = v
    BY <1>2, JobOn, Zenon
  <2>7. v.pc = "sync" /\ v.id = r.id /\ v.restore = r.restore /\ v.def = r.def /\ v.old = r.old
    BY DEF Job
  <2> HIDE DEF v
  <2>8. v = Job(v.pc, v.id, v.restore, v.def, v.old)
    BY <2>7 DEF v
  <2>9. SaveOk(v, had, Len(commits))
    BY <1>1, <1>2, <2>7, <2>8, ZenonT(30) DEF SaveOk
  <2>10. SaveOk(v, had', Len(commits))
    <3>1. Len(commits) \in Nat /\ Len(commits) <= Len(commits)
      BY DEF VersionsInv
    <3> QED
      BY <2>4, <2>9, <3>1, SaveStill
  <2>11. Steps(s, v)
    BY <1>3, <2>6
  <2> QED
    BY <1>1, <2>4, <2>5, <2>10, <2>11, VersionStep
<1>4. CASE Ends(s) /\ UNCHANGED <<rows, had>>
  BY <1>1, <1>4, Unmoved, EndOwn
<1>5. \/ Ends(s) /\ UNCHANGED <<rows, had>>
      \/ /\ rows' = [rows EXCEPT ![r.id] = PipelineRow(r.def, Credentials(r))]
         /\ had' = [had EXCEPT ![r.id] = @ \cup {Def(resolveFileUploads(rows')[r.id])}]
         /\ Steps(s, [r EXCEPT !.pc = "sync"])
  BY DEF writeVersioned
<1> QED
  BY <1>3, <1>4, <1>5

LEMMA SyncOwn ==
  ASSUME VersionsInv, NEW s \in Savers, syncVersioned(s)
  PROVE  VersionsInv'
<1> DEFINE r == save[s]
<1>1. r.pc = "sync" /\ dialog' = dialog
  BY DEF syncVersioned
<1>2. /\ SaveOk(r, had, Len(commits)) /\ r # NoSave /\ r.id \in Pipes
      /\ r = Job(r.pc, r.id, r.restore, r.def, r.old)
  BY <1>1, Underway
<1>3. CASE Ends(s) /\ UNCHANGED <<rows, had>> /\ commits' = commits
  BY <1>1, <1>3, Unmoved, EndOwn
<1>4. CASE Ends(s) /\ UNCHANGED <<rows, had>> /\ commits' = commits \o Converge(rows)
  <2>1. /\ \E T : commits' \in Seq(T)
        /\ Len(commits) \in Nat /\ Len(commits') \in Nat /\ Len(commits) <= Len(commits')
        /\ \A i \in 1..Len(commits') : OwnFile(commits'[i], had)
    BY <1>4, CommitsOwn
  <2>2. rows' = rows /\ had' = had /\ Grows(had, had')
    BY <1>4 DEF Grows
  <2>3. DOMAIN save' = Savers /\ \A t \in Savers : save'[t] = save[t] \/ save'[t] = NoSave
    BY <1>4 DEF VersionsInv, Ends, Steps
  <2>4. \A t \in Savers : SaveOk(save'[t], had', Len(commits'))
    <3> TAKE t \in Savers
    <3>1. SaveOk(save[t], had, Len(commits))
      BY DEF VersionsInv
    <3>2. SaveOk(save[t], had', Len(commits'))
      BY <2>1, <2>2, <3>1, SaveStill
    <3>3. SaveOk(NoSave, had', Len(commits'))
      BY DEF SaveOk
    <3> QED
      BY <2>3, <3>2, <3>3
  <2>5. \A p \in Pipes : dialog'[p] \subseteq 1..Len(commits')
    <3>1. \A p \in Pipes : dialog[p] \subseteq 1..Len(commits)
      BY DEF VersionsInv
    <3> QED
      BY <1>1, <2>1, <3>1
  <2>6. /\ DOMAIN rows' = Pipes /\ DOMAIN had' = Pipes /\ DOMAIN dialog' = Pipes
        /\ \A p \in Pipes : rows'[p] # Gone => Rendered(rows'[p]) \in had'[p]
    BY <1>1, <2>2 DEF VersionsInv
  <2>7. \A i \in 1..Len(commits') : OwnFile(commits'[i], had')
    BY <2>1, <2>2
  <2> QED
    BY <2>1, <2>3, <2>4, <2>5, <2>6, <2>7 DEF VersionsInv
<1>5. CASE Compensate(s, r) /\ UNCHANGED commits
  <2>1. UNCHANGED <<commits, dialog>> /\ Ends(s)
    BY <1>1, <1>5 DEF Compensate
  <2>2. CASE UNCHANGED <<rows, had>>
    BY <2>1, <2>2, Unmoved, EndOwn
  <2>3. CASE /\ Unused # {} /\ Insert(r.old)
             /\ had' = [had EXCEPT ![NextId] = {Def(resolveFileUploads(rows')[NextId])}]
    <3>1. /\ DOMAIN rows' = Pipes /\ DOMAIN had' = Pipes /\ Grows(had, had')
          /\ \A q \in Pipes : rows'[q] # Gone => rows'[q] = rows[q] \/ Rendered(rows'[q]) \in had'[q]
      BY <2>3, Inserted, ZenonT(30)
    <3> QED
      BY <2>1, <3>1, EndOwn
  <2>4. CASE rows' = [rows EXCEPT ![r.id] = r.old] /\ UNCHANGED had
    <3>1. DOMAIN had' = Pipes /\ Grows(had, had')
      BY <2>4 DEF VersionsInv, Grows
    <3>2. r.old # Gone => Rendered(r.old) \in had'[r.id]
      BY <1>2, <2>4 DEF SaveOk
    <3>3. /\ DOMAIN rows' = Pipes
          /\ \A q \in Pipes : rows'[q] # Gone => rows'[q] = rows[q] \/ Rendered(rows'[q]) \in had'[q]
      BY <1>2, <2>4, <3>1, <3>2, NewRow, Zenon
    <3> QED
      BY <2>1, <3>1, <3>3, EndOwn
  <2> QED
    BY <1>5, <2>2, <2>3, <2>4, ZenonT(30) DEF Compensate
<1> QED
  BY <1>3, <1>4, <1>5 DEF syncVersioned

LEMMA ListOwn ==
  ASSUME VersionsInv, NEW p \in Pipes, ListPipelineVersions(p)
  PROVE  VersionsInv'
<1>1. /\ dialog' = [dialog EXCEPT ![p] = ListVersions(p)]
      /\ rows' = rows /\ commits' = commits /\ save' = save /\ had' = had
  BY Zenon DEF ListPipelineVersions
<1>2. ListVersions(p) \subseteq 1..Len(commits)
  <2>1. ListCommits(CurrentPath(p)) \subseteq 1..Len(commits)
    BY Zenon DEF ListCommits, Touching
  <2>2. dialog[p] \subseteq 1..Len(commits)
    BY Zenon DEF VersionsInv
  <2> QED
    BY <2>1, <2>2, Zenon DEF ListVersions
<1>3. DOMAIN dialog' = Pipes /\ \A q \in Pipes : dialog'[q] \subseteq 1..Len(commits)
  BY <1>1, <1>2 DEF VersionsInv
<1> QED
  BY <1>1, <1>3, Zenon DEF VersionsInv

\* RestorePipelineVersion never gives a pipeline another pipeline's past,
\* however saves, renames, deletions and restores interleave.
THEOREM RestoresOwn == HSpec => []RestoredOwn
<1>1. HInit => VersionsInv
  <2> SUFFICES ASSUME HInit PROVE VersionsInv
    OBVIOUS
  <2>1. /\ commits = <<>> /\ rows = [p \in Pipes |-> Gone] /\ dialog = [p \in Pipes |-> {}]
        /\ save = [s \in Savers |-> NoSave] /\ had = [p \in Pipes |-> {}]
    BY DEF HInit
  <2>2. commits \in Seq({}) /\ Len(commits) = 0
    BY <2>1
  <2>3. \A s \in Savers : SaveOk(save[s], had, Len(commits))
    BY <2>1 DEF SaveOk
  <2>4. /\ DOMAIN rows = Pipes /\ DOMAIN had = Pipes /\ DOMAIN dialog = Pipes /\ DOMAIN save = Savers
        /\ \A p \in Pipes : rows[p] = Gone /\ dialog[p] = {}
    BY <2>1
  <2>5. \A i : i \notin 1..Len(commits)
    BY <2>2
  <2>6. \A i \in 1..Len(commits) : OwnFile(commits[i], had)
    BY <2>5, Zenon
  <2>7. \A p \in Pipes : dialog[p] \subseteq 1..Len(commits)
    BY <2>4, Zenon
  <2> QED
    BY <2>2, <2>3, <2>4, <2>6, <2>7, Zenon DEF VersionsInv
<1>2. VersionsInv /\ [HNext]_hvars => VersionsInv'
  <2> SUFFICES ASSUME VersionsInv, [HNext]_hvars PROVE VersionsInv'
    OBVIOUS
  <2>1. CASE UNCHANGED hvars
    BY <2>1 DEF VersionsInv, hvars
  <2>2. ASSUME NEW p \in Pipes, ListPipelineVersions(p) PROVE VersionsInv'
    BY <2>2, ListOwn
  <2>3. ASSUME NEW s \in Savers, NEW d \in Defs,
               CreateVersioned(s, d) \/ \E p \in Pipes : EditVersioned(s, p, d)
        PROVE  VersionsInv'
    BY <2>3, CreateOwn, EditOwn
  <2>4. ASSUME NEW s \in Savers, NEW p \in Pipes,
               DeleteVersioned(s, p) \/ \E sha \in dialog[p] : RestorePipelineVersion(s, p, sha)
        PROVE  VersionsInv'
    BY <2>4, DeleteOwn, RestoreOwn
  <2>5. ASSUME NEW s \in Savers,
               readVersion(s) \/ updateRestored(s) \/ writeVersioned(s) \/ syncVersioned(s)
        PROVE  VersionsInv'
    BY <2>5, ReadVersionOwn, UpdateRestoredOwn, WriteOwn, SyncOwn
  <2> QED
    BY <2>1, <2>2, <2>3, <2>4, <2>5 DEF HNext
<1>3. VersionsInv => RestoredOwn
  <2> SUFFICES ASSUME VersionsInv, NEW s \in Savers, Restoring(s)
               PROVE  save[s].def \in had[save[s].id]
    BY DEF RestoredOwn
  <2>1. save[s].pc = "write" /\ save[s].restore
    BY DEF Restoring
  <2>2. SaveOk(save[s], had, Len(commits)) /\ save[s] # NoSave
    BY <2>1, Underway
  <2> QED
    BY <2>1, <2>2, Zenon DEF SaveOk
<1> QED
  BY <1>1, <1>2, <1>3, PTL DEF HSpec

=============================================================================
