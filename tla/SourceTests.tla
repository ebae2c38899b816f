---------------------------- MODULE SourceTests ----------------------------
(***************************************************************************)
(* Source tests: the Console queues a probe of a source, a worker of the   *)
(* tenant claims it on a poll, probes and reports, the Console polls for   *)
(* the verdict, and a sweep deletes what has outlived its TTL              *)
(* (workspace/sourcetest.go, postgres/sourcetest.go).  Each SQL statement  *)
(* is one step.  The clock is abstracted to the one thing the statements   *)
(* read of it: whether expires_at has passed.                              *)
(***************************************************************************)
EXTENDS Naturals

CONSTANTS
  Tests,       \* the uuids StartSourceTest draws, each at most once
  Workers,     \* worker processes
  Tenants,     \* customer slugs
  Tenant,      \* the tenant a worker's token is bound to
  None

ASSUME TestsAssumption ==
  /\ Tenant \in [Workers -> Tenants]
  /\ None \notin [tenant : Tenants, status : {"pending", "running", "success", "failed"},
                  creds : BOOLEAN, expired : BOOLEAN]

VARIABLES
  test,        \* source_tests: the row of each id, or None
  work,        \* what each worker process knows of each test
  console,     \* what the Console that asked for a test shows
  handed       \* history: how often a test was handed to a worker

vars == <<test, work, console, handed>>

Verdicts == {"success", "failed"}

SourceTest == [tenant : Tenants, status : {"pending", "running"} \cup Verdicts,
               creds : BOOLEAN, expired : BOOLEAN]

TypeOK ==
  /\ test \in [Tests -> SourceTest \cup {None}]
  /\ work \in [Workers -> [Tests -> {"no", "claimed"} \cup Verdicts]]
  /\ console \in [Tests -> {"unasked", "waiting", "gone"} \cup Verdicts]
  /\ handed \in [Tests -> Nat]

Row(c, st, cr, ex) == [tenant |-> c, status |-> st, creds |-> cr, expired |-> ex]

Init ==
  /\ test = [t \in Tests |-> None]
  /\ work = [w \in Workers |-> [t \in Tests |-> "no"]]
  /\ console = [t \in Tests |-> "unasked"]
  /\ handed = [t \in Tests |-> 0]

-----------------------------------------------------------------------------
(* The Console.                                                            *)

\* The row is inserted pending with its credentials; the answer may be lost,
\* and then nobody polls for the test.
StartSourceTest(t, c) ==
  /\ console[t] = "unasked"
  /\ test' = [test EXCEPT ![t] = Row(c, "pending", TRUE, FALSE)]
  /\ \E shown \in {"waiting", "gone"} : console' = [console EXCEPT ![t] = shown]
  /\ UNCHANGED <<work, handed>>

\* WHERE expires_at > now(): an expired row is not found, like a deleted one.
Found(t) == test[t] # None /\ ~test[t].expired

\* Mutant: a test that is not found is polled for again.
PollFoundOnly(t) ==
  /\ console[t] = "waiting"
  /\ Found(t) /\ test[t].status \in Verdicts
  /\ console' = [console EXCEPT ![t] = test[t].status]
  /\ UNCHANGED <<test, work, handed>>

\* One poll that ends the wait: a verdict, or a test that is not found.
GetSourceTest(t) ==
  /\ console[t] = "waiting"
  /\ \/ /\ ~Found(t)
        /\ console' = [console EXCEPT ![t] = "gone"]
     \/ /\ Found(t) /\ test[t].status \in Verdicts
        /\ console' = [console EXCEPT ![t] = test[t].status]
  /\ UNCHANGED <<test, work, handed>>

-----------------------------------------------------------------------------
(* The workers.                                                            *)

\* Mutant: the claim forgets to ask for pending rows.
ClaimableAnyStatus(w) ==
  {t \in Tests : Found(t) /\ test[t].tenant = Tenant[w]}

Claimable(w) ==
  {t \in Tests : Found(t) /\ test[t].tenant = Tenant[w] /\ test[t].status = "pending"}

\* One UPDATE ... RETURNING flips every claimable row.  The rows may then fail
\* to decrypt or to scan, or the answer may be lost: nothing is handed over,
\* and the rows stay running.
ClaimPendingSourceTests(w) ==
  LET claim == Claimable(w) IN
  /\ claim # {}
  /\ test' = [t \in Tests |->
                IF t \in claim
                THEN Row(test[t].tenant, "running", test[t].creds, test[t].expired)
                ELSE test[t]]
  /\ \/ /\ work' = [work EXCEPT ![w] = [t \in Tests |-> IF t \in claim THEN "claimed" ELSE @[t]]]
        /\ handed' = [t \in Tests |-> IF t \in claim THEN handed[t] + 1 ELSE handed[t]]
     \/ UNCHANGED <<work, handed>>
  /\ UNCHANGED console

Probe(w, t) ==
  /\ work[w][t] = "claimed"
  /\ \E v \in Verdicts : work' = [work EXCEPT ![w] = [@ EXCEPT ![t] = v]]
  /\ UNCHANGED <<test, console, handed>>

Completed(t, v) == Row(test[t].tenant, v, FALSE, test[t].expired)

\* CompleteSourceTest matches on the id and the tenant alone: it takes a late
\* report of an expired row and a second report of an answered one.  A worker
\* that loses the answer keeps the verdict and reports again.
ReportSourceTest(w, t) ==
  /\ work[w][t] \in Verdicts
  /\ test' = IF test[t] # None /\ test[t].tenant = Tenant[w]
             THEN [test EXCEPT ![t] = Completed(t, work[w][t])]
             ELSE test
  /\ \/ work' = [work EXCEPT ![w] = [@ EXCEPT ![t] = "no"]]
     \/ UNCHANGED work
  /\ UNCHANGED <<console, handed>>

\* A worker dies and comes back knowing nothing.
Restart(w) ==
  /\ work' = [work EXCEPT ![w] = [t \in Tests |-> "no"]]
  /\ UNCHANGED <<test, console, handed>>

-----------------------------------------------------------------------------
(* Time and the sweep.                                                     *)

Expire(t) ==
  /\ Found(t)
  /\ test' = [test EXCEPT ![t] = Row(test[t].tenant, test[t].status, test[t].creds, TRUE)]
  /\ UNCHANGED <<work, console, handed>>

Expired == {t \in Tests : test[t] # None /\ test[t].expired}

SweepExpiredSourceTests ==
  /\ Expired # {}
  /\ test' = [t \in Tests |-> IF t \in Expired THEN None ELSE test[t]]
  /\ UNCHANGED <<work, console, handed>>

-----------------------------------------------------------------------------
Next ==
  \/ \E t \in Tests, c \in Tenants : StartSourceTest(t, c)
  \/ \E t \in Tests : GetSourceTest(t) \/ Expire(t)
  \/ \E w \in Workers : ClaimPendingSourceTests(w) \/ Restart(w)
  \/ \E w \in Workers, t \in Tests : Probe(w, t) \/ ReportSourceTest(w, t)
  \/ SweepExpiredSourceTests

Spec == Init /\ [][Next]_vars

\* Time passes, the sweep loop keeps its ticker and a waiting Console keeps
\* polling.  Nothing is asked of the workers: they may be down for ever.
Fairness ==
  /\ WF_vars(SweepExpiredSourceTests)
  /\ \A t \in Tests : WF_vars(Expire(t)) /\ WF_vars(GetSourceTest(t))

FairSpec == Spec /\ Fairness

-----------------------------------------------------------------------------
(* Properties.                                                             *)

\* No test is ever handed to a worker twice, whatever polls overlap, workers
\* restart or claims are lost (ClaimPendingSourceTests claims in the statement
\* that reads: "with a database password, twice is how an account gets locked
\* out").
ProbedOnce == \A t \in Tests : handed[t] <= 1

\* A verdict the Console has shown is the one the row holds for as long as the
\* row exists: duplicated and late reports of CompleteSourceTest, which does not
\* look at the status it overwrites, never change it.
ShownVerdictStands ==
  \A t \in Tests : console[t] \in Verdicts /\ test[t] # None => test[t].status = console[t]

\* A row holds credentials exactly while a probe may still need them: an
\* answered test, the only kind whose outcome the Console reads, never holds
\* any again, and no claim finds a test whose credentials are gone.
CredentialsUntilAnswered ==
  \A t \in Tests : test[t] # None => (test[t].creds <=> test[t].status \notin Verdicts)

\* A Console that waits for a test stops waiting: it shows a verdict or that
\* the test never came back, "rather than a spinner with no end".
WaitEnds == \A t \in Tests : console[t] = "waiting" ~> console[t] # "waiting"

=============================================================================
