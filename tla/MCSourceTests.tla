--------------------------- MODULE MCSourceTests ---------------------------
(***************************************************************************)
(* Source tests and pipeline versions, which share no state: which of them *)
(* runs is chosen at the start, and the other stays in its initial state.  *)
(***************************************************************************)
EXTENDS SourceTests, Versions, TLC

CONSTANTS t1, t2, w1, w2, w3, c1, c2

\* Two workers of one tenant (an overlap of an old and a new pod) and one of
\* another.
TwoTests == {t1, t2}
ThreeWorkers == {w1, w2, w3}
TwoTenants == {c1, c2}
PodOverlap == (w1 :> c1) @@ (w2 :> c1) @@ (w3 :> c2)

\* Names that give one file slug, and an upload next to what it is rendered as.
MCDefs ==
  {[name |-> "orders", type |-> "filesystem", cfg |-> "a"],
   [name |-> "Orders", type |-> "filesystem", cfg |-> "b"],
   [name |-> "trips", type |-> "file_upload", cfg |-> "full"]}

VARIABLE focus

MCInit == focus \in {"tests", "versions"} /\ Init /\ HInit /\ (focus = "tests" => wired)
MCNext ==
  /\ UNCHANGED focus
  /\ \/ focus = "tests" /\ Next /\ UNCHANGED hvars
     \/ focus = "versions" /\ HNext /\ UNCHANGED vars
MCSpec == MCInit /\ [][MCNext]_<<focus, vars, hvars>> /\ (focus = "tests" => Fairness)

=============================================================================
