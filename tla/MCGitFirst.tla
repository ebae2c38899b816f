----------------------------- MODULE MCGitFirst -----------------------------
(* GitFirst for TLC. *)
EXTENDS GitFirst, TLC

CONSTANTS s1, s2, a, b, x, y, k1, k2

OneSaver == {s1}
OneName == {a}
TwoNames == {a, b}
OneCfg == {x}
TwoCfgs == {x, y}
NoSecrets == {}
OneCred == {k1}
\* Two display names with different slugs, and with the same one.
Distinct == a :> 1 @@ b :> 2
Colliding == a :> 1 @@ b :> 1
OnePipeline == <<Row(a, x, k1, FALSE)>>
Plain == <<Row(a, x, NoCreds, FALSE)>>
TwoPipelines == <<Row(a, x, k1, FALSE), Row(b, x, NoCreds, FALSE)>>

=============================================================================
