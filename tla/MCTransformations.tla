------------------------- MODULE MCTransformations -------------------------
EXTENDS Transformations

\* Every transformation has the same file slug: two of them collide.
OneSlug == [n \in Names |-> "s"]
=============================================================================
