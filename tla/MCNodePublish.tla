--------------------------- MODULE MCNodePublish ---------------------------
EXTENDS NodePublish, TLC

CONSTANTS t1, t2, v1, a, b, inline

\* Two pods share a volume, a third has an inline volume.
TwoPods == [p \in {a, b} |-> v1]

Symmetry == Permutations(Threads) \cup Permutations({a, b})
=============================================================================
