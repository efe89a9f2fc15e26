------------------------- MODULE MCCsiProxyMounter -------------------------
(* Instances of CsiProxyMounter for TLC.                                   *)
EXTENDS CsiProxyMounter, TLC

Symmetry == Permutations(Threads) \cup Permutations(Volumes)
=============================================================================
