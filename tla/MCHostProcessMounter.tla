----------------------- MODULE MCHostProcessMounter -----------------------
(* Instances of HostProcessMounter for TLC.                                *)
EXTENDS HostProcessMounter, TLC

Symmetry == Permutations(Threads) \cup Permutations(Volumes)
=============================================================================
