--------------------------- MODULE MCNodeStaging ---------------------------
(* Instances of NodeStaging for TLC.                                       *)
EXTENDS NodeStaging, TLC

\* Which volumes use Kerberos, and with which cruid.
NoKerberos == [v \in Volumes |-> NoUid]
OneUidEach == CHOOSE f \in [Volumes -> Uids] : \A v, w \in Volumes : f[v] = f[w] => v = w
\* All volumes with the same one, or all but one, which has none.
SharedUid == [v \in Volumes |-> CHOOSE u \in Uids : TRUE]
SharedUidButOne == [SharedUid EXCEPT ![CHOOSE v \in Volumes : TRUE] = NoUid]

GoroutineSymmetry == Permutations(Threads)
=============================================================================
