-------------------------- MODULE MCControllerServer --------------------------
(***************************************************************************)
(* Instances of ControllerServer for TLC.                                  *)
(***************************************************************************)
EXTENDS ControllerServer, TLC

CONSTANTS src, one, two

NoKerberos == [v \in Volumes |-> NoUid]

\* All volumes are clones of src.
ClonesOfSrc == [v \in Volumes |-> IF v = src THEN NoVolume ELSE src]
NoClones == [v \in Volumes |-> NoVolume]

ToBeDeleted == [v \in Volumes |-> "delete"]
ToBeArchived == [v \in Volumes |-> "archive"]
\* The clone that is deleted with secrets is retained.
OneRetained == [v \in Volumes |-> IF v = one THEN "retain" ELSE ""]
\* One volume of each kind.
OneOfEach == [v \in Volumes |-> IF v = src THEN "archive" ELSE IF v = one THEN "retain" ELSE ""]

GoroutineSymmetry == Permutations(Threads)
=============================================================================
