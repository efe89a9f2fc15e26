-------------------------- MODULE HostProcessProofs --------------------------
(***************************************************************************)
(* A volume staged by the host-process mounter keeps its link, and between *)
(* the calls for a volume only an SMBMount that outlived its request       *)
(* touches the staging path.  Nothing is proved about the mapping behind   *)
(* the link, which SMBMount and SMBUnmount of other volumes may remove.    *)
(***************************************************************************)
EXTENDS HostProcessMounter, TLAPS

Busy(t) == pc[t] # "idle" /\ t \notin detached

\* A detached goroutine is in SMBMount, and the other ones hold the locks of different
\* volumes, about which nothing has been answered.
Exclusion ==
    /\ \A t \in Threads : pc[t] # "idle" => vol[t] \in Volumes
    /\ \A t \in detached : pc[t] \in MountSteps \cup {"staged", "failed"}
    /\ \A t \in Threads : Busy(t) => vol[t] \in locks /\ told[vol[t]] = "nothing"
    /\ \A s, t \in Threads : Busy(s) /\ Busy(t) /\ vol[s] = vol[t] => s = t

\* A volume that is staged, or is about to be reported as staged, has its link.
Linked ==
    /\ \A t \in Threads : Busy(t) /\ pc[t] \in {"readDir", "staged"} => path[vol[t]] = "link"
    /\ \A v \in Volumes : told[v] = "staged" => path[v] = "link"

HInv == TypeOK /\ Exclusion /\ Linked

\* The steps of a call between its start and its answer.
Work(t) ==
    \/ Fails(t)
    \/ EnsureMountPoint(t) \/ AlreadyMounted(t) \/ UnmountBad(t) \/ MakeDir(t) \/ PrepareStagePath(t)
    \/ IsSmbMapped(t) \/ PathValid(t) \/ RemoveInvalid(t)
    \/ NewSmbGlobalMapping(t) \/ MappingFails(t) \/ Symlink(t)
    \/ Readlink(t) \/ CheckForDuplicateSMBMounts(t) \/ RemoveSmbGlobalMapping(t) \/ RemovePath(t)

\* What all of them have in common: only pc of the goroutine and the node change, SMBMount
\* goes on to SMBMount, and it makes links and removes none.
LEMMA WorkMoves ==
    ASSUME HInv, NEW t \in Threads, Work(t)
    PROVE  /\ UNCHANGED callVars
           /\ pc[t] # "idle"
           /\ \E step \in Labels \ {"idle"} :
                 /\ pc' = [pc EXCEPT ![t] = step]
                 /\ pc[t] \in MountSteps \cup {"staged", "failed"} =>
                        step \in MountSteps \cup {"staged", "failed"}
           /\ path' \in [Volumes -> {"none", "dir", "link"}]
           /\ \A v \in Volumes : v # vol[t] => path'[v] = path[v]
           /\ pc[t] \in MountSteps /\ path[vol[t]] = "link" => path'[vol[t]] = "link"
           /\ pc'[t] \in {"readDir", "staged"} => path'[vol[t]] = "link"
           /\ UNCHANGED azureDir
           /\ mapping' \in BOOLEAN
<1> USE HostAssumption DEF HInv, TypeOK, Exclusion, Busy, Linked, Labels, MountSteps, Returns, Goto
<1>1. CASE Fails(t) \/ EnsureMountPoint(t) \/ IsSmbMapped(t) \/ PathValid(t)
  BY <1>1 DEF Fails, EnsureMountPoint, IsSmbMapped, PathValid, nodeVars, callVars
<1>2. CASE AlreadyMounted(t) \/ Readlink(t) \/ CheckForDuplicateSMBMounts(t)
  BY <1>2 DEF AlreadyMounted, Readlink, CheckForDuplicateSMBMounts, nodeVars, callVars
<1>3. CASE UnmountBad(t) \/ PrepareStagePath(t) \/ RemovePath(t)
  BY <1>3 DEF UnmountBad, PrepareStagePath, RemovePath, Rmdir, callVars
<1>4. CASE MakeDir(t)
  BY <1>4 DEF MakeDir, callVars
<1>5. CASE RemoveInvalid(t) \/ NewSmbGlobalMapping(t)
  BY <1>5 DEF RemoveInvalid, NewSmbGlobalMapping, callVars
<1>6. CASE MappingFails(t)
  BY <1>6 DEF MappingFails, callVars
<1>7. CASE Symlink(t)
  BY <1>7 DEF Symlink, callVars
<1>8. CASE RemoveSmbGlobalMapping(t)
  BY <1>8 DEF RemoveSmbGlobalMapping, callVars
<1> QED
  BY <1>1, <1>2, <1>3, <1>4, <1>5, <1>6, <1>7, <1>8 DEF Work

\* The calls keep their locks and links over such a step.
LEMMA WorkStep ==
    ASSUME HInv, NEW t \in Threads, Work(t)
    PROVE  HInv'
<1> USE DEF HInv, TypeOK, Exclusion, Busy, MountSteps
<1>1. PICK step \in Labels \ {"idle"} :
        /\ pc' = [pc EXCEPT ![t] = step]
        /\ pc[t] \in MountSteps \cup {"staged", "failed"} =>
               step \in MountSteps \cup {"staged", "failed"}
  BY WorkMoves
<1>2. UNCHANGED <<locks, vol, detached, told, azureDir>>
  BY WorkMoves DEF callVars
<1>3. TypeOK'
  BY <1>1, <1>2, WorkMoves
<1>4. Exclusion'
  BY <1>1, <1>2, WorkMoves
<1>5. ASSUME NEW s \in Threads, Busy(s)', pc'[s] \in {"readDir", "staged"}
     PROVE  path'[vol'[s]] = "link"
  <2>1. CASE s = t
    BY <1>2, <1>5, <2>1, WorkMoves
  <2>2. CASE s # t
    <3>1. Busy(s) /\ pc[s] \in {"readDir", "staged"} /\ vol'[s] = vol[s] /\ vol[s] \in Volumes
      BY <1>1, <1>2, <1>5, <2>2
    <3>2. path[vol[s]] = "link"
      BY <3>1 DEF Linked
    <3>3. CASE vol[s] # vol[t]
      BY <3>1, <3>2, <3>3, WorkMoves
    <3>4. CASE vol[s] = vol[t]
      <4>1. t \in detached
        BY <2>2, <3>1, <3>4, WorkMoves
      <4>2. pc[t] \in MountSteps
        BY <4>1 DEF Work, Fails, EnsureMountPoint, AlreadyMounted, UnmountBad, MakeDir,
           PrepareStagePath, IsSmbMapped, PathValid, RemoveInvalid, NewSmbGlobalMapping,
           MappingFails, Symlink, Readlink, CheckForDuplicateSMBMounts,
           RemoveSmbGlobalMapping, RemovePath
      <4> QED
        BY <3>1, <3>2, <3>4, <4>2, WorkMoves
    <3> QED
      BY <3>3, <3>4
  <2> QED
    BY <2>1, <2>2
<1>6. ASSUME NEW v \in Volumes, told'[v] = "staged"
     PROVE  path'[v] = "link"
  <2>1. path[v] = "link"
    BY <1>2, <1>6 DEF Linked
  <2>2. CASE v # vol[t]
    BY <2>1, <2>2, WorkMoves
  <2>3. CASE v = vol[t] /\ pc[t] \in MountSteps
    BY <2>1, <2>3, WorkMoves
  <2>4. CASE v = vol[t] /\ pc[t] \notin MountSteps
    BY <1>2, <1>6, <2>1, <2>4, WorkMoves DEF Work, Fails, EnsureMountPoint, AlreadyMounted,
       UnmountBad, MakeDir, PrepareStagePath, IsSmbMapped, PathValid, RemoveInvalid,
       NewSmbGlobalMapping, MappingFails, Symlink, Readlink, CheckForDuplicateSMBMounts,
       RemoveSmbGlobalMapping, RemovePath
  <2> QED
    BY <2>2, <2>3, <2>4
<1> QED
  BY <1>3, <1>4, <1>5, <1>6 DEF Linked

\* The start of a call, its answer, its timeout and the end of what it left behind.
LEMMA CallStep ==
    ASSUME HInv,
           NEW t \in Threads,
           \/ \E v \in Volumes : NodeStageVolume(t, v) \/ NodeUnstageVolume(t, v)
           \/ Answer(t) \/ Timeout(t) \/ DetachedEnds(t)
    PROVE  HInv'
<1> USE HostAssumption
    DEF HInv, TypeOK, Exclusion, Busy, Linked, Labels, MountSteps, Returns, Goto, nodeVars
<1>1. TypeOK' /\ Exclusion'
  <2>1. CASE \E v \in Volumes : NodeStageVolume(t, v) \/ NodeUnstageVolume(t, v)
    BY <2>1 DEF NodeStageVolume, NodeUnstageVolume, TryAcquire
  <2>2. CASE Answer(t)
    BY <2>2 DEF Answer
  <2>3. CASE Timeout(t)
    BY <2>3 DEF Timeout
  <2>4. CASE DetachedEnds(t)
    BY <2>4 DEF DetachedEnds
  <2> QED
    BY <2>1, <2>2, <2>3, <2>4
<1>2. Linked'
  <2>1. CASE \E v \in Volumes : NodeStageVolume(t, v) \/ NodeUnstageVolume(t, v)
    BY <2>1 DEF NodeStageVolume, NodeUnstageVolume, TryAcquire
  <2>2. CASE Answer(t)
    BY <2>2 DEF Answer
  <2>3. CASE Timeout(t)
    BY <2>3 DEF Timeout
  <2>4. CASE DetachedEnds(t)
    BY <2>4 DEF DetachedEnds
  <2> QED
    BY <2>1, <2>2, <2>3, <2>4
<1> QED
  BY <1>1, <1>2

\* A restart forgets the calls and leaves the paths alone.
LEMMA RestartStep ==
    ASSUME HInv, Restart
    PROVE  HInv'
BY HostAssumption
   DEF HInv, TypeOK, Exclusion, Busy, Linked, Labels, MountSteps, Returns, Restart

\* HInv is inductive.
LEMMA HInvHolds == Spec => []HInv
<1>1. Init => HInv
  <2> SUFFICES ASSUME Init
               PROVE  HInv
    OBVIOUS
  <2>1. TypeOK
    BY DEF Init, TypeOK, Labels
  <2>2. Exclusion
    BY DEF Init, Exclusion, Busy
  <2>3. Linked
    BY DEF Init, Linked, Busy
  <2> QED
    BY <2>1, <2>2, <2>3 DEF HInv
<1>2. HInv /\ [Next]_vars => HInv'
  <2> SUFFICES ASSUME HInv, [Next]_vars
               PROVE  HInv'
    OBVIOUS
  <2>1. CASE UNCHANGED vars
    BY <2>1 DEF vars, HInv, TypeOK, Exclusion, Busy, Linked
  <2>2. CASE Restart
    BY <2>2, RestartStep
  <2>3. ASSUME NEW t \in Threads, Work(t)
       PROVE  HInv'
    BY <2>3, WorkStep
  <2> QED
    BY <2>1, <2>2, <2>3, CallStep DEF Next, Step, Work
<1> QED
  BY <1>1, <1>2, PTL DEF Spec

\* The variables keep their types.
THEOREM TypeCorrect == Spec => []TypeOK
<1>1. HInv => TypeOK
  BY DEF HInv
<1> QED
  BY <1>1, HInvHolds, PTL

\* A volume reported as staged keeps its link until the next call for it: for any number of
\* goroutines and volumes of one remote path, whatever fails, times out or restarts.
THEOREM StagedKeepsLink == Spec => []StagedIsLinked
<1>1. HInv => StagedIsLinked
  BY DEF HInv, Linked, StagedIsLinked
<1> QED
  BY <1>1, HInvHolds, PTL

\* A staging path whose lock is free is touched by a detached goroutine or not at all.
LEMMA PathStep ==
    ASSUME HInv, [Next]_vars, NEW v \in Volumes, v \notin locks, path'[v] # path[v]
    PROVE  /\ path[v] = "none" /\ path'[v] = "link"
           /\ \E t \in detached : vol[t] = v
<1> USE DEF HInv, TypeOK, Exclusion, Busy, MountSteps
<1>1. ASSUME NEW t \in Threads, UnmountBad(t) \/ MakeDir(t) \/ PrepareStagePath(t) \/ RemovePath(t)
      PROVE  vol[t] \in locks /\ \A w \in Volumes \ {vol[t]} : path'[w] = path[w]
  BY <1>1 DEF UnmountBad, MakeDir, PrepareStagePath, RemovePath, Rmdir
<1>2. ASSUME NEW t \in Threads, Symlink(t), v = vol[t]
      PROVE  path[v] = "none" /\ path'[v] = "link" /\ t \in detached
  BY <1>2 DEF Symlink
<1>3. ASSUME NEW t \in Threads, Symlink(t), v # vol[t]
      PROVE  path'[v] = path[v]
  BY <1>3 DEF Symlink
<1>4. ASSUME NEW t \in Threads,
             \/ Answer(t) \/ Timeout(t) \/ DetachedEnds(t) \/ Fails(t)
             \/ EnsureMountPoint(t) \/ AlreadyMounted(t) \/ IsSmbMapped(t) \/ PathValid(t)
             \/ RemoveInvalid(t) \/ NewSmbGlobalMapping(t) \/ MappingFails(t)
             \/ Readlink(t) \/ CheckForDuplicateSMBMounts(t) \/ RemoveSmbGlobalMapping(t)
      PROVE  UNCHANGED path
  BY <1>4 DEF Answer, Timeout, DetachedEnds, Fails, EnsureMountPoint, AlreadyMounted, IsSmbMapped,
     PathValid, RemoveInvalid, NewSmbGlobalMapping, MappingFails, Readlink,
     CheckForDuplicateSMBMounts, RemoveSmbGlobalMapping, nodeVars
<1>5. ASSUME NEW t \in Threads, NEW w \in Volumes, NodeStageVolume(t, w) \/ NodeUnstageVolume(t, w)
      PROVE  UNCHANGED path
  BY <1>5 DEF NodeStageVolume, NodeUnstageVolume, TryAcquire, nodeVars
<1>6. Restart \/ UNCHANGED vars => UNCHANGED path
  BY DEF Restart, vars
<1> HIDE DEF HInv, TypeOK, Exclusion, Busy, MountSteps
<1> QED
  BY <1>1, <1>2, <1>3, <1>4, <1>5, <1>6 DEF Next, Step

\* Between two calls for a volume only an SMBMount that outlived its request touches the
\* staging path, and all it does is to make the link where nothing was: for any number of
\* goroutines and volumes, whatever fails, times out or restarts.
THEOREM QuietBetweenCalls == Spec => BetweenCalls
<1> DEFINE Quiet == \A v \in Volumes : v \notin locks /\ path'[v] # path[v] =>
                       /\ path[v] = "none" /\ path'[v] = "link"
                       /\ \E t \in detached : vol[t] = v
<1>1. HInv /\ [Next]_vars => [Quiet]_vars
  BY PathStep
<1>2. [][Next]_vars /\ []HInv => [][Quiet]_vars
  BY <1>1, PTL
<1> QED
  BY <1>2, HInvHolds, PTL DEF Spec, BetweenCalls
=============================================================================
