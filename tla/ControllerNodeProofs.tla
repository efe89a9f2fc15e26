------------------------ MODULE ControllerNodeProofs ------------------------
(***************************************************************************)
(* The internal mounts of ControllerServer are those of a NodeStaging of   *)
(* their own: what is proved about NodeStaging holds for them.             *)
(***************************************************************************)
EXTENDS ControllerProofs

\* A request that does its work on the share leaves the internal mounts alone (WorksOnShare),
\* and everything else that happens to them is a step of NodeStaging.
LEMMA NodeStep ==
    ASSUME Control, Paths, [Next]_vars
    PROVE  [Node!Next]_(Node!vars)
<1>1. UNCHANGED nodeVars => [Node!Next]_(Node!vars)
  BY DEF nodeVars, Node!vars
<1>2. ASSUME NEW t \in Threads, Node!Step(t) \/ Node!MountDone(t) PROVE Node!Next
  BY <1>2 DEF Node!Next
<1>3. ASSUME NEW t \in Threads, Work(t) PROVE [Node!Next]_(Node!vars)
  <2>1. CASE InternalCall(t)
    <3>1. Target(t) \in Volumes
      BY <2>1, TargetIsVolume DEF InternalCall, StageCalls, UnstageCalls
    <3> QED
      BY <2>1, <3>1 DEF InternalCall, Node!Next
  <2>2. CASE InternalStep(t)
    BY <1>2, <2>2 DEF InternalStep
  <2>3. CASE InternalReturn(t)
    BY <1>2, <2>3 DEF InternalReturn, Node!Step
  <2>4. CASE InternalAborted(t)
    BY <1>1, <2>4 DEF InternalAborted
  <2>5. CASE ShareWork(t)
    BY <1>1, <2>5, PathsShareWork
  <2>6. CASE Answer(t)
    BY <1>1, <2>6 DEF Answer
  <2> QED
    BY <1>3, <2>1, <2>2, <2>3, <2>4, <2>5, <2>6 DEF Work, ShareWork
<1>4. ASSUME NEW t \in Threads, NEW v \in Volumes, CreateVolume(t, v) \/ DeleteVolume(t, v)
      PROVE  [Node!Next]_(Node!vars)
  BY <1>1, <1>4 DEF CreateVolume, DeleteVolume, Begin
<1>5. ASSUME NEW v \in Volumes, Node!LateMount(v) PROVE Node!Next
  BY <1>5 DEF Node!Next
<1>6. ASSUME NEW v \in Volumes, Learn(v) \/ PodWrites(v) \/ CacheExpire(v)
      PROVE  [Node!Next]_(Node!vars)
  BY <1>1, <1>6 DEF Learn, PodWrites, CacheExpire
<1>7. CASE Restart
  BY <1>7 DEF Restart, Node!Next
<1>8. CASE UNCHANGED vars
  BY <1>1, <1>8 DEF vars
<1> QED
  BY <1>3, <1>4, <1>5, <1>6, <1>7, <1>8 DEF Next

\* Whatever the requests of the controller do, what happens to its internal mounts is what
\* NodeStageVolume and NodeUnstageVolume do.
THEOREM MountsLikeNode == Spec => MountsAsNode
<1>1. Init => Node!Init
  BY DEF Init
<1>2. (Control /\ Paths) /\ [Next]_vars => [Node!Next]_(Node!vars)
  BY NodeStep
<1> QED
  BY <1>1, <1>2, ControlPaths, PTL DEF Spec, MountsAsNode, Node!Spec

-----------------------------------------------------------------------------
(* The theorems about NodeStaging.                                         *)

Proved == INSTANCE KerberosProofs

\* Node and Proved are instances of the same definitions.
LEMMA SameCalls ==
    ASSUME NEW t, NEW v
    PROVE  /\ Node!NodeStageVolume(t, v) <=> Proved!NodeStageVolume(t, v)
           /\ Node!NodeUnstageVolume(t, v) <=> Proved!NodeUnstageVolume(t, v)
           /\ Node!LateMount(v) <=> Proved!LateMount(v)
           /\ Node!ShareChanges(v) <=> Proved!ShareChanges(v)
           /\ Node!Restart <=> Proved!Restart
           /\ Node!MountDone(t) <=> Proved!MountDone(t)
BY DEF Node!NodeStageVolume, Proved!NodeStageVolume, Node!NodeUnstageVolume,
   Proved!NodeUnstageVolume, Node!LateMount, Proved!LateMount, Node!ShareChanges,
   Proved!ShareChanges, Node!Restart, Proved!Restart, Node!MountDone, Proved!MountDone,
   Node!TryAcquire, Proved!TryAcquire, Node!Mount, Proved!Mount, Node!Goto, Proved!Goto,
   Node!pathVars, Proved!pathVars, Node!krbVars, Proved!krbVars, Node!callVars, Proved!callVars

LEMMA SameSteps ==
    ASSUME NEW t
    PROVE  Node!Step(t) <=> Proved!Step(t)
<1>1. /\ Node!Return(t) <=> Proved!Return(t)
      /\ Node!Fails(t) <=> Proved!Fails(t)
      /\ Node!KrbSkip(t) <=> Proved!KrbSkip(t)
      /\ Node!KrbWrite(t) <=> Proved!KrbWrite(t)
      /\ Node!KrbStat(t) <=> Proved!KrbStat(t)
      /\ Node!KrbRemove(t) <=> Proved!KrbRemove(t)
      /\ Node!KrbSymlink(t) <=> Proved!KrbSymlink(t)
  BY DEF Node!Return, Proved!Return, Node!Fails, Proved!Fails, Node!KrbSkip, Proved!KrbSkip,
     Node!KrbWrite, Proved!KrbWrite, Node!KrbStat, Proved!KrbStat, Node!KrbRemove,
     Proved!KrbRemove, Node!KrbSymlink, Proved!KrbSymlink, Node!Returns, Proved!Returns,
     Node!Fallible, Proved!Fallible, Node!Goto, Proved!Goto, Node!pathVars, Proved!pathVars,
     Node!krbVars, Proved!krbVars, Node!callVars, Proved!callVars
<1>2. /\ Node!Mkdir(t) <=> Proved!Mkdir(t)
      /\ Node!AlreadyMounted(t) <=> Proved!AlreadyMounted(t)
      /\ Node!NotMounted(t) <=> Proved!NotMounted(t)
      /\ Node!ReadDir(t) <=> Proved!ReadDir(t)
      /\ Node!UnmountBad(t) <=> Proved!UnmountBad(t)
      /\ Node!MountTimeout(t) <=> Proved!MountTimeout(t)
  BY DEF Node!Mkdir, Proved!Mkdir, Node!AlreadyMounted, Proved!AlreadyMounted, Node!NotMounted,
     Proved!NotMounted, Node!ReadDir, Proved!ReadDir, Node!UnmountBad, Proved!UnmountBad,
     Node!MountTimeout, Proved!MountTimeout, Node!MkdirAll, Proved!MkdirAll, Node!StatWorks,
     Proved!StatWorks, Node!IsCorruptedMnt, Proved!IsCorruptedMnt, Node!Unmount, Proved!Unmount,
     Node!Goto, Proved!Goto, Node!pathVars, Proved!pathVars, Node!krbVars, Proved!krbVars,
     Node!callVars, Proved!callVars
<1>3. /\ Node!PathGone(t) <=> Proved!PathGone(t)
      /\ Node!PathExists(t) <=> Proved!PathExists(t)
      /\ Node!UnmountPath(t) <=> Proved!UnmountPath(t)
      /\ Node!NotMnt(t) <=> Proved!NotMnt(t)
      /\ Node!RemovePath(t) <=> Proved!RemovePath(t)
  BY DEF Node!PathGone, Proved!PathGone, Node!PathExists, Proved!PathExists, Node!UnmountPath,
     Proved!UnmountPath, Node!NotMnt, Proved!NotMnt, Node!RemovePath, Proved!RemovePath,
     Node!StatWorks, Proved!StatWorks, Node!IsCorruptedMnt, Proved!IsCorruptedMnt, Node!Unmount,
     Proved!Unmount, Node!Rmdir, Proved!Rmdir, Node!Goto, Proved!Goto, Node!pathVars,
     Proved!pathVars, Node!krbVars, Proved!krbVars, Node!callVars, Proved!callVars
<1>4. /\ Node!KrbNothing(t) <=> Proved!KrbNothing(t)
      /\ Node!KrbScan(t) <=> Proved!KrbScan(t)
      /\ Node!KrbUnlink(t) <=> Proved!KrbUnlink(t)
      /\ Node!KrbRmFile(t) <=> Proved!KrbRmFile(t)
  BY DEF Node!KrbNothing, Proved!KrbNothing, Node!KrbScan, Proved!KrbScan, Node!KrbUnlink,
     Proved!KrbUnlink, Node!KrbRmFile, Proved!KrbRmFile, Node!Goto, Proved!Goto, Node!pathVars,
     Proved!pathVars, Node!krbVars, Proved!krbVars, Node!callVars, Proved!callVars
<1> QED
  BY <1>1, <1>2, <1>3, <1>4, Zenon DEF Node!Step, Proved!Step

LEMMA SameSpec == Node!Spec => Proved!Spec
<1>1. Node!Init => Proved!Init
  BY DEF Node!Init, Proved!Init
<1>2. [Node!Next]_(Node!vars) => [Proved!Next]_(Proved!vars)
  <2>1. Node!Next => Proved!Next
    BY SameCalls, SameSteps, Zenon DEF Node!Next, Proved!Next
  <2>2. UNCHANGED Node!vars => UNCHANGED Proved!vars
    BY DEF Node!vars, Proved!vars
  <2> QED
    BY <2>1, <2>2
<1> QED
  BY <1>1, <1>2, PTL DEF Node!Spec, Proved!Spec

LEMMA NodeConstants ==
    /\ NoVolume \notin Volumes
    /\ NoUid \notin Uids
    /\ KrbUid \in [Volumes -> Uids \cup {NoUid}]
    /\ Healths \subseteq Proved!Health
    /\ "ok" \in Healths
    /\ SafeNotMounted \in BOOLEAN
    /\ KrbFaults \in BOOLEAN
    /\ CanRestart \in BOOLEAN
    /\ MaxStack \in Nat
    /\ MaxLate \in Nat
BY ControllerAssumption, NodeAssumption DEF Node!Health, Proved!Health

\* The internal calls keep StagingContract: one internal mount or unmount of a volume at a time,
\* and what such a call has reported stays so until the next one for the volume.
THEOREM InternalCallsKeepContract == Spec => Node!KeepsContract
<1>1. Proved!Spec => Proved!KeepsContract
  BY NodeConstants, Proved!ImplementsContract
<1>2. Proved!KeepsContract => Node!KeepsContract
  <2>1. Proved!Contract!Init => Node!Contract!Init
    BY DEF Node!Contract!Init, Proved!Contract!Init, Node!CallFor, Proved!CallFor,
       Node!InStage, Proved!InStage, Node!InUnstage, Proved!InUnstage,
       Node!StageSteps, Proved!StageSteps, Node!UnstageSteps, Proved!UnstageSteps
  <2>2. [Proved!Contract!Next]_(Proved!Contract!vars) => [Node!Contract!Next]_(Node!Contract!vars)
    BY DEF Node!Contract!Next, Proved!Contract!Next, Node!Contract!vars, Proved!Contract!vars,
       Node!Contract!Begin, Proved!Contract!Begin, Node!Contract!Work, Proved!Contract!Work,
       Node!Contract!Fail, Proved!Contract!Fail, Node!Contract!Succeed, Proved!Contract!Succeed,
       Node!Contract!Restart, Proved!Contract!Restart, Node!Contract!PathChanges,
       Proved!Contract!PathChanges, Node!CallFor, Proved!CallFor, Node!InStage,
       Proved!InStage, Node!InUnstage, Proved!InUnstage, Node!StageSteps, Proved!StageSteps,
       Node!UnstageSteps, Proved!UnstageSteps
  <2> QED
    BY <2>1, <2>2, PTL DEF Proved!KeepsContract, Node!KeepsContract, Proved!Contract!Spec, Node!Contract!Spec
<1> QED
  BY <1>1, <1>2, SameSpec, MountsLikeNode, PTL DEF MountsAsNode

-----------------------------------------------------------------------------
(* Type correctness: ControlTypes and NodeStaging cover most of it.        *)

ProcessTypes ==
    /\ opLocks \subseteq {"create", "delete"} \X Volumes
    /\ deleted \subseteq Volumes
    /\ result \in [Threads -> {"ok", "failed"}]

LEMMA ProcessTypesNext ==
    ASSUME Control, Paths, ProcessTypes, [Next]_vars
    PROVE  ProcessTypes'
<1> USE DEF ProcessTypes
<1>1. ASSUME NEW t \in Threads, Work(t) PROVE ProcessTypes'
  <2>1. CASE InternalCall(t) \/ InternalStep(t)
    BY <2>1 DEF InternalCall, InternalStep, ctrlVars
  <2>2. CASE InternalReturn(t) \/ InternalAborted(t)
    <3>1. PICK ok \in BOOLEAN : CallEnds(t, ok)
      BY <2>2, PathsCallEnds
    <3> QED
      BY <3>1 DEF CallEnds, Fail
  <2>3. CASE ShareWork(t)
    <3>1. UNCHANGED opLocks /\ cpc[t] # "idle"
      BY <2>3, ShareWorkMoves DEF Moves
    <3>2. deleted' \subseteq Volumes
      BY <2>3, <3>1, ShareWorkFrame, TargetIsVolume DEF Record
    <3>3. result' \in [Threads -> {"ok", "failed"}]
      BY <2>3, ShareWorkFrame DEF Fail
    <3> QED
      BY <3>1, <3>2, <3>3
  <2>4. CASE Answer(t)
    BY <2>4 DEF Answer
  <2> QED
    BY <1>1, <2>1, <2>2, <2>3, <2>4 DEF Work, ShareWork
<1>2. ASSUME NEW t \in Threads, NEW v \in Volumes, CreateVolume(t, v) \/ DeleteVolume(t, v)
      PROVE  ProcessTypes'
  BY <1>2 DEF CreateVolume, DeleteVolume, Begin
<1>3. ASSUME UNCHANGED ctrlVars PROVE ProcessTypes'
  BY <1>3 DEF ctrlVars
<1>4. ASSUME NEW v \in Volumes, Learn(v) \/ PodWrites(v) \/ CacheExpire(v) PROVE ProcessTypes'
  BY <1>4 DEF Learn, PodWrites, CacheExpire
<1>5. CASE Restart
  BY <1>5 DEF Restart
<1> QED
  BY <1>1, <1>2, <1>3, <1>4, <1>5 DEF Next, vars

\* Type correctness of CreateVolume, DeleteVolume and their internal calls.
THEOREM TypeCorrect == Spec => []TypeOK
<1>1. Init => ProcessTypes
  BY DEF Init, ProcessTypes
<1>2. ProcessTypes /\ (Control /\ Paths) /\ [Next]_vars => ProcessTypes'
  BY ProcessTypesNext
<1>3. Spec => []ProcessTypes
  BY <1>1, <1>2, ControlPaths, PTL DEF Spec
<1>4. Proved!Spec => []Proved!TypeOK
  BY NodeConstants, Proved!TypeCorrect
<1>5. Proved!TypeOK => Node!TypeOK
  BY DEF Proved!TypeOK, Node!TypeOK, Proved!Health, Node!Health, Proved!StageSteps, Node!StageSteps,
     Proved!UnstageSteps, Node!UnstageSteps, Proved!Returns, Node!Returns
<1>6. Control /\ ProcessTypes /\ Node!TypeOK => TypeOK
  BY DEF Control, ControlTypes, CallSteps, ProcessTypes, TypeOK
<1> QED
  BY <1>3, <1>4, <1>5, <1>6, SameSpec, MountsLikeNode, ControlPaths, PTL DEF MountsAsNode
=============================================================================
