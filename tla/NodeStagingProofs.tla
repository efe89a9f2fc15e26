------------------------- MODULE NodeStagingProofs -------------------------
(***************************************************************************)
(* Proofs about NodeStaging, for every number of goroutines and volumes.   *)
(***************************************************************************)
EXTENDS NodeStaging, TLAPS

Labels == {"idle"} \cup StageSteps \cup UnstageSteps \cup Returns

InCall(t) == pc[t] # "idle"

\* A goroutine moves on inside its call.
Moves(t) ==
    /\ t \in Threads
    /\ pc[t] # "idle"
    /\ \E step \in Labels \ {"idle"} : pc' = [pc EXCEPT ![t] = step]
    /\ UNCHANGED <<locks, vol, told>>

-----------------------------------------------------------------------------
(* Type correctness.                                                       *)

LEMMA MountType ==
    ASSUME NEW v \in Volumes, TypeOK, Mount(v)
    PROVE  /\ dir' \in [Volumes -> {"none", "empty", "full"}]
           /\ mnt' \in [Volumes -> Nat]
           /\ health' \in [Volumes -> Health]
BY DEF TypeOK, Mount, Health

LEMMA UnmountType ==
    ASSUME NEW v \in Volumes, TypeOK, Unmount(v)
    PROVE  /\ dir' \in [Volumes -> {"none", "empty", "full"}]
           /\ mnt' \in [Volumes -> Nat]
           /\ health' \in [Volumes -> Health]
<1>1. CASE mnt[v] > 0 /\ mnt' = [mnt EXCEPT ![v] = @ - 1]
  <2>1. mnt' \in [Volumes -> Nat]
    BY <1>1 DEF TypeOK
  <2>2. health' \in [Volumes -> Health] /\ dir' = dir
    BY <1>1, ConstantsAssumption DEF TypeOK, Unmount, Health, pathVars
  <2> QED
    BY <2>1, <2>2 DEF TypeOK
<1>2. CASE UNCHANGED pathVars
  BY <1>2 DEF TypeOK, pathVars
<1> QED
  BY <1>1, <1>2 DEF Unmount

\* The volume of a goroutine in a call is a volume.
VolOK == \A t \in Threads : vol[t] = NoVolume <=> pc[t] = "idle"

LEMMA StepMoves ==
    ASSUME TypeOK, NEW t \in Threads, Step(t) \/ MountDone(t), ~Return(t)
    PROVE  Moves(t)
<1> USE DEF Moves, Goto, Labels, StageSteps, UnstageSteps, Returns, callVars
<1>1. CASE Fails(t)
  BY <1>1 DEF Fails, Fallible
<1>2. CASE KrbSkip(t) \/ KrbWrite(t) \/ KrbStat(t) \/ KrbRemove(t) \/ KrbSymlink(t)
  BY <1>2 DEF KrbSkip, KrbWrite, KrbStat, KrbRemove, KrbSymlink
<1>3. CASE Mkdir(t) \/ AlreadyMounted(t) \/ NotMounted(t) \/ ReadDir(t)
  BY <1>3 DEF Mkdir, AlreadyMounted, NotMounted, ReadDir
<1>4. CASE UnmountBad(t) \/ MountDone(t) \/ MountTimeout(t)
  BY <1>4 DEF UnmountBad, MountDone, MountTimeout
<1>5. CASE PathGone(t) \/ PathExists(t) \/ UnmountPath(t) \/ NotMnt(t) \/ RemovePath(t)
  BY <1>5 DEF PathGone, PathExists, UnmountPath, NotMnt, RemovePath
<1>6. CASE KrbNothing(t) \/ KrbScan(t) \/ KrbUnlink(t) \/ KrbRmFile(t)
  BY <1>6 DEF KrbNothing, KrbScan, KrbUnlink, KrbRmFile
<1> QED
  BY <1>1, <1>2, <1>3, <1>4, <1>5, <1>6 DEF Step

\* Type correctness rests on what vol holds: NoVolume exactly outside a call.
TypeInv == TypeOK /\ VolOK

LEMMA CallTypes ==
    ASSUME TypeInv, NEW t \in Threads, pc[t] # "idle"
    PROVE  vol[t] \in Volumes
BY DEF TypeInv, TypeOK, VolOK

\* The variables that only the driver's bookkeeping changes keep their types.
LEMMA MovesTypes ==
    ASSUME TypeInv, NEW t \in Threads, Moves(t)
    PROVE  /\ locks' \subseteq Volumes
           /\ pc' \in [Threads -> Labels]
           /\ vol' \in [Threads -> Volumes \cup {NoVolume}]
           /\ told' \in [Volumes -> {"nothing", "staged", "unstaged"}]
           /\ VolOK'
BY DEF TypeInv, TypeOK, VolOK, Moves, Labels

LEMMA TypeInit == Init => TypeInv
BY DEF Init, TypeInv, TypeOK, VolOK, Health

LEMMA StepTypes ==
    ASSUME TypeInv, NEW t \in Threads, Step(t) \/ MountDone(t), ~Return(t)
    PROVE  TypeInv'
<1>1. Moves(t)
  BY StepMoves DEF TypeInv
<1>2. vol[t] \in Volumes
  BY <1>1, CallTypes DEF Moves
<1>3. /\ dir' \in [Volumes -> {"none", "empty", "full"}]
      /\ mnt' \in [Volumes -> Nat]
      /\ health' \in [Volumes -> Health]
  <2>1. CASE UNCHANGED pathVars
    BY <2>1 DEF TypeInv, TypeOK, pathVars
  <2>2. CASE Mount(vol[t])
    BY <1>2, <2>2, MountType DEF TypeInv
  <2>3. CASE Unmount(vol[t])
    BY <1>2, <2>3, UnmountType DEF TypeInv
  <2>4. CASE (MkdirAll(vol[t]) \/ Rmdir(vol[t])) /\ UNCHANGED <<mnt, health>>
    BY <1>2, <2>4 DEF TypeInv, TypeOK, MkdirAll, Rmdir
  <2> QED
    BY <2>1, <2>2, <2>3, <2>4
    DEF Step, Fails, KrbSkip, KrbWrite, KrbStat, KrbRemove, KrbSymlink, Mkdir, AlreadyMounted,
        NotMounted, ReadDir, UnmountBad, MountDone, MountTimeout, PathGone, PathExists,
        UnmountPath, NotMnt, RemovePath, KrbNothing, KrbScan, KrbUnlink, KrbRmFile, pathVars, Rmdir
<1>4. cache' \subseteq Volumes
  BY <1>2
  DEF TypeInv, TypeOK, Step, Fails, KrbSkip, KrbWrite, KrbStat, KrbRemove, KrbSymlink, Mkdir,
      AlreadyMounted, NotMounted, ReadDir, UnmountBad, MountDone, MountTimeout, PathGone,
      PathExists, UnmountPath, NotMnt, RemovePath, KrbNothing, KrbScan, KrbUnlink, KrbRmFile, krbVars
<1>5. link' \in [Uids -> Volumes \cup {NoVolume}]
  <2>1. CASE KrbRemove(t) \/ KrbSymlink(t)
    BY <1>2, <2>1 DEF TypeInv, TypeOK, KrbRemove, KrbSymlink
  <2>2. CASE KrbUnlink(t)
    BY <1>2, <2>2 DEF TypeInv, TypeOK, KrbUnlink
  <2>3. CASE UNCHANGED link
    BY <2>3 DEF TypeInv, TypeOK
  <2> QED
    BY <2>1, <2>2, <2>3
    DEF Step, Fails, KrbSkip, KrbWrite, KrbStat, Mkdir, AlreadyMounted, NotMounted, ReadDir,
        UnmountBad, MountDone, MountTimeout, PathGone, PathExists, UnmountPath, NotMnt,
        RemovePath, KrbNothing, KrbScan, KrbRmFile, krbVars
<1>6. found' \in [Threads -> SUBSET Uids]
  <2>1. CASE KrbScan(t) \/ KrbUnlink(t)
    BY <2>1 DEF TypeInv, TypeOK, KrbScan, KrbUnlink
  <2>2. CASE UNCHANGED found
    BY <2>2 DEF TypeInv, TypeOK
  <2> QED
    BY <2>1, <2>2
    DEF Step, Fails, KrbSkip, KrbWrite, KrbStat, KrbRemove, KrbSymlink, Mkdir, AlreadyMounted,
        NotMounted, ReadDir, UnmountBad, MountDone, MountTimeout, PathGone, PathExists,
        UnmountPath, NotMnt, RemovePath, KrbNothing, KrbRmFile, krbVars
<1>7. late' \in [Volumes -> Nat]
  <2>1. CASE MountTimeout(t)
    BY <1>2, <2>1 DEF TypeInv, TypeOK, MountTimeout
  <2>2. CASE UNCHANGED late
    BY <2>2 DEF TypeInv, TypeOK
  <2> QED
    BY <2>1, <2>2
    DEF Step, Fails, KrbSkip, KrbWrite, KrbStat, KrbRemove, KrbSymlink, Mkdir, AlreadyMounted,
        NotMounted, ReadDir, UnmountBad, MountDone, PathGone, PathExists, UnmountPath, NotMnt,
        RemovePath, KrbNothing, KrbScan, KrbUnlink, KrbRmFile
<1> QED
  BY <1>1, <1>3, <1>4, <1>5, <1>6, <1>7, MovesTypes DEF TypeInv, TypeOK, Labels

\* The goroutine that enters a call, the one that leaves it.
Enters(t, v) == NodeStageVolume(t, v) \/ NodeUnstageVolume(t, v)

LEMMA EnterTypes ==
    ASSUME TypeInv, NEW t \in Threads, NEW v \in Volumes, Enters(t, v)
    PROVE  TypeInv'
<1> USE ConstantsAssumption
<1>1. \E step \in {"kerberos", "cleanup"} : pc' = [pc EXCEPT ![t] = step]
  BY DEF Enters, NodeStageVolume, NodeUnstageVolume, Goto
<1>2. /\ TryAcquire(t, v)
      /\ UNCHANGED <<dir, mnt, health, cache, link, found, late>>
  BY DEF Enters, NodeStageVolume, NodeUnstageVolume
<1>3. pc' \in [Threads -> Labels] /\ VolOK'
  BY <1>1, <1>2 DEF TypeInv, TypeOK, VolOK, TryAcquire, Labels, StageSteps, UnstageSteps
<1> QED
  BY <1>2, <1>3 DEF TypeInv, TypeOK, TryAcquire, Labels

LEMMA ReturnTypes ==
    ASSUME TypeInv, NEW t \in Threads, Return(t)
    PROVE  TypeInv'
BY CallTypes DEF TypeInv, TypeOK, VolOK, Return, Returns, Goto

LEMMA EnvironmentTypes ==
    ASSUME TypeInv, Restart \/ \E v \in Volumes : LateMount(v) \/ ShareChanges(v)
    PROVE  TypeInv'
<1>1. CASE Restart
  BY <1>1 DEF TypeInv, TypeOK, VolOK, Restart, pathVars
<1>2. ASSUME NEW v \in Volumes, LateMount(v)
      PROVE  TypeInv'
  <2>1. /\ dir' \in [Volumes -> {"none", "empty", "full"}]
        /\ mnt' \in [Volumes -> Nat]
        /\ health' \in [Volumes -> Health]
    BY <1>2, MountType DEF LateMount, TypeInv, TypeOK, pathVars
  <2>2. late' \in [Volumes -> Nat]
    BY <1>2 DEF LateMount, TypeInv, TypeOK
  <2> QED
    BY <1>2, <2>1, <2>2 DEF LateMount, TypeInv, TypeOK, VolOK, krbVars, callVars
<1>3. ASSUME NEW v \in Volumes, ShareChanges(v)
      PROVE  TypeInv'
  BY <1>3, ConstantsAssumption DEF ShareChanges, TypeInv, TypeOK, VolOK, krbVars, callVars
<1> QED
  BY <1>1, <1>2, <1>3

LEMMA TypeNext == TypeInv /\ [Next]_vars => TypeInv'
<1> SUFFICES ASSUME TypeInv, [Next]_vars
             PROVE  TypeInv'
  OBVIOUS
<1>1. CASE UNCHANGED vars
  BY <1>1 DEF TypeInv, TypeOK, VolOK, vars
<1>2. CASE Next
  BY <1>2, EnterTypes, ReturnTypes, StepTypes, EnvironmentTypes DEF Next, Enters
<1> QED
  BY <1>1, <1>2

\* Every variable of the staging model keeps its type, in every reachable state and
\* for every set of goroutines, volumes and uids.
THEOREM TypeCorrect == Spec => []TypeOK
<1>1. Spec => []TypeInv
  BY TypeInit, TypeNext, PTL DEF Spec
<1>2. TypeInv => TypeOK
  BY DEF TypeInv
<1> QED
  BY <1>1, <1>2, PTL

-----------------------------------------------------------------------------
(* The lock: one call per volume, and the answer is withdrawn when it starts. *)

LockInv ==
    /\ TypeInv
    /\ LocksAreHeld
    /\ \A t \in Threads : InCall(t) => told[vol[t]] = "nothing"

LEMMA LockInit == Init => LockInv
BY TypeInit DEF Init, LockInv, LocksAreHeld, InCall

LEMMA LockMoves ==
    ASSUME LockInv, NEW t \in Threads, Moves(t)
    PROVE  (LockInv /\ TypeInv') => LockInv'
BY DEF LockInv, LocksAreHeld, InCall, Moves, TypeInv, TypeOK, Labels

LEMMA LockNext == LockInv /\ [Next]_vars => LockInv'
<1> SUFFICES ASSUME LockInv, [Next]_vars
             PROVE  LockInv'
  OBVIOUS
<1>1. TypeInv /\ TypeInv'
  BY TypeNext DEF LockInv
<1>2. ASSUME NEW t \in Threads, NEW v \in Volumes, Enters(t, v)
      PROVE  LockInv'
  <2>1. TryAcquire(t, v) /\ pc[t] = "idle" /\ pc'[t] # "idle"
        /\ \A s \in Threads \ {t} : pc'[s] = pc[s]
    BY <1>1, <1>2 DEF Enters, NodeStageVolume, NodeUnstageVolume, Goto, TypeInv, TypeOK
  <2>2. LocksAreHeld'
    BY <1>1, <2>1 DEF LockInv, LocksAreHeld, TryAcquire, TypeInv, TypeOK
  <2>3. \A s \in Threads : InCall(s)' => told'[vol'[s]] = "nothing"
    BY <1>1, <2>1 DEF LockInv, LocksAreHeld, InCall, TryAcquire, TypeInv, TypeOK, VolOK
  <2> QED
    BY <1>1, <2>2, <2>3 DEF LockInv, InCall
<1>3. ASSUME NEW t \in Threads, Return(t)
      PROVE  LockInv'
  <2>1. vol[t] \in Volumes /\ pc[t] # "idle"
    BY <1>1, <1>3, CallTypes DEF Return, Returns
  <2>2. LocksAreHeld'
    BY <1>1, <1>3, <2>1 DEF LockInv, LocksAreHeld, Return, Goto, TypeInv, TypeOK
  <2>3. \A s \in Threads : InCall(s)' => told'[vol'[s]] = "nothing"
    BY <1>1, <1>3, <2>1 DEF LockInv, LocksAreHeld, InCall, Return, Goto, TypeInv, TypeOK
  <2> QED
    BY <1>1, <2>2, <2>3 DEF LockInv, InCall
<1>4. ASSUME NEW t \in Threads, Step(t) \/ MountDone(t), ~Return(t)
      PROVE  LockInv'
  BY <1>1, <1>4, StepMoves, LockMoves DEF TypeInv
<1>5. CASE Restart
  BY <1>1, <1>5 DEF LockInv, LocksAreHeld, InCall, Restart
<1>6. ASSUME UNCHANGED <<pc, locks, vol, told>>
      PROVE  LockInv'
  BY <1>1, <1>6 DEF LockInv, LocksAreHeld, InCall
<1>7. ASSUME NEW v \in Volumes, LateMount(v) \/ ShareChanges(v)
      PROVE  LockInv'
  BY <1>6, <1>7 DEF LateMount, ShareChanges, callVars
<1> QED
  BY <1>2, <1>3, <1>4, <1>5, <1>6, <1>7 DEF Next, Enters, vars

\* Every key in volumeLocks belongs to exactly one call in progress, for every number of
\* concurrent calls, across timeouts and restarts.
THEOREM LocksHeld == Spec => []LocksAreHeld
<1>1. Spec => []LockInv
  BY LockInit, LockNext, PTL DEF Spec
<1>2. LockInv => LocksAreHeld
  BY DEF LockInv
<1> QED
  BY <1>1, <1>2, PTL

-----------------------------------------------------------------------------
(* The mount table.  What a call knows about its staging path stays true   *)
(* until it returns, because the lock keeps every other call away from it  *)
(* and a late mount command can only add a mount to an existing directory. *)

MountedSteps == {"readDir", "staged"}
RemovedSteps == {"krbDelete", "krbUnlink", "krbRmFile", "unstaged"}

PathInv ==
    /\ \A v \in Volumes : mnt[v] > 0 => dir[v] # "none"
    /\ \A t \in Threads : pc[t] \in MountedSteps => mnt[vol[t]] > 0
    /\ \A t \in Threads : pc[t] \in RemovedSteps => dir[vol[t]] = "none"
    /\ StagedIsMounted
    /\ UnstagedIsClean

LEMMA PathInit == Init => PathInv
BY DEF Init, PathInv, StagedIsMounted, UnstagedIsClean, MountedSteps, RemovedSteps

\* A step of t that leaves the paths of the other volumes alone preserves PathInv when
\* it establishes what the step it goes to knows about the path of its own volume.
LEMMA PathMoves ==
    ASSUME LockInv, PathInv, NEW t \in Threads, Moves(t),
           dir' \in [Volumes -> {"none", "empty", "full"}], mnt' \in [Volumes -> Nat],
           \A v \in Volumes \ {vol[t]} : dir'[v] = dir[v] /\ mnt'[v] = mnt[v],
           mnt'[vol[t]] > 0 => dir'[vol[t]] # "none",
           pc'[t] \in MountedSteps => mnt'[vol[t]] > 0,
           pc'[t] \in RemovedSteps => dir'[vol[t]] = "none"
    PROVE  PathInv'
<1>1. vol[t] \in Volumes /\ told[vol[t]] = "nothing"
  BY CallTypes DEF LockInv, InCall, Moves
<1>2. \A s \in Threads \ {t} : pc'[s] = pc[s] /\ (pc[s] # "idle" => vol[s] \in Volumes \ {vol[t]})
  BY CallTypes DEF LockInv, LocksAreHeld, Moves, TypeInv, TypeOK
<1>3. \A v \in Volumes : mnt'[v] > 0 => dir'[v] # "none"
  BY DEF PathInv
<1>4. \A s \in Threads : pc'[s] \in MountedSteps => mnt'[vol'[s]] > 0
  BY <1>2 DEF PathInv, Moves, MountedSteps
<1>5. \A s \in Threads : pc'[s] \in RemovedSteps => dir'[vol'[s]] = "none"
  BY <1>2 DEF PathInv, Moves, RemovedSteps
<1>6. StagedIsMounted' /\ UnstagedIsClean'
  BY <1>1 DEF PathInv, StagedIsMounted, UnstagedIsClean, Moves
<1> QED
  BY <1>3, <1>4, <1>5, <1>6 DEF PathInv

LEMMA PathSteps ==
    ASSUME LockInv, PathInv, NEW t \in Threads, Step(t) \/ MountDone(t), ~Return(t)
    PROVE  PathInv'
<1> DEFINE v == vol[t]
<1>1. Moves(t) /\ TypeInv /\ TypeInv'
  BY StepMoves, StepTypes DEF LockInv, TypeInv
<1>2. v \in Volumes /\ pc[t] # "idle"
  BY <1>1, CallTypes DEF Moves
<1>3. /\ dir \in [Volumes -> {"none", "empty", "full"}] /\ mnt \in [Volumes -> Nat]
      /\ dir' \in [Volumes -> {"none", "empty", "full"}] /\ mnt' \in [Volumes -> Nat]
      /\ pc \in [Threads -> Labels]
      /\ mnt[v] > 0 => dir[v] # "none"
      /\ pc[t] \in MountedSteps => mnt[v] > 0
      /\ pc[t] \in RemovedSteps => dir[v] = "none"
  BY <1>1, <1>2 DEF TypeInv, TypeOK, PathInv, Labels
<1> HIDE DEF v
<1> USE <1>2, <1>3 DEF Goto, MountedSteps, RemovedSteps
<1>4. \A w \in Volumes \ {v} : dir'[w] = dir[w] /\ mnt'[w] = mnt[w]
  BY DEF v, Step, Fails, KrbSkip, KrbWrite, KrbStat, KrbRemove, KrbSymlink, Mkdir,
         AlreadyMounted, NotMounted, ReadDir, UnmountBad, MountDone, MountTimeout, PathGone,
         PathExists, UnmountPath, NotMnt, RemovePath, KrbNothing, KrbScan, KrbUnlink, KrbRmFile,
         pathVars, MkdirAll, Mount, Unmount, Rmdir
<1>5. /\ mnt'[v] > 0 => dir'[v] # "none"
      /\ pc'[t] \in MountedSteps => mnt'[v] > 0
      /\ pc'[t] \in RemovedSteps => dir'[v] = "none"
  <2>1. CASE Fails(t) \/ MountTimeout(t) \/ KrbWrite(t) \/ KrbSkip(t) \/ KrbStat(t)
             \/ KrbRemove(t) \/ KrbSymlink(t)
    BY <2>1 DEF Fails, MountTimeout, KrbWrite, KrbSkip, KrbStat, KrbRemove, KrbSymlink, pathVars
  <2>2. CASE Mkdir(t) \/ NotMounted(t)
    BY <2>2 DEF v, Mkdir, NotMounted, MkdirAll
  <2>3. CASE AlreadyMounted(t) \/ ReadDir(t)
    BY <2>3 DEF v, AlreadyMounted, ReadDir, pathVars
  <2>4. CASE MountDone(t)
    BY <2>4 DEF v, MountDone, Mount, pathVars
  <2>5. CASE UnmountBad(t) \/ UnmountPath(t)
    BY <2>5 DEF v, UnmountBad, UnmountPath, Unmount, pathVars
  <2>6. CASE PathGone(t) \/ PathExists(t) \/ NotMnt(t)
    BY <2>6 DEF v, PathGone, PathExists, NotMnt, pathVars
  <2>7. CASE RemovePath(t)
    BY <2>7 DEF v, RemovePath, Rmdir
  <2>8. CASE KrbNothing(t) \/ KrbScan(t) \/ KrbUnlink(t) \/ KrbRmFile(t)
    BY <2>8 DEF KrbNothing, KrbScan, KrbUnlink, KrbRmFile, pathVars
  <2> QED
    BY <2>1, <2>2, <2>3, <2>4, <2>5, <2>6, <2>7, <2>8 DEF Step
<1> QED
  BY <1>1, <1>4, <1>5, PathMoves DEF v

LEMMA PathNext == LockInv /\ PathInv /\ [Next]_vars => PathInv'
<1> SUFFICES ASSUME LockInv, PathInv, [Next]_vars
             PROVE  PathInv'
  OBVIOUS
<1> USE DEF PathInv, StagedIsMounted, UnstagedIsClean
<1>1. TypeInv
  BY DEF LockInv
<1>2. ASSUME NEW t \in Threads, NEW v \in Volumes, Enters(t, v)
      PROVE  PathInv'
  BY <1>1, <1>2 DEF Enters, NodeStageVolume, NodeUnstageVolume, TryAcquire, Goto, MountedSteps,
                    RemovedSteps, TypeInv, TypeOK, VolOK
<1>3. ASSUME NEW t \in Threads, Return(t)
      PROVE  PathInv'
  <2>1. vol[t] \in Volumes
    BY <1>1, <1>3, CallTypes DEF Return, Returns
  <2>2. \A s \in Threads \ {t} : vol'[s] = vol[s] /\ pc'[s] = pc[s]
    BY <1>1, <1>3 DEF Return, Goto, TypeInv, TypeOK
  <2>3. pc'[t] = "idle" /\ dir' = dir /\ mnt' = mnt
    BY <1>1, <1>3 DEF Return, Goto, TypeInv, TypeOK
  <2>4. told' = [told EXCEPT ![vol[t]] = IF pc[t] = "failed" THEN "nothing" ELSE pc[t]]
    BY <1>3 DEF Return
  <2>5. StagedIsMounted' /\ UnstagedIsClean'
    BY <1>1, <1>3, <2>1, <2>3, <2>4 DEF TypeInv, TypeOK, Return, Returns, MountedSteps, RemovedSteps
  <2> QED
    BY <2>2, <2>3, <2>5 DEF MountedSteps, RemovedSteps
<1>4. ASSUME NEW t \in Threads, Step(t) \/ MountDone(t), ~Return(t)
      PROVE  PathInv'
  BY <1>4, PathSteps
<1>5. ASSUME NEW v \in Volumes, LateMount(v)
      PROVE  PathInv'
  <2>1. dir' = dir /\ UNCHANGED <<pc, vol, told>>
    BY <1>5 DEF LateMount, Mount, pathVars, krbVars, callVars
  <2>2. mnt \in [Volumes -> Nat] /\ mnt' \in [Volumes -> Nat]
    BY <1>1, <1>5, EnvironmentTypes DEF TypeInv, TypeOK
  <2>3. \A w \in Volumes : mnt'[w] >= mnt[w] /\ (mnt'[w] > mnt[w] => dir[w] # "none")
    BY <1>5, <2>2 DEF LateMount, Mount, pathVars
  <2>4. \A s \in Threads : pc[s] \in MountedSteps => vol[s] \in Volumes
    BY <1>1, CallTypes DEF MountedSteps
  <2> QED
    BY <2>1, <2>2, <2>3, <2>4
<1>6. CASE Restart
  BY <1>6 DEF Restart, pathVars, MountedSteps, RemovedSteps
<1>7. CASE UNCHANGED vars \/ \E v \in Volumes : ShareChanges(v)
  BY <1>7 DEF vars, ShareChanges, callVars
<1> QED
  BY <1>2, <1>3, <1>4, <1>5, <1>6, <1>7 DEF Next, Enters

LEMMA PathsHold == Spec => []PathInv
BY LockInit, LockNext, PathInit, PathNext, PTL DEF Spec

\* A volume that NodeStageVolume reported as staged is mounted until the next call for it,
\* whatever times out, breaks or restarts.
THEOREM StagedStaysMounted == Spec => []StagedIsMounted
<1>1. PathInv => StagedIsMounted
  BY DEF PathInv
<1> QED
  BY <1>1, PathsHold, PTL

\* A volume that NodeUnstageVolume reported as unstaged has neither mount nor directory until
\* the next call for it, also when an earlier mount command ends late.
THEOREM UnstagedStaysClean == Spec => []UnstagedIsClean
<1>1. PathInv => UnstagedIsClean
  BY DEF PathInv
<1> QED
  BY <1>1, PathsHold, PTL

-----------------------------------------------------------------------------
(* NodeStaging implements StagingContract.  The steps of a call are steps  *)
(* of the contract because the lock gives the call its volume to itself    *)
(* (LockInv), and its answers are true because of what it knows about the  *)
(* path by then (PathInv).                                                 *)

\* The kind of call that takes a step; "none" for a call that has failed.
Kind(step) ==
    IF step \in InStage THEN "stage"
    ELSE IF step \in InUnstage THEN "unstage" ELSE "none"

\* CallFor, for any goroutines at steps p that serve the volumes w.
CallIn(p, w, v) ==
    IF \E t \in Threads : w[t] = v /\ p[t] \in InStage THEN "stage"
    ELSE IF \E t \in Threads : w[t] = v /\ p[t] \in InUnstage THEN "unstage"
    ELSE "none"

LEMMA CallOfOwner ==
    ASSUME NEW p, NEW w, NEW t \in Threads,
           \A s \in Threads \ {t} : p[s] = "idle" \/ w[s] # w[t]
    PROVE  CallIn(p, w, w[t]) = Kind(p[t])
BY DEF CallIn, Kind, InStage, InUnstage, StageSteps, UnstageSteps

LEMMA CallOfOthers ==
    ASSUME NEW p, NEW w, NEW q, NEW x, NEW v,
           \A s \in Threads : w[s] = v \/ x[s] = v => p[s] = q[s] /\ w[s] = x[s]
    PROVE  CallIn(p, w, v) = CallIn(q, x, v)
BY DEF CallIn

LEMMA CallOfNobody ==
    ASSUME NEW p, NEW w, NEW v, \A s \in Threads : p[s] = "idle" \/ w[s] # v
    PROVE  CallIn(p, w, v) = "none"
BY DEF CallIn, InStage, InUnstage, StageSteps, UnstageSteps

\* A call stays a call of its kind until it fails.
LEMMA KindStays ==
    ASSUME TypeOK, NEW t \in Threads, Step(t) \/ MountDone(t), ~Return(t)
    PROVE  Kind(pc[t]) # "none" /\ Kind(pc'[t]) \in {Kind(pc[t]), "none"}
<1> USE DEF Kind, Goto, InStage, InUnstage, StageSteps, UnstageSteps, TypeOK
<1>1. CASE Fails(t)
  BY <1>1 DEF Fails, Fallible
<1>2. CASE KrbSkip(t) \/ KrbWrite(t) \/ KrbStat(t) \/ KrbRemove(t) \/ KrbSymlink(t)
  BY <1>2 DEF KrbSkip, KrbWrite, KrbStat, KrbRemove, KrbSymlink
<1>3. CASE Mkdir(t) \/ AlreadyMounted(t) \/ NotMounted(t) \/ ReadDir(t)
  BY <1>3 DEF Mkdir, AlreadyMounted, NotMounted, ReadDir
<1>4. CASE UnmountBad(t) \/ MountDone(t) \/ MountTimeout(t)
  BY <1>4 DEF UnmountBad, MountDone, MountTimeout
<1>5. CASE PathGone(t) \/ PathExists(t) \/ UnmountPath(t) \/ NotMnt(t) \/ RemovePath(t)
  BY <1>5 DEF PathGone, PathExists, UnmountPath, NotMnt, RemovePath
<1>6. CASE KrbNothing(t) \/ KrbScan(t) \/ KrbUnlink(t) \/ KrbRmFile(t)
  BY <1>6 DEF KrbNothing, KrbScan, KrbUnlink, KrbRmFile
<1> QED
  BY <1>1, <1>2, <1>3, <1>4, <1>5, <1>6 DEF Step

-----------------------------------------------------------------------------
(* One lemma for each way in which a step changes what the contract sees.  *)

\* The path of v, and of no other volume, changes.
PathOf(v) ==
    \A w \in Volumes \ {v} : dir'[w] = dir[w] /\ mnt'[w] = mnt[w]

LEMMA PathChange ==
    ASSUME TypeOK, TypeOK', NEW v \in Volumes, PathOf(v), mnt'[v] > 0 => dir'[v] # "none"
    PROVE  Contract!PathChanges(v)
<1> DEFINE m == mnt'[v] > 0
           p == dir'[v] # "none"
<1>1. m \in BOOLEAN /\ p \in BOOLEAN /\ (m => p)
  OBVIOUS
<1>2. [w \in Volumes |-> mnt'[w] > 0] = [[w \in Volumes |-> mnt[w] > 0] EXCEPT ![v] = m]
  BY DEF PathOf
<1>3. [w \in Volumes |-> dir'[w] # "none"] = [[w \in Volumes |-> dir[w] # "none"] EXCEPT ![v] = p]
  BY DEF PathOf
<1> HIDE DEF m, p
<1> QED
  BY <1>1, <1>2, <1>3 DEF Contract!PathChanges

\* A step inside a call is work of the call, or its failure.
LEMMA MoveRefined ==
    ASSUME LockInv, TypeInv', PathInv', NEW t \in Threads, Moves(t),
           NEW v \in Volumes, v = vol[t], PathOf(v),
           Kind(pc[t]) # "none", Kind(pc'[t]) \in {Kind(pc[t]), "none"}
    PROVE  Contract!Next
<1>1. told[v] = "nothing" /\ told' = told /\ vol' = vol
  BY DEF LockInv, InCall, Moves
<1>2. Contract!PathChanges(v)
  BY <1>1, PathChange DEF LockInv, TypeInv, PathInv
<1>3. \A s \in Threads \ {t} : pc'[s] = pc[s] /\ (pc[s] = "idle" \/ vol[s] # v)
  BY DEF LockInv, LocksAreHeld, Moves, TypeInv, TypeOK
<1>4. CallIn(pc, vol, v) = Kind(pc[t]) /\ CallIn(pc', vol', v) = Kind(pc'[t])
  <2>1. \A s \in Threads \ {t} : pc'[s] = "idle" \/ vol'[s] # vol'[t]
    BY <1>1, <1>3
  <2>2. CallIn(pc', vol', vol'[t]) = Kind(pc'[t])
    BY <2>1, CallOfOwner
  <2>3. CallIn(pc, vol, vol[t]) = Kind(pc[t])
    BY <1>3, CallOfOwner
  <2> QED
    BY <1>1, <2>2, <2>3
<1>5. \A w \in Volumes \ {v} : CallIn(pc', vol', w) = CallIn(pc, vol, w)
  BY <1>1, <1>3, CallOfOthers
<1>6. \A w \in Volumes : CallFor(w) = CallIn(pc, vol, w) /\ CallFor(w)' = CallIn(pc', vol', w)
  BY DEF CallFor, CallIn
<1>7. CASE Kind(pc'[t]) = Kind(pc[t])
  <2>1. [w \in Volumes |-> CallFor(w)'] = [w \in Volumes |-> CallFor(w)]
    BY <1>4, <1>5, <1>6, <1>7
  <2>2. Contract!Work(v)
    BY <1>1, <1>2, <2>1 DEF Contract!Work
  <2> QED
    BY <1>1, <2>2 DEF Contract!Next
<1>8. CASE Kind(pc'[t]) = "none"
  <2>1. [w \in Volumes |-> CallFor(w)'] = [[w \in Volumes |-> CallFor(w)] EXCEPT ![v] = "none"]
    BY <1>1, <1>4, <1>5, <1>6, <1>8
  <2>2. CallFor(v) # "none"
    BY <1>1, <1>4, <1>6
  <2>3. Contract!Fail(v)
    BY <1>1, <1>2, <2>1, <2>2 DEF Contract!Fail
  <2> QED
    BY <1>1, <2>3 DEF Contract!Next
<1> QED
  BY <1>7, <1>8

LEMMA EnterRefined ==
    ASSUME LockInv, NEW t \in Threads, NEW v \in Volumes, Enters(t, v)
    PROVE  Contract!Next
<1>1. PICK step \in {"kerberos", "cleanup"} :
         /\ pc[t] = "idle" /\ pc' = [pc EXCEPT ![t] = step]
         /\ TryAcquire(t, v) /\ UNCHANGED <<dir, mnt>>
  BY DEF Enters, NodeStageVolume, NodeUnstageVolume, Goto
<1>2. \A s \in Threads : pc[s] = "idle" \/ vol[s] # v
  BY <1>1 DEF LockInv, LocksAreHeld, TryAcquire
<1>3. \A s \in Threads \ {t} : pc'[s] = pc[s] /\ vol'[s] = vol[s]
  BY <1>1 DEF TryAcquire, LockInv, TypeInv, TypeOK
<1>4. pc'[t] = step /\ vol'[t] = v /\ vol[t] = NoVolume
  BY <1>1 DEF TryAcquire, LockInv, TypeInv, TypeOK, VolOK
<1>5. CallIn(pc, vol, v) = "none"
  BY <1>2, CallOfNobody
<1>6. CallIn(pc', vol', v) = Kind(step)
  BY <1>2, <1>3, <1>4, CallOfOwner
<1>7. \A w \in Volumes \ {v} : CallIn(pc', vol', w) = CallIn(pc, vol, w)
  BY <1>3, <1>4, CallOfOthers, ConstantsAssumption
<1>8. \A w \in Volumes : CallFor(w) = CallIn(pc, vol, w) /\ CallFor(w)' = CallIn(pc', vol', w)
  BY DEF CallFor, CallIn
<1>9. Kind(step) \in {"stage", "unstage"}
  BY <1>1 DEF Kind, InStage, InUnstage, StageSteps, UnstageSteps
<1>10. [w \in Volumes |-> CallFor(w)'] = [[w \in Volumes |-> CallFor(w)] EXCEPT ![v] = Kind(step)]
  BY <1>6, <1>7, <1>8
<1>11. Contract!Begin(v, Kind(step))
  BY <1>1, <1>5, <1>8, <1>10 DEF Contract!Begin, TryAcquire
<1> QED
  BY <1>9, <1>11 DEF Contract!Next

LEMMA ReturnRefined ==
    ASSUME LockInv, PathInv, NEW t \in Threads, Return(t)
    PROVE  [Contract!Next]_(Contract!vars)
<1>1. PICK v \in Volumes : v = vol[t]
  BY CallTypes DEF Return, Returns, LockInv
<1>2. /\ pc'[t] = "idle" /\ vol'[t] = NoVolume /\ UNCHANGED <<dir, mnt>>
      /\ \A s \in Threads \ {t} : pc'[s] = pc[s] /\ vol'[s] = vol[s]
      /\ told' = [told EXCEPT ![v] = IF pc[t] = "failed" THEN "nothing" ELSE pc[t]]
  BY <1>1 DEF Return, Goto, LockInv, TypeInv, TypeOK
<1>3. \A s \in Threads \ {t} : pc[s] = "idle" \/ vol[s] # v
  BY <1>1 DEF LockInv, LocksAreHeld, Return, Returns
<1>4. CallIn(pc, vol, v) = Kind(pc[t])
  BY <1>1, <1>3, CallOfOwner
<1>5. CallIn(pc', vol', v) = "none"
  BY <1>2, <1>3, CallOfNobody
<1>6. \A w \in Volumes \ {v} : CallIn(pc', vol', w) = CallIn(pc, vol, w)
  BY <1>1, <1>2, CallOfOthers, ConstantsAssumption
<1>7. \A w \in Volumes : CallFor(w) = CallIn(pc, vol, w) /\ CallFor(w)' = CallIn(pc', vol', w)
  BY DEF CallFor, CallIn
<1>8. [w \in Volumes |-> CallFor(w)'] = [[w \in Volumes |-> CallFor(w)] EXCEPT ![v] = "none"]
  BY <1>5, <1>6, <1>7
<1>9. CASE pc[t] = "failed"
  <2>1. CallFor(v) = "none"
    BY <1>4, <1>7, <1>9 DEF Kind, InStage, InUnstage, StageSteps, UnstageSteps
  <2>2. [w \in Volumes |-> CallFor(w)'] = [w \in Volumes |-> CallFor(w)]
    BY <1>5, <1>6, <1>7, <2>1
  <2>3. told' = told
    BY <1>1, <1>2, <1>9 DEF LockInv, InCall, TypeInv, TypeOK
  <2> QED
    BY <1>2, <2>2, <2>3 DEF Contract!vars
<1>10. CASE pc[t] = "staged"
  <2>1. CallFor(v) = "stage" /\ mnt[v] > 0
    BY <1>1, <1>4, <1>7, <1>10 DEF Kind, InStage, PathInv, MountedSteps
  <2>2. told' = [told EXCEPT ![v] = "staged"]
    BY <1>2, <1>10
  <2>3. Contract!Succeed(v)
    BY <1>2, <1>8, <2>1, <2>2 DEF Contract!Succeed
  <2> QED
    BY <2>3 DEF Contract!Next
<1>11. CASE pc[t] = "unstaged"
  <2>1. CallFor(v) = "unstage" /\ dir[v] = "none"
    BY <1>1, <1>4, <1>7, <1>11 DEF Kind, InStage, InUnstage, StageSteps, UnstageSteps, PathInv, RemovedSteps
  <2>2. told' = [told EXCEPT ![v] = "unstaged"]
    BY <1>2, <1>11
  <2>3. Contract!Succeed(v)
    BY <1>2, <1>8, <2>1, <2>2 DEF Contract!Succeed
  <2> QED
    BY <2>3 DEF Contract!Next
<1> QED
  BY <1>9, <1>10, <1>11 DEF Return, Returns

\* A step of a call that stays inside the call changes the path of its own volume only.
LEMMA StepRefined ==
    ASSUME LockInv, PathInv, NEW t \in Threads, Step(t) \/ MountDone(t), ~Return(t)
    PROVE  Contract!Next
<1>1. Moves(t) /\ TypeInv' /\ PathInv'
  BY StepMoves, StepTypes, PathSteps DEF LockInv, TypeInv
<1>2. Kind(pc[t]) # "none" /\ Kind(pc'[t]) \in {Kind(pc[t]), "none"}
  BY KindStays DEF LockInv, TypeInv
<1>3. PICK v \in Volumes : v = vol[t]
  BY <1>1, CallTypes DEF LockInv, Moves
<1>4. \A w \in Volumes \ {v} : dir'[w] = dir[w] /\ mnt'[w] = mnt[w]
  BY <1>3 DEF Step, Fails, KrbSkip, KrbWrite, KrbStat, KrbRemove, KrbSymlink, Mkdir,
         AlreadyMounted, NotMounted, ReadDir, UnmountBad, MountDone, MountTimeout, PathGone,
         PathExists, UnmountPath, NotMnt, RemovePath, KrbNothing, KrbScan, KrbUnlink, KrbRmFile,
         pathVars, MkdirAll, Mount, Unmount, Rmdir, LockInv, TypeInv, TypeOK
<1> QED
  BY <1>1, <1>2, <1>3, <1>4, MoveRefined DEF PathOf

\* The mount of a call that timed out is work when it comes while nothing is promised, and
\* goes unnoticed otherwise: a staged volume has a mount already, and the mount point of an
\* unstaged one is gone.
LEMMA LateMountRefined ==
    ASSUME LockInv, PathInv, PathInv', TypeInv', NEW v \in Volumes, LateMount(v)
    PROVE  [Contract!Next]_(Contract!vars)
<1>1. UNCHANGED <<dir, pc, vol, told>>
  BY DEF LateMount, Mount, pathVars, callVars
<1>2. \A w \in Volumes \ {v} : mnt'[w] = mnt[w]
  BY DEF LateMount, Mount, pathVars, LockInv, TypeInv, TypeOK
<1>3. [w \in Volumes |-> CallFor(w)'] = [w \in Volumes |-> CallFor(w)]
  BY <1>1 DEF CallFor
<1>4. CASE told[v] = "nothing"
  <2>1. Contract!PathChanges(v)
    BY <1>1, <1>2, PathChange DEF LockInv, TypeInv, PathInv, PathOf
  <2>2. Contract!Work(v)
    BY <1>1, <1>3, <1>4, <2>1 DEF Contract!Work
  <2> QED
    BY <2>2 DEF Contract!Next
<1>5. CASE told[v] # "nothing"
  <2>1. mnt'[v] > 0 <=> mnt[v] > 0
    BY <1>1, <1>5 DEF PathInv, StagedIsMounted, UnstagedIsClean, LockInv, TypeInv, TypeOK
  <2>2. [w \in Volumes |-> mnt'[w] > 0] = [w \in Volumes |-> mnt[w] > 0]
    <3>1. \A w \in Volumes : (mnt'[w] > 0) = (mnt[w] > 0)
      BY <1>2, <2>1
    <3> QED
      BY <3>1, Zenon
  <2> QED
    BY <1>1, <1>3, <2>2 DEF Contract!vars
<1> QED
  BY <1>4, <1>5

LEMMA QuietRefined ==
    ASSUME UNCHANGED <<dir, mnt, pc, vol, told>>
    PROVE  UNCHANGED Contract!vars
<1>1. [w \in Volumes |-> CallFor(w)'] = [w \in Volumes |-> CallFor(w)]
  BY DEF CallFor
<1> QED
  BY <1>1 DEF Contract!vars

LEMMA RestartRefined ==
    ASSUME Restart
    PROVE  Contract!Next
<1>1. [w \in Volumes |-> CallFor(w)'] = [w \in Volumes |-> "none"]
  BY DEF CallFor, Restart, InStage, InUnstage, StageSteps, UnstageSteps
<1>2. Contract!Restart
  BY <1>1 DEF Contract!Restart, Restart, pathVars
<1> QED
  BY <1>2 DEF Contract!Next

LEMMA InitRefined == Init => Contract!Init
<1> SUFFICES ASSUME Init
             PROVE  Contract!Init
  OBVIOUS
<1>1. [w \in Volumes |-> CallFor(w)] = [w \in Volumes |-> "none"]
  BY DEF Init, CallFor, InStage, InUnstage, StageSteps, UnstageSteps
<1>2. [w \in Volumes |-> mnt[w] > 0] = [w \in Volumes |-> FALSE]
  <2>1. \A w \in Volumes : (mnt[w] > 0) = FALSE
    BY DEF Init
  <2> QED
    BY <2>1, Zenon
<1>3. [w \in Volumes |-> dir[w] # "none"] = [w \in Volumes |-> FALSE]
  BY DEF Init
<1> QED
  BY <1>1, <1>2, <1>3 DEF Init, Contract!Init

LEMMA NextRefined ==
    LockInv /\ PathInv /\ [Next]_vars => [Contract!Next]_(Contract!vars)
<1> SUFFICES ASSUME LockInv, PathInv, [Next]_vars
             PROVE  [Contract!Next]_(Contract!vars)
  OBVIOUS
<1>1. TypeInv' /\ PathInv'
  BY LockNext, PathNext DEF LockInv
<1>2. ASSUME NEW t \in Threads, NEW v \in Volumes, Enters(t, v)
      PROVE  Contract!Next
  BY <1>2, EnterRefined
<1>3. ASSUME NEW t \in Threads, Return(t)
      PROVE  [Contract!Next]_(Contract!vars)
  BY <1>3, ReturnRefined
<1>4. ASSUME NEW t \in Threads, Step(t) \/ MountDone(t), ~Return(t)
      PROVE  Contract!Next
  BY <1>4, StepRefined
<1>5. ASSUME NEW v \in Volumes, LateMount(v)
      PROVE  [Contract!Next]_(Contract!vars)
  BY <1>1, <1>5, LateMountRefined
<1>6. CASE UNCHANGED vars \/ \E v \in Volumes : ShareChanges(v)
  <2>1. UNCHANGED <<dir, mnt, pc, vol, told>>
    BY <1>6 DEF vars, ShareChanges, callVars
  <2> QED
    BY <2>1, QuietRefined
<1>7. CASE Restart
  BY <1>7, RestartRefined
<1> QED
  BY <1>2, <1>3, <1>4, <1>5, <1>6, <1>7 DEF Next, Enters

\* NodeStageVolume and NodeUnstageVolume implement StagingContract, for every number of
\* goroutines and volumes, with mount commands that outlive their calls and with restarts.
THEOREM ImplementsContract == Spec => KeepsContract
<1>1. Spec => [](LockInv /\ PathInv)
  BY LockInit, LockNext, PathInit, PathNext, PTL DEF Spec
<1> QED
  BY <1>1, InitRefined, NextRefined, PTL DEF Spec, KeepsContract, Contract!Spec
=============================================================================
