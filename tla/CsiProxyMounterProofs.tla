----------------------- MODULE CsiProxyMounterProofs -----------------------
(***************************************************************************)
(* The mapping of a share outlives every reference to it, and a volume     *)
(* reported as staged keeps its link and the mapping.                      *)
(***************************************************************************)
EXTENDS CsiProxyMounter, TLAPS

Busy(t) == pc[t] # "idle" /\ t \notin detached

\* Who may do what: the mutex is held exactly at the steps that need it, a detached
\* goroutine is in SMBMount, and the other ones hold the locks of different volumes.
Exclusion ==
    /\ \A t \in Threads : pc[t] \in Holding <=> mutex = t
    /\ \A t \in Threads : pc[t] # "idle" => vol[t] \in Volumes
    /\ \A t \in detached : pc[t] \in MountSteps \cup Returns
    /\ \A t \in Threads : Busy(t) => vol[t] \in locks
    /\ \A s, t \in Threads : Busy(s) /\ Busy(t) /\ vol[s] = vol[t] => s = t

\* The mapping is there for every reference and every reference about to be made.
Mapped ==
    /\ refs # {} => mapping
    /\ \A t \in Threads : pc[t] = "addRef" => mapping
    /\ \A t \in Threads : pc[t] = "removeMapping" => refs = {}

\* A link has a reference, or has lost it for a known reason.
LinkAccounted ==
    \A v \in Volumes : path[v] = "link" =>
        \/ v \in refs \cup torn
        \/ \E t \in Threads : vol[t] = v /\ pc[t] \in Halfway

\* A volume that is staged, or is about to be reported as staged, has its link.
StagedHasLink ==
    /\ \A t \in Threads : Busy(t) /\ pc[t] \in {"readDir", "addRef", "staged"} => path[vol[t]] = "link"
    /\ \A v \in Volumes : told[v] = "staged" => path[v] = "link" /\ v \notin locks

IInv == TypeOK /\ Exclusion /\ Mapped /\ LinkAccounted /\ StagedHasLink

\* Every step keeps the types.
LEMMA TypeStep ==
    ASSUME IInv, [Next]_vars
    PROVE  TypeOK'
<1> USE MounterAssumption DEF IInv, TypeOK, Exclusion, Busy, Labels, Holding, MountSteps, Returns
<1>1. CASE UNCHANGED vars
  BY <1>1 DEF vars, nodeVars, callVars
<1>2. CASE Restart
  BY <1>2 DEF Restart, Halfway
<1>3. ASSUME NEW t \in Threads, NEW v \in Volumes, NodeStageVolume(t, v) \/ NodeUnstageVolume(t, v)
     PROVE  TypeOK'
  BY <1>3 DEF NodeStageVolume, NodeUnstageVolume, TryAcquire, Goto, nodeVars
<1>4. ASSUME NEW t \in Threads, Answer(t)
     PROVE  TypeOK'
  BY <1>4 DEF Answer, Goto, nodeVars
<1>5. ASSUME NEW t \in Threads, Timeout(t)
     PROVE  TypeOK'
  BY <1>5 DEF Timeout, nodeVars
<1>6. ASSUME NEW t \in Threads, DetachedEnds(t)
     PROVE  TypeOK'
  BY <1>6 DEF DetachedEnds, Goto, nodeVars
<1>7. ASSUME NEW t \in Threads, Lock(t)
     PROVE  TypeOK'
  BY <1>7 DEF Lock, Goto, nodeVars, callVars
<1>8. ASSUME NEW t \in Threads, \/ Fails(t) \/ EnsureMountPoint(t) \/ AlreadyMounted(t)
                                \/ Readlink(t) \/ ReadlinkFails(t) \/ Count(t) \/ CountFails(t)
     PROVE  TypeOK'
  BY <1>8
  DEF Fails, EnsureMountPoint, AlreadyMounted, Readlink, ReadlinkFails, Count, CountFails,
      Goto, nodeVars, callVars
<1>9. ASSUME NEW t \in Threads, UnmountBad(t) \/ MakeDir(t) \/ PrepareStagePath(t) \/ RemovePath(t)
     PROVE  TypeOK'
  BY <1>9 DEF UnmountBad, MakeDir, PrepareStagePath, RemovePath, Goto, Rmdir, callVars
<1>10. ASSUME NEW t \in Threads, NewSmbGlobalMapping(t)
     PROVE  TypeOK'
  BY <1>10 DEF NewSmbGlobalMapping, Goto, callVars
<1>11. ASSUME NEW t \in Threads, MappingFails(t)
     PROVE  TypeOK'
  BY <1>11 DEF MappingFails, Goto, EndWith, callVars
<1>12. ASSUME NEW t \in Threads, AddRef(t)
     PROVE  TypeOK'
  BY <1>12 DEF AddRef, Goto, EndWith, callVars
<1>13. ASSUME NEW t \in Threads, AddRefFails(t)
     PROVE  TypeOK'
  BY <1>13 DEF AddRefFails, Goto, EndWith, callVars
<1>14. ASSUME NEW t \in Threads, Decrement(t)
     PROVE  TypeOK'
  BY <1>14 DEF Decrement, Goto, callVars
<1>15. ASSUME NEW t \in Threads, DecrementFails(t)
     PROVE  TypeOK'
  BY <1>15 DEF DecrementFails, Goto, EndWith, nodeVars, callVars
<1>16. ASSUME NEW t \in Threads, RemoveSmbGlobalMapping(t)
     PROVE  TypeOK'
  BY <1>16 DEF RemoveSmbGlobalMapping, Goto, callVars
<1>17. ASSUME NEW t \in Threads, RemoveLink(t)
     PROVE  TypeOK'
  BY <1>17 DEF RemoveLink, Goto, Rmdir, EndWith, callVars
<1>18. ASSUME NEW t \in Threads, UnmountFails(t)
     PROVE  TypeOK'
  BY <1>18 DEF UnmountFails, Goto, EndWith, callVars
<1> HIDE DEF IInv, TypeOK, Exclusion, Busy, Labels, Holding, MountSteps, Returns
<1> QED
  BY <1>1, <1>2, <1>3, <1>4, <1>5, <1>6, <1>7, <1>8, <1>9,
     <1>10, <1>11, <1>12, <1>13, <1>14, <1>15, <1>16, <1>17, <1>18
  DEF Next, Step

\* The mutex and the volume locks exclude what they should.
LEMMA ExclusionStep ==
    ASSUME IInv, [Next]_vars
    PROVE  Exclusion'
<1> USE MounterAssumption DEF IInv, TypeOK, Exclusion, Busy, Labels, Holding, MountSteps, Returns
<1>1. CASE UNCHANGED vars
  BY <1>1 DEF vars, nodeVars, callVars
<1>2. CASE Restart
  BY <1>2 DEF Restart
<1>3. ASSUME NEW t \in Threads, NEW v \in Volumes, NodeStageVolume(t, v) \/ NodeUnstageVolume(t, v)
     PROVE  Exclusion'
  BY <1>3 DEF NodeStageVolume, NodeUnstageVolume, TryAcquire, Goto, nodeVars
<1>4. ASSUME NEW t \in Threads, Answer(t)
     PROVE  Exclusion'
  BY <1>4 DEF Answer, Goto, nodeVars
<1>5. ASSUME NEW t \in Threads, Timeout(t)
     PROVE  Exclusion'
  BY <1>5 DEF Timeout, nodeVars
<1>6. ASSUME NEW t \in Threads, DetachedEnds(t)
     PROVE  Exclusion'
  BY <1>6 DEF DetachedEnds, Goto, nodeVars
<1>7. ASSUME NEW t \in Threads, Lock(t)
     PROVE  Exclusion'
  BY <1>7 DEF Lock, Goto, nodeVars, callVars
<1>8. ASSUME NEW t \in Threads, \/ Fails(t) \/ EnsureMountPoint(t) \/ AlreadyMounted(t)
                                \/ Readlink(t) \/ ReadlinkFails(t) \/ Count(t) \/ CountFails(t)
     PROVE  Exclusion'
  BY <1>8
  DEF Fails, EnsureMountPoint, AlreadyMounted, Readlink, ReadlinkFails, Count, CountFails,
      Goto, nodeVars, callVars
<1>9. ASSUME NEW t \in Threads, UnmountBad(t) \/ MakeDir(t) \/ PrepareStagePath(t) \/ RemovePath(t)
     PROVE  Exclusion'
  BY <1>9 DEF UnmountBad, MakeDir, PrepareStagePath, RemovePath, Goto, Rmdir, callVars
<1>10. ASSUME NEW t \in Threads, NewSmbGlobalMapping(t)
     PROVE  Exclusion'
  BY <1>10 DEF NewSmbGlobalMapping, Goto, callVars
<1>11. ASSUME NEW t \in Threads, MappingFails(t)
     PROVE  Exclusion'
  BY <1>11 DEF MappingFails, Goto, EndWith, callVars
<1>12. ASSUME NEW t \in Threads, AddRef(t)
     PROVE  Exclusion'
  BY <1>12 DEF AddRef, Goto, EndWith, callVars
<1>13. ASSUME NEW t \in Threads, AddRefFails(t)
     PROVE  Exclusion'
  BY <1>13 DEF AddRefFails, Goto, EndWith, callVars
<1>14. ASSUME NEW t \in Threads, Decrement(t)
     PROVE  Exclusion'
  BY <1>14 DEF Decrement, Goto, callVars
<1>15. ASSUME NEW t \in Threads, DecrementFails(t)
     PROVE  Exclusion'
  BY <1>15 DEF DecrementFails, Goto, EndWith, nodeVars, callVars
<1>16. ASSUME NEW t \in Threads, RemoveSmbGlobalMapping(t)
     PROVE  Exclusion'
  BY <1>16 DEF RemoveSmbGlobalMapping, Goto, callVars
<1>17. ASSUME NEW t \in Threads, RemoveLink(t)
     PROVE  Exclusion'
  BY <1>17 DEF RemoveLink, Goto, Rmdir, EndWith, callVars
<1>18. ASSUME NEW t \in Threads, UnmountFails(t)
     PROVE  Exclusion'
  BY <1>18 DEF UnmountFails, Goto, EndWith, callVars
<1> HIDE DEF IInv, TypeOK, Exclusion, Busy, Labels, Holding, MountSteps, Returns
<1> QED
  BY <1>1, <1>2, <1>3, <1>4, <1>5, <1>6, <1>7, <1>8, <1>9,
     <1>10, <1>11, <1>12, <1>13, <1>14, <1>15, <1>16, <1>17, <1>18
  DEF Next, Step

\* The mapping is removed under the mutex, with no reference left and
\* none about to be made.
LEMMA MappedStep ==
    ASSUME IInv, [Next]_vars
    PROVE  Mapped'
<1> USE MounterAssumption
       DEF IInv, TypeOK, Exclusion, Busy, Labels, Holding, MountSteps, Returns, Mapped
<1>1. CASE UNCHANGED vars
  BY <1>1 DEF vars, nodeVars, callVars
<1>2. CASE Restart
  BY <1>2 DEF Restart
<1>3. ASSUME NEW t \in Threads, NEW v \in Volumes, NodeStageVolume(t, v) \/ NodeUnstageVolume(t, v)
     PROVE  Mapped'
  BY <1>3 DEF NodeStageVolume, NodeUnstageVolume, TryAcquire, Goto, nodeVars
<1>4. ASSUME NEW t \in Threads, Answer(t)
     PROVE  Mapped'
  BY <1>4 DEF Answer, Goto, nodeVars
<1>5. ASSUME NEW t \in Threads, Timeout(t)
     PROVE  Mapped'
  BY <1>5 DEF Timeout, nodeVars
<1>6. ASSUME NEW t \in Threads, DetachedEnds(t)
     PROVE  Mapped'
  BY <1>6 DEF DetachedEnds, Goto, nodeVars
<1>7. ASSUME NEW t \in Threads, Lock(t)
     PROVE  Mapped'
  BY <1>7 DEF Lock, Goto, nodeVars, callVars
<1>8. ASSUME NEW t \in Threads, \/ Fails(t) \/ EnsureMountPoint(t) \/ AlreadyMounted(t)
                                \/ Readlink(t) \/ ReadlinkFails(t) \/ Count(t) \/ CountFails(t)
     PROVE  Mapped'
  BY <1>8
  DEF Fails, EnsureMountPoint, AlreadyMounted, Readlink, ReadlinkFails, Count, CountFails,
      Goto, nodeVars, callVars
<1>9. ASSUME NEW t \in Threads, UnmountBad(t) \/ MakeDir(t) \/ PrepareStagePath(t) \/ RemovePath(t)
     PROVE  Mapped'
  BY <1>9 DEF UnmountBad, MakeDir, PrepareStagePath, RemovePath, Goto, Rmdir, callVars
<1>10. ASSUME NEW t \in Threads, NewSmbGlobalMapping(t)
     PROVE  Mapped'
  BY <1>10 DEF NewSmbGlobalMapping, Goto, callVars
<1>11. ASSUME NEW t \in Threads, MappingFails(t)
     PROVE  Mapped'
  BY <1>11 DEF MappingFails, Goto, EndWith, callVars
<1>12. ASSUME NEW t \in Threads, AddRef(t)
     PROVE  Mapped'
  BY <1>12 DEF AddRef, Goto, EndWith, callVars
<1>13. ASSUME NEW t \in Threads, AddRefFails(t)
     PROVE  Mapped'
  BY <1>13 DEF AddRefFails, Goto, EndWith, callVars
<1>14. ASSUME NEW t \in Threads, Decrement(t)
     PROVE  Mapped'
  BY <1>14 DEF Decrement, Goto, callVars
<1>15. ASSUME NEW t \in Threads, DecrementFails(t)
     PROVE  Mapped'
  BY <1>15 DEF DecrementFails, Goto, EndWith, nodeVars, callVars
<1>16. ASSUME NEW t \in Threads, RemoveSmbGlobalMapping(t)
     PROVE  Mapped'
  BY <1>16 DEF RemoveSmbGlobalMapping, Goto, callVars
<1>17. ASSUME NEW t \in Threads, RemoveLink(t)
     PROVE  Mapped'
  BY <1>17 DEF RemoveLink, Goto, Rmdir, EndWith, callVars
<1>18. ASSUME NEW t \in Threads, UnmountFails(t)
     PROVE  Mapped'
  BY <1>18 DEF UnmountFails, Goto, EndWith, callVars
<1> HIDE DEF IInv, TypeOK, Exclusion, Busy, Labels, Holding, MountSteps, Returns, Mapped
<1> QED
  BY <1>1, <1>2, <1>3, <1>4, <1>5, <1>6, <1>7, <1>8, <1>9,
     <1>10, <1>11, <1>12, <1>13, <1>14, <1>15, <1>16, <1>17, <1>18
  DEF Next, Step

\* A link and its reference come and go under the mutex, or the volume becomes torn.
LEMMA LinkStep ==
    ASSUME IInv, [Next]_vars
    PROVE  LinkAccounted'
<1> USE MounterAssumption
       DEF IInv, TypeOK, Exclusion, Busy, Labels, Holding, MountSteps, Returns, LinkAccounted, Halfway
<1>1. CASE UNCHANGED vars
  BY <1>1 DEF vars, nodeVars, callVars
<1>2. CASE Restart
  BY <1>2 DEF Restart
<1>3. ASSUME NEW t \in Threads, NEW v \in Volumes, NodeStageVolume(t, v) \/ NodeUnstageVolume(t, v)
     PROVE  LinkAccounted'
  BY <1>3 DEF NodeStageVolume, NodeUnstageVolume, TryAcquire, Goto, nodeVars
<1>4. ASSUME NEW t \in Threads, Answer(t)
     PROVE  LinkAccounted'
  BY <1>4 DEF Answer, Goto, nodeVars
<1>5. ASSUME NEW t \in Threads, Timeout(t)
     PROVE  LinkAccounted'
  BY <1>5 DEF Timeout, nodeVars
<1>6. ASSUME NEW t \in Threads, DetachedEnds(t)
     PROVE  LinkAccounted'
  BY <1>6 DEF DetachedEnds, Goto, nodeVars
<1>7. ASSUME NEW t \in Threads, Lock(t)
     PROVE  LinkAccounted'
  BY <1>7 DEF Lock, Goto, nodeVars, callVars
<1>8. ASSUME NEW t \in Threads, \/ Fails(t) \/ EnsureMountPoint(t) \/ AlreadyMounted(t)
                                \/ Readlink(t) \/ ReadlinkFails(t) \/ Count(t) \/ CountFails(t)
     PROVE  LinkAccounted'
  BY <1>8
  DEF Fails, EnsureMountPoint, AlreadyMounted, Readlink, ReadlinkFails, Count, CountFails,
      Goto, nodeVars, callVars
<1>9. ASSUME NEW t \in Threads, UnmountBad(t) \/ MakeDir(t) \/ PrepareStagePath(t) \/ RemovePath(t)
     PROVE  LinkAccounted'
  BY <1>9 DEF UnmountBad, MakeDir, PrepareStagePath, RemovePath, Goto, Rmdir, callVars
<1>10. ASSUME NEW t \in Threads, NewSmbGlobalMapping(t)
     PROVE  LinkAccounted'
  BY <1>10 DEF NewSmbGlobalMapping, Goto, callVars
<1>11. ASSUME NEW t \in Threads, MappingFails(t)
     PROVE  LinkAccounted'
  BY <1>11 DEF MappingFails, Goto, EndWith, callVars
<1>12. ASSUME NEW t \in Threads, AddRef(t)
     PROVE  LinkAccounted'
  BY <1>12 DEF AddRef, Goto, EndWith, callVars
<1>13. ASSUME NEW t \in Threads, AddRefFails(t)
     PROVE  LinkAccounted'
  BY <1>13 DEF AddRefFails, Goto, EndWith, callVars
<1>14. ASSUME NEW t \in Threads, Decrement(t)
     PROVE  LinkAccounted'
  BY <1>14 DEF Decrement, Goto, callVars
<1>15. ASSUME NEW t \in Threads, DecrementFails(t)
     PROVE  LinkAccounted'
  BY <1>15 DEF DecrementFails, Goto, EndWith, nodeVars, callVars
<1>16. ASSUME NEW t \in Threads, RemoveSmbGlobalMapping(t)
     PROVE  LinkAccounted'
  BY <1>16 DEF RemoveSmbGlobalMapping, Goto, callVars
<1>17. ASSUME NEW t \in Threads, RemoveLink(t)
     PROVE  LinkAccounted'
  BY <1>17 DEF RemoveLink, Goto, Rmdir, EndWith, callVars
<1>18. ASSUME NEW t \in Threads, UnmountFails(t)
     PROVE  LinkAccounted'
  BY <1>18 DEF UnmountFails, Goto, EndWith, callVars
<1> HIDE DEF IInv, TypeOK, Exclusion, Busy, Labels, Holding, MountSteps, Returns, LinkAccounted, Halfway
<1> QED
  BY <1>1, <1>2, <1>3, <1>4, <1>5, <1>6, <1>7, <1>8, <1>9,
     <1>10, <1>11, <1>12, <1>13, <1>14, <1>15, <1>16, <1>17, <1>18
  DEF Next, Step

\* Only the call that holds the lock of a volume removes its path.
LEMMA StagedStep ==
    ASSUME IInv, [Next]_vars
    PROVE  StagedHasLink'
<1> USE MounterAssumption
       DEF IInv, TypeOK, Exclusion, Busy, Labels, Holding, MountSteps, Returns, StagedHasLink
<1>1. CASE UNCHANGED vars
  BY <1>1 DEF vars, nodeVars, callVars
<1>2. CASE Restart
  BY <1>2 DEF Restart
<1>3. ASSUME NEW t \in Threads, NEW v \in Volumes, NodeStageVolume(t, v) \/ NodeUnstageVolume(t, v)
     PROVE  StagedHasLink'
  BY <1>3 DEF NodeStageVolume, NodeUnstageVolume, TryAcquire, Goto, nodeVars
<1>4. ASSUME NEW t \in Threads, Answer(t)
     PROVE  StagedHasLink'
  BY <1>4 DEF Answer, Goto, nodeVars
<1>5. ASSUME NEW t \in Threads, Timeout(t)
     PROVE  StagedHasLink'
  BY <1>5 DEF Timeout, nodeVars
<1>6. ASSUME NEW t \in Threads, DetachedEnds(t)
     PROVE  StagedHasLink'
  BY <1>6 DEF DetachedEnds, Goto, nodeVars
<1>7. ASSUME NEW t \in Threads, Lock(t)
     PROVE  StagedHasLink'
  BY <1>7 DEF Lock, Goto, nodeVars, callVars
<1>8. ASSUME NEW t \in Threads, \/ Fails(t) \/ EnsureMountPoint(t) \/ AlreadyMounted(t)
                                \/ Readlink(t) \/ ReadlinkFails(t) \/ Count(t) \/ CountFails(t)
     PROVE  StagedHasLink'
  BY <1>8
  DEF Fails, EnsureMountPoint, AlreadyMounted, Readlink, ReadlinkFails, Count, CountFails,
      Goto, nodeVars, callVars
<1>9. ASSUME NEW t \in Threads, UnmountBad(t) \/ MakeDir(t) \/ PrepareStagePath(t) \/ RemovePath(t)
     PROVE  StagedHasLink'
  BY <1>9 DEF UnmountBad, MakeDir, PrepareStagePath, RemovePath, Goto, Rmdir, callVars
<1>10. ASSUME NEW t \in Threads, NewSmbGlobalMapping(t)
     PROVE  StagedHasLink'
  BY <1>10 DEF NewSmbGlobalMapping, Goto, callVars
<1>11. ASSUME NEW t \in Threads, MappingFails(t)
     PROVE  StagedHasLink'
  BY <1>11 DEF MappingFails, Goto, EndWith, callVars
<1>12. ASSUME NEW t \in Threads, AddRef(t)
     PROVE  StagedHasLink'
  BY <1>12 DEF AddRef, Goto, EndWith, callVars
<1>13. ASSUME NEW t \in Threads, AddRefFails(t)
     PROVE  StagedHasLink'
  BY <1>13 DEF AddRefFails, Goto, EndWith, callVars
<1>14. ASSUME NEW t \in Threads, Decrement(t)
     PROVE  StagedHasLink'
  BY <1>14 DEF Decrement, Goto, callVars
<1>15. ASSUME NEW t \in Threads, DecrementFails(t)
     PROVE  StagedHasLink'
  BY <1>15 DEF DecrementFails, Goto, EndWith, nodeVars, callVars
<1>16. ASSUME NEW t \in Threads, RemoveSmbGlobalMapping(t)
     PROVE  StagedHasLink'
  BY <1>16 DEF RemoveSmbGlobalMapping, Goto, callVars
<1>17. ASSUME NEW t \in Threads, RemoveLink(t)
     PROVE  StagedHasLink'
  BY <1>17 DEF RemoveLink, Goto, Rmdir, EndWith, callVars
<1>18. ASSUME NEW t \in Threads, UnmountFails(t)
     PROVE  StagedHasLink'
  BY <1>18 DEF UnmountFails, Goto, EndWith, callVars
<1> HIDE DEF IInv, TypeOK, Exclusion, Busy, Labels, Holding, MountSteps, Returns, StagedHasLink
<1> QED
  BY <1>1, <1>2, <1>3, <1>4, <1>5, <1>6, <1>7, <1>8, <1>9,
     <1>10, <1>11, <1>12, <1>13, <1>14, <1>15, <1>16, <1>17, <1>18
  DEF Next, Step

-----------------------------------------------------------------------------

LEMMA Initially == Init => IInv
<1> SUFFICES ASSUME Init PROVE IInv
  OBVIOUS
<1> USE MounterAssumption DEF Init
<1>1. TypeOK
  BY DEF TypeOK, Labels
<1>2. Exclusion
  BY DEF Exclusion, Busy, Holding
<1>3. Mapped /\ LinkAccounted /\ StagedHasLink
  BY DEF Mapped, LinkAccounted, StagedHasLink
<1> QED
  BY <1>1, <1>2, <1>3 DEF IInv

LEMMA Always == Spec => []IInv
<1>1. IInv /\ [Next]_vars => IInv'
  BY TypeStep, ExclusionStep, MappedStep, LinkStep, StagedStep DEF IInv
<1> QED
  BY Initially, <1>1, PTL DEF Spec

\* The variables keep their types.
THEOREM TypeCorrect == Spec => []TypeOK
<1>1. IInv => TypeOK
  BY DEF IInv
<1> QED
  BY <1>1, Always, PTL

\* The share stays mapped while a volume has a reference file, for any number of
\* goroutines and volumes, with failures, timeouts and restarts at every step of SMBMount
\* and SMBUnmount.
THEOREM MappingOutlivesReferences == Spec => []ReferencedIsMapped
<1>1. IInv => ReferencedIsMapped
  BY DEF IInv, Mapped, ReferencedIsMapped
<1> QED
  BY Always, <1>1, PTL

\* A volume that NodeStageVolume has reported as staged keeps its link and the mapping
\* until the next call for it, unless its link and reference were torn apart.
THEOREM StagedStaysMapped == Spec => []StagedIsMapped
<1>1. ASSUME IInv PROVE StagedIsMapped
  <2>1. SUFFICES ASSUME NEW v \in Volumes, told[v] = "staged", v \notin torn
                 PROVE  path[v] = "link" /\ mapping
    BY DEF StagedIsMapped
  <2>2. path[v] = "link" /\ v \notin locks
    BY <1>1, <2>1 DEF IInv, StagedHasLink
  <2>3. CASE v \in refs
    BY <1>1, <2>2, <2>3 DEF IInv, Mapped
  <2>4. CASE \E t \in Threads : vol[t] = v /\ pc[t] \in Halfway
    <3>1. PICK t \in Threads : vol[t] = v /\ pc[t] \in Halfway
      BY <2>4
    <3>2. t \in detached
      BY <1>1, <2>2, <3>1 DEF IInv, Exclusion, Busy, Halfway
    <3>3. pc[t] = "addRef"
      BY <1>1, <3>1, <3>2 DEF IInv, Exclusion, Halfway, MountSteps, Returns
    <3> QED
      BY <1>1, <2>2, <3>3 DEF IInv, Mapped
  <2> QED
    BY <1>1, <2>1, <2>2, <2>3, <2>4 DEF IInv, LinkAccounted
<1> QED
  BY Always, <1>1, PTL
\* A staging path whose lock is free is touched by a detached goroutine or not at all.
LEMMA PathStep ==
    ASSUME IInv, [Next]_vars, NEW v \in Volumes, v \notin locks, path'[v] # path[v]
    PROVE  /\ path[v] = "none" /\ path'[v] = "link"
           /\ \E t \in detached : vol[t] = v
<1> USE DEF IInv, TypeOK, Exclusion, Busy, MountSteps, Returns
<1>1. ASSUME NEW t \in Threads,
             UnmountBad(t) \/ MakeDir(t) \/ PrepareStagePath(t) \/ RemovePath(t) \/ RemoveLink(t)
      PROVE  vol[t] \in locks /\ \A w \in Volumes \ {vol[t]} : path'[w] = path[w]
  BY <1>1 DEF UnmountBad, MakeDir, PrepareStagePath, RemovePath, RemoveLink, Rmdir
<1>2. ASSUME NEW t \in Threads, NewSmbGlobalMapping(t), v = vol[t]
      PROVE  path[v] = "none" /\ path'[v] = "link" /\ t \in detached
  BY <1>2 DEF NewSmbGlobalMapping
<1>3. ASSUME NEW t \in Threads, NewSmbGlobalMapping(t), v # vol[t]
      PROVE  path'[v] = path[v]
  BY <1>3 DEF NewSmbGlobalMapping
<1>4. ASSUME NEW t \in Threads,
             \/ Answer(t) \/ Timeout(t) \/ DetachedEnds(t) \/ Fails(t) \/ Lock(t)
             \/ EnsureMountPoint(t) \/ AlreadyMounted(t) \/ MappingFails(t) \/ AddRef(t) \/ AddRefFails(t)
             \/ Readlink(t) \/ ReadlinkFails(t) \/ Decrement(t) \/ DecrementFails(t)
             \/ Count(t) \/ CountFails(t) \/ RemoveSmbGlobalMapping(t) \/ UnmountFails(t)
      PROVE  UNCHANGED path
  BY <1>4 DEF Answer, Timeout, DetachedEnds, Fails, Lock, EnsureMountPoint, AlreadyMounted,
     MappingFails, AddRef, AddRefFails, Readlink, ReadlinkFails, Decrement, DecrementFails,
     Count, CountFails, RemoveSmbGlobalMapping, UnmountFails, nodeVars
<1>5. ASSUME NEW t \in Threads, NEW w \in Volumes, NodeStageVolume(t, w) \/ NodeUnstageVolume(t, w)
      PROVE  UNCHANGED path
  BY <1>5 DEF NodeStageVolume, NodeUnstageVolume, TryAcquire, nodeVars
<1>6. Restart \/ UNCHANGED vars => UNCHANGED path
  BY DEF Restart, vars
<1> HIDE DEF IInv, TypeOK, Exclusion, Busy, MountSteps, Returns
<1> QED
  BY <1>1, <1>2, <1>3, <1>4, <1>5, <1>6 DEF Next, Step

\* Between two calls for a volume only an SMBMount that outlived its request touches the
\* staging path, and all it does is to make the link where nothing was: for any number of
\* goroutines and volumes, whatever fails, times out or restarts.
THEOREM QuietBetweenCalls == Spec => BetweenCalls
<1> DEFINE Quiet == \A v \in Volumes : v \notin locks /\ path'[v] # path[v] =>
                       /\ path[v] = "none" /\ path'[v] = "link"
                       /\ \E t \in detached : vol[t] = v
<1>1. IInv /\ [Next]_vars => [Quiet]_vars
  BY PathStep
<1>2. [][Next]_vars /\ []IInv => [][Quiet]_vars
  BY <1>1, PTL
<1> QED
  BY <1>2, Always, PTL DEF Spec, BetweenCalls
=============================================================================
