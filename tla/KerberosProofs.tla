-------------------------- MODULE KerberosProofs ---------------------------
(***************************************************************************)
(* Proofs about the Kerberos ticket cache of NodeStaging.  The links       *)
(* krb5cc_<uid> are shared by all volumes and no lock protects them, so    *)
(* the argument is about which links a call may touch: those of its own    *)
(* cruid, and those that pointed to its own ticket file.                   *)
(***************************************************************************)
EXTENDS NodeStagingProofs

\* No other volume has the cruid of v.
Exclusive(v) ==
    /\ KrbUid[v] # NoUid
    /\ \A w \in Volumes \ {v} : KrbUid[w] # KrbUid[v]

LinkSteps == {"krbStat", "krbRemove", "krbSymlink"}
LinkedSteps == {"mkdir", "checkMount", "readDir", "unmountBad", "mounting", "staged"}

OwnInv ==
    /\ \A u \in Uids : link[u] # NoVolume => KrbUid[link[u]] = u
    /\ \A t \in Threads, u \in Uids :
          u \in found[t] => pc[t] = "krbUnlink" /\ KrbUid[vol[t]] = u
    /\ \A t \in Threads : pc[t] \in LinkSteps => KrbUid[vol[t]] # NoUid /\ vol[t] \in cache
    /\ \A t \in Threads : pc[t] \in LinkedSteps /\ Exclusive(vol[t])
          => link[KrbUid[vol[t]]] = vol[t] /\ vol[t] \in cache
    /\ OwnTicketServed

LEMMA OwnInit == Init => OwnInv
BY DEF Init, OwnInv, OwnTicketServed, LinkSteps, LinkedSteps

\* The steps of a call change the ticket files of its own volume only, and the links
\* only under its own cruid.
LEMMA KrbEffects ==
    ASSUME LockInv, OwnInv, NEW t \in Threads, Step(t) \/ MountDone(t), ~Return(t)
    PROVE  /\ \A v \in Volumes \ {vol[t]} : v \in cache' <=> v \in cache
           /\ \A u \in Uids : u # KrbUid[vol[t]] => link'[u] = link[u]
           /\ \A s \in Threads \ {t} : found'[s] = found[s]
<1>1. TypeOK
  BY DEF LockInv, TypeInv
<1>2. CASE UNCHANGED krbVars
  BY <1>2 DEF krbVars
<1>3. CASE KrbWrite(t) \/ KrbRmFile(t)
  BY <1>3 DEF KrbWrite, KrbRmFile
<1>4. CASE KrbRemove(t) \/ KrbSymlink(t)
  BY <1>1, <1>4 DEF KrbRemove, KrbSymlink, TypeOK
<1>5. CASE KrbScan(t)
  BY <1>1, <1>5 DEF KrbScan, TypeOK
<1>6. CASE KrbUnlink(t)
  <2>1. \A u \in Uids : u \notin found[t] => link'[u] = link[u]
    BY <1>6 DEF KrbUnlink
  <2>2. \A u \in found[t] : KrbUid[vol[t]] = u
    BY <1>1 DEF OwnInv, TypeOK
  <2> QED
    BY <1>1, <1>6, <2>1, <2>2 DEF KrbUnlink, TypeOK
<1> QED
  BY <1>2, <1>3, <1>4, <1>5, <1>6
  DEF Step, Fails, KrbSkip, KrbStat, Mkdir, AlreadyMounted, NotMounted, ReadDir, UnmountBad,
      MountDone, MountTimeout, PathGone, PathExists, UnmountPath, NotMnt, RemovePath, KrbNothing,
      krbVars

\* What a step of t establishes about its own volume.
LEMMA OwnStep ==
    ASSUME LockInv, OwnInv, NEW t \in Threads, Step(t) \/ MountDone(t), ~Return(t)
    PROVE  /\ \A u \in Uids : link'[u] # NoVolume => KrbUid[link'[u]] = u
           /\ \A u \in Uids : u \in found'[t] => pc'[t] = "krbUnlink" /\ KrbUid[vol[t]] = u
           /\ pc'[t] \in LinkSteps => KrbUid[vol[t]] # NoUid /\ vol[t] \in cache'
           /\ pc'[t] \in LinkedSteps /\ Exclusive(vol[t])
                 => link'[KrbUid[vol[t]]] = vol[t] /\ vol[t] \in cache'
<1>1. TypeOK /\ Moves(t) /\ vol[t] \in Volumes
  BY StepMoves, CallTypes DEF LockInv, TypeInv, Moves
<1>2. KrbUid \in [Volumes -> Uids \cup {NoUid}] /\ NoUid \notin Uids /\ NoVolume \notin Volumes
  BY ConstantsAssumption
<1>3. /\ \A u \in Uids : link[u] # NoVolume => KrbUid[link[u]] = u
      /\ \A u \in Uids : u \in found[t] => pc[t] = "krbUnlink" /\ KrbUid[vol[t]] = u
      /\ pc[t] \in LinkSteps => KrbUid[vol[t]] # NoUid /\ vol[t] \in cache
      /\ pc[t] \in LinkedSteps /\ Exclusive(vol[t])
            => link[KrbUid[vol[t]]] = vol[t] /\ vol[t] \in cache
  BY DEF OwnInv
<1> USE <1>1, <1>2, <1>3 DEF Goto, LinkSteps, LinkedSteps, TypeOK
<1>4. CASE KrbSkip(t)
  BY <1>4 DEF KrbSkip, krbVars, Exclusive
<1>5. CASE KrbWrite(t) \/ KrbStat(t)
  BY <1>5 DEF KrbWrite, KrbStat, krbVars
<1>6. CASE KrbRemove(t)
  BY <1>6 DEF KrbRemove
<1>7. CASE KrbSymlink(t)
  BY <1>7 DEF KrbSymlink
<1>8. CASE Fails(t)
  BY <1>8 DEF Fails, Fallible
<1>9. CASE Mkdir(t) \/ AlreadyMounted(t) \/ NotMounted(t) \/ ReadDir(t) \/ UnmountBad(t)
  BY <1>9 DEF Mkdir, AlreadyMounted, NotMounted, ReadDir, UnmountBad, krbVars
<1>10. CASE MountDone(t) \/ MountTimeout(t)
  BY <1>10 DEF MountDone, MountTimeout, krbVars
<1>11. CASE PathGone(t) \/ PathExists(t) \/ UnmountPath(t) \/ NotMnt(t) \/ RemovePath(t)
  BY <1>11 DEF PathGone, PathExists, UnmountPath, NotMnt, RemovePath, krbVars
<1>12. CASE KrbNothing(t) \/ KrbRmFile(t)
  BY <1>12 DEF KrbNothing, KrbRmFile, krbVars
<1>13. CASE KrbScan(t)
  BY <1>13 DEF KrbScan
<1>14. CASE KrbUnlink(t)
  BY <1>14 DEF KrbUnlink
<1> QED
  BY <1>4, <1>5, <1>6, <1>7, <1>8, <1>9, <1>10, <1>11, <1>12, <1>13, <1>14 DEF Step

LEMMA OwnNext == LockInv /\ OwnInv /\ [Next]_vars => OwnInv'
<1> SUFFICES ASSUME LockInv, OwnInv, [Next]_vars
             PROVE  OwnInv'
  OBVIOUS
<1>1. TypeOK /\ VolOK
  BY DEF LockInv, TypeInv
<1>2. ASSUME NEW t \in Threads, Step(t) \/ MountDone(t), ~Return(t)
      PROVE  OwnInv'
  <2>1. Moves(t) /\ vol[t] \in Volumes /\ told[vol[t]] = "nothing"
    BY <1>1, <1>2, StepMoves, CallTypes DEF LockInv, InCall, Moves
  <2>2. \A s \in Threads \ {t} : /\ pc'[s] = pc[s] /\ vol'[s] = vol[s]
                                 /\ pc[s] # "idle" => vol[s] \in Volumes \ {vol[t]}
    BY <1>1, <2>1, CallTypes DEF LockInv, LocksAreHeld, Moves, TypeOK
  <2>3. /\ \A w \in Volumes \ {vol[t]} : w \in cache' <=> w \in cache
        /\ \A u \in Uids : u # KrbUid[vol[t]] => link'[u] = link[u]
        /\ \A s \in Threads \ {t} : found'[s] = found[s]
    BY <1>2, KrbEffects
  <2>4. \A w \in Volumes \ {vol[t]} : Exclusive(w) => KrbUid[w] \in Uids /\ KrbUid[w] # KrbUid[vol[t]]
    BY <2>1, ConstantsAssumption DEF Exclusive
  <2>5. /\ \A u \in Uids : link'[u] # NoVolume => KrbUid[link'[u]] = u
        /\ \A u \in Uids : u \in found'[t] => pc'[t] = "krbUnlink" /\ KrbUid[vol[t]] = u
        /\ pc'[t] \in LinkSteps => KrbUid[vol[t]] # NoUid /\ vol[t] \in cache'
        /\ pc'[t] \in LinkedSteps /\ Exclusive(vol[t])
              => link'[KrbUid[vol[t]]] = vol[t] /\ vol[t] \in cache'
    BY <1>2, OwnStep
  <2>6. \A s \in Threads, u \in Uids :
            u \in found'[s] => pc'[s] = "krbUnlink" /\ KrbUid[vol'[s]] = u
    BY <2>1, <2>2, <2>3, <2>5 DEF OwnInv, Moves
  <2>7. \A s \in Threads : pc'[s] \in LinkSteps => KrbUid[vol'[s]] # NoUid /\ vol'[s] \in cache'
    BY <2>1, <2>2, <2>3, <2>5 DEF OwnInv, Moves, LinkSteps
  <2>8. \A s \in Threads : pc'[s] \in LinkedSteps /\ Exclusive(vol'[s])
            => link'[KrbUid[vol'[s]]] = vol'[s] /\ vol'[s] \in cache'
    BY <2>1, <2>2, <2>3, <2>4, <2>5 DEF OwnInv, Moves, LinkedSteps
  <2>9. OwnTicketServed'
    BY <2>1, <2>3, <2>4 DEF OwnInv, OwnTicketServed, Exclusive, Moves
  <2> QED
    BY <2>5, <2>6, <2>7, <2>8, <2>9 DEF OwnInv, Exclusive
<1> USE DEF OwnInv, OwnTicketServed, Exclusive
<1>3. ASSUME NEW t \in Threads, NEW v \in Volumes, Enters(t, v)
      PROVE  OwnInv'
  BY <1>1, <1>3 DEF Enters, NodeStageVolume, NodeUnstageVolume, TryAcquire, Goto, LinkSteps,
                    LinkedSteps, TypeOK
<1>4. ASSUME NEW t \in Threads, Return(t)
      PROVE  OwnInv'
  <2>1. \A s \in Threads \ {t} : vol'[s] = vol[s] /\ pc'[s] = pc[s]
    BY <1>1, <1>4 DEF Return, Goto, TypeOK
  <2>2. pc'[t] = "idle" /\ UNCHANGED <<cache, link, found>>
    BY <1>1, <1>4 DEF Return, Goto, TypeOK
  <2>3. \A v \in Volumes : told'[v] = "staged" => told[v] = "staged" \/ (v = vol[t] /\ pc[t] = "staged")
    BY <1>1, <1>4 DEF Return, TypeOK
  <2>4. OwnTicketServed'
    BY <2>2, <2>3 DEF LinkedSteps
  <2>5. \A u \in Uids : u \notin found[t]
    BY <1>4 DEF Return, Returns
  <2> QED
    BY <2>1, <2>2, <2>4, <2>5 DEF LinkSteps, LinkedSteps
<1>5. CASE Restart
  BY <1>5 DEF Restart, LinkSteps, LinkedSteps
<1>6. CASE UNCHANGED vars \/ \E v \in Volumes : LateMount(v) \/ ShareChanges(v)
  BY <1>6 DEF vars, LateMount, ShareChanges, krbVars, callVars
<1> QED
  BY <1>2, <1>3, <1>4, <1>5, <1>6 DEF Next, Enters

\* A staged Kerberos volume that has its cruid to itself finds its own ticket under
\* krb5cc_<cruid>, whatever the calls for other volumes do and whichever operations on
\* the ticket directory fail.
THEOREM TicketOfExclusiveUid == Spec => []OwnTicketServed
<1>1. Spec => [](LockInv /\ OwnInv)
  BY LockInit, LockNext, OwnInit, OwnNext, PTL DEF Spec
<1>2. OwnInv => OwnTicketServed
  BY DEF OwnInv
<1> QED
  BY <1>1, <1>2, PTL

-----------------------------------------------------------------------------
(* Cleaning up, when the operations on the ticket directory do not fail.   *)

CleanInv ==
    /\ LinksLeadToTickets
    /\ \A t \in Threads : pc[t] = "krbUnlink" => \A u \in Uids : link[u] = vol[t] => u \in found[t]
    /\ \A t \in Threads : pc[t] = "krbRmFile" => \A u \in Uids : link[u] # vol[t]
    /\ \A t \in Threads : pc[t] = "unstaged" => vol[t] \notin cache
    /\ UnstagedHasNoTicket

LEMMA CleanInit == Init => CleanInv
BY DEF Init, CleanInv, LinksLeadToTickets, UnstagedHasNoTicket

\* A step of t makes a link point to no volume but its own, and what it knows about its
\* own ticket file when it moves on is true.
LEMMA CleanStep ==
    ASSUME ~KrbFaults, LockInv, OwnInv, CleanInv,
           NEW t \in Threads, Step(t) \/ MountDone(t), ~Return(t)
    PROVE  /\ \A u \in Uids : link'[u] \in {link[u], NoVolume, vol[t]}
           /\ \A u \in Uids : link'[u] = vol[t] => vol[t] \in cache'
           /\ pc'[t] = "krbUnlink" => \A u \in Uids : link'[u] = vol[t] => u \in found'[t]
           /\ pc'[t] = "krbRmFile" => \A u \in Uids : link'[u] # vol[t]
           /\ pc'[t] = "unstaged" => vol[t] \notin cache'
<1>1. TypeOK /\ Moves(t) /\ vol[t] \in Volumes
  BY StepMoves, CallTypes DEF LockInv, TypeInv, Moves
<1>2. NoVolume \notin Volumes
  BY ConstantsAssumption
<1>3. /\ \A u \in Uids : link[u] = vol[t] => vol[t] \in cache
      /\ pc[t] = "krbUnlink" => \A u \in Uids : link[u] = vol[t] => u \in found[t]
      /\ pc[t] = "krbRmFile" => \A u \in Uids : link[u] # vol[t]
      /\ pc[t] \in LinkSteps => vol[t] \in cache
  BY <1>1, <1>2 DEF CleanInv, LinksLeadToTickets, OwnInv
<1> USE <1>1, <1>2, <1>3 DEF Goto, LinkSteps, TypeOK
<1>4. CASE KrbWrite(t)
  BY <1>4 DEF KrbWrite
<1>5. CASE KrbSkip(t) \/ KrbStat(t)
  BY <1>5 DEF KrbSkip, KrbStat, krbVars
<1>6. CASE KrbRemove(t) \/ KrbSymlink(t)
  BY <1>6 DEF KrbRemove, KrbSymlink
<1>7. CASE Fails(t)
  BY <1>7 DEF Fails
<1>8. CASE Mkdir(t) \/ AlreadyMounted(t) \/ NotMounted(t) \/ ReadDir(t) \/ UnmountBad(t)
  BY <1>8 DEF Mkdir, AlreadyMounted, NotMounted, ReadDir, UnmountBad, krbVars
<1>9. CASE MountDone(t) \/ MountTimeout(t)
  BY <1>9 DEF MountDone, MountTimeout, krbVars
<1>10. CASE PathGone(t) \/ PathExists(t) \/ UnmountPath(t) \/ NotMnt(t) \/ RemovePath(t)
  BY <1>10 DEF PathGone, PathExists, UnmountPath, NotMnt, RemovePath, krbVars
<1>11. CASE KrbNothing(t)
  BY <1>11 DEF KrbNothing, krbVars
<1>12. CASE KrbScan(t)
  BY <1>12 DEF KrbScan
<1>13. CASE KrbUnlink(t)
  BY <1>13 DEF KrbUnlink
<1>14. CASE KrbRmFile(t)
  BY <1>14 DEF KrbRmFile
<1> QED
  BY <1>4, <1>5, <1>6, <1>7, <1>8, <1>9, <1>10, <1>11, <1>12, <1>13, <1>14 DEF Step

LEMMA CleanNext ==
    ASSUME ~KrbFaults
    PROVE  LockInv /\ OwnInv /\ CleanInv /\ [Next]_vars => CleanInv'
<1> SUFFICES ASSUME LockInv, OwnInv, CleanInv, [Next]_vars
             PROVE  CleanInv'
  OBVIOUS
<1>1. TypeOK /\ VolOK /\ NoVolume \notin Volumes
  BY ConstantsAssumption DEF LockInv, TypeInv
<1>2. ASSUME NEW t \in Threads, Step(t) \/ MountDone(t), ~Return(t)
      PROVE  CleanInv'
  <2>1. Moves(t) /\ vol[t] \in Volumes /\ told[vol[t]] = "nothing"
    BY <1>1, <1>2, StepMoves, CallTypes DEF LockInv, InCall, Moves
  <2>2. \A s \in Threads \ {t} : /\ pc'[s] = pc[s] /\ vol'[s] = vol[s]
                                 /\ pc[s] # "idle" => vol[s] \in Volumes \ {vol[t]}
    BY <1>1, <2>1, CallTypes DEF LockInv, LocksAreHeld, Moves, TypeOK
  <2>3. /\ \A w \in Volumes \ {vol[t]} : w \in cache' <=> w \in cache
        /\ \A s \in Threads \ {t} : found'[s] = found[s]
    BY <1>2, KrbEffects
  <2>4. /\ \A u \in Uids : link'[u] \in {link[u], NoVolume, vol[t]}
        /\ \A u \in Uids : link'[u] = vol[t] => vol[t] \in cache'
        /\ pc'[t] = "krbUnlink" => \A u \in Uids : link'[u] = vol[t] => u \in found'[t]
        /\ pc'[t] = "krbRmFile" => \A u \in Uids : link'[u] # vol[t]
        /\ pc'[t] = "unstaged" => vol[t] \notin cache'
    BY <1>2, CleanStep
  <2>5. \A u \in Uids : link[u] # NoVolume => link[u] \in cache /\ link[u] \in Volumes
    BY <1>1 DEF CleanInv, LinksLeadToTickets, TypeOK
  <2>6. LinksLeadToTickets'
    <3>1. \A u \in Uids : link'[u] # NoVolume => link'[u] \in cache'
      BY <2>3, <2>4, <2>5
    <3>2. \A u \in Uids : link'[u] # NoVolume => KrbUid[link'[u]] = u
      BY <1>2, OwnStep
    <3> QED
      BY <3>1, <3>2 DEF LinksLeadToTickets
  <2>7. \A s \in Threads, u \in Uids :
            pc'[s] = "krbUnlink" /\ link'[u] = vol'[s] => u \in found'[s]
    BY <1>1, <2>1, <2>2, <2>3, <2>4 DEF CleanInv, Moves
  <2>8. \A s \in Threads, u \in Uids : pc'[s] = "krbRmFile" => link'[u] # vol'[s]
    BY <1>1, <2>1, <2>2, <2>4 DEF CleanInv, Moves
  <2>9. \A s \in Threads : pc'[s] = "unstaged" => vol'[s] \notin cache'
    BY <2>1, <2>2, <2>3, <2>4 DEF CleanInv, Moves
  <2>10. UnstagedHasNoTicket'
    BY <1>1, <2>1, <2>3, <2>4 DEF CleanInv, UnstagedHasNoTicket, Moves
  <2> QED
    BY <2>6, <2>7, <2>8, <2>9, <2>10 DEF CleanInv
<1> USE DEF CleanInv, LinksLeadToTickets, UnstagedHasNoTicket
<1>3. ASSUME NEW t \in Threads, NEW v \in Volumes, Enters(t, v)
      PROVE  CleanInv'
  BY <1>1, <1>3 DEF Enters, NodeStageVolume, NodeUnstageVolume, TryAcquire, Goto, TypeOK
<1>4. ASSUME NEW t \in Threads, Return(t)
      PROVE  CleanInv'
  <2>1. \A s \in Threads \ {t} : vol'[s] = vol[s] /\ pc'[s] = pc[s]
    BY <1>1, <1>4 DEF Return, Goto, TypeOK
  <2>2. pc'[t] = "idle" /\ UNCHANGED <<cache, link, found>>
    BY <1>1, <1>4 DEF Return, Goto, TypeOK
  <2>3. \A v \in Volumes :
            told'[v] = "unstaged" => told[v] = "unstaged" \/ (v = vol[t] /\ pc[t] = "unstaged")
    BY <1>1, <1>4 DEF Return, TypeOK
  <2>4. \A v \in Volumes : v \notin cache => \A u \in Uids : link[u] # v
    BY <1>1
  <2>5. UnstagedHasNoTicket'
    BY <2>2, <2>3, <2>4
  <2>6. LinksLeadToTickets'
    BY <2>2
  <2>7. /\ \A s \in Threads : pc'[s] = "krbUnlink" => \A u \in Uids : link'[u] = vol'[s] => u \in found'[s]
        /\ \A s \in Threads : pc'[s] = "krbRmFile" => \A u \in Uids : link'[u] # vol'[s]
    BY <2>1, <2>2
  <2>8. \A s \in Threads : pc'[s] = "unstaged" => vol'[s] \notin cache'
    BY <2>1, <2>2
  <2> QED
    BY <2>5, <2>6, <2>7, <2>8
<1>5. CASE Restart
  BY <1>5 DEF Restart
<1>6. CASE UNCHANGED vars \/ \E v \in Volumes : LateMount(v) \/ ShareChanges(v)
  BY <1>6 DEF vars, LateMount, ShareChanges, krbVars, callVars
<1> QED
  BY <1>2, <1>3, <1>4, <1>5, <1>6 DEF Next, Enters

LEMMA CleanHolds ==
    ASSUME ~KrbFaults
    PROVE  Spec => []CleanInv
<1>1. Spec => [](LockInv /\ OwnInv)
  BY LockInit, LockNext, OwnInit, OwnNext, PTL DEF Spec
<1>2. LockInv /\ OwnInv /\ CleanInv /\ [Next]_vars => CleanInv'
  BY CleanNext
<1> QED
  BY <1>1, <1>2, CleanInit, PTL DEF Spec

\* As long as the operations on the ticket directory do not fail, deleteKerberosCache leaves
\* neither the ticket file of an unstaged volume nor a link to it.
THEOREM TicketsCleanedUp ==
    ASSUME ~KrbFaults
    PROVE  Spec => []UnstagedHasNoTicket
<1>1. CleanInv => UnstagedHasNoTicket
  BY DEF CleanInv
<1> QED
  BY <1>1, CleanHolds, PTL

\* As long as the operations on the ticket directory do not fail, no link dangles, so os.Stat
\* and os.Symlink in ensureKerberosCache agree on whether krb5cc_<uid> is there.
THEOREM LinksNeverDangle ==
    ASSUME ~KrbFaults
    PROVE  Spec => []LinksLeadToTickets
<1>1. CleanInv => LinksLeadToTickets
  BY DEF CleanInv
<1> QED
  BY <1>1, CleanHolds, PTL
=============================================================================
