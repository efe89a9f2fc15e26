---------------------------- MODULE NodeStaging ----------------------------
(***************************************************************************)
(* NodeStageVolume and NodeUnstageVolume on a Linux node: the volume lock, *)
(* the Kerberos ticket cache, the staging directory and its mounts, the    *)
(* mount command that may outlive the call that started it, and a restart  *)
(* of the driver.                                                          *)
(*                                                                         *)
(* A volume v stands for its id, its staging path and its ticket file: the *)
(* orchestrator gives each volume one staging path, so the lock key        *)
(* "volumeID-targetPath" is v as well.                                     *)
(*                                                                         *)
(* A step is one system call, or several whose order nothing can observe.  *)
(* Every system call may also fail: Fails is the error return of the step  *)
(* a call is about to take.  A request that is malformed, or that finds    *)
(* the lock taken, returns an error without changing anything: it is a     *)
(* stuttering step.                                                        *)
(***************************************************************************)
EXTENDS Naturals

CONSTANTS
    Threads,        \* goroutines serving requests
    Volumes,        \* volumes handled by this driver
    Uids,           \* the cruid= values of the Kerberos volumes
    NoUid,          \* KrbUid of a volume without sec=krb5
    NoVolume,       \* target of a krb5cc_<uid> link that does not exist
    KrbUid,         \* the cruid of each volume, or NoUid
    Healths,        \* what may happen to a mounted share, see Health
    SafeNotMounted, \* does umount report "not mounted" reliably?
    KrbFaults,      \* may operations on the ticket directory fail?
    CanRestart,     \* may the driver process restart?
    MaxStack,       \* bound: mounts stacked on one staging path
    MaxLate         \* bound: timed-out mount commands still running, per volume

\* A share is readable; or stat works and reading the directory fails; or stat
\* fails with an errno that IsCorruptedMnt knows; or with one it does not.
Health == {"ok", "unreadable", "corrupted", "denied"}

ASSUME ConstantsAssumption ==
    /\ NoVolume \notin Volumes
    /\ NoUid \notin Uids
    /\ KrbUid \in [Volumes -> Uids \cup {NoUid}]
    /\ Healths \subseteq Health
    /\ "ok" \in Healths
    /\ SafeNotMounted \in BOOLEAN
    /\ KrbFaults \in BOOLEAN
    /\ CanRestart \in BOOLEAN
    /\ MaxStack \in Nat
    /\ MaxLate \in Nat

VARIABLES
    \* the node: what survives a restart of the driver
    dir,     \* the staging directory beneath any mount: absent, empty or not
    mnt,     \* how many mounts are stacked on the staging path
    health,  \* health of the topmost mount
    cache,   \* volumes whose ticket file exists
    link,    \* krb5cc_<uid> -> the volume whose ticket file it points to
    \* the driver process
    locks,   \* volumeLocks: the keys in the set
    pc,      \* the step each goroutine is about to take
    vol,     \* the volume of the request it serves, NoVolume when idle
    found,   \* links that deleteKerberosCache saw pointing to its ticket file
    late,    \* mount commands whose caller has timed out
    \* history: the last answer about each volume, "nothing" once a call that
    \* may change the volume has started
    told

pathVars == <<dir, mnt, health>>
krbVars == <<cache, link, found>>
callVars == <<locks, vol, told>>
vars == <<dir, mnt, health, cache, link, locks, pc, vol, found, late, told>>

StageSteps == {"kerberos", "krbStat", "krbRemove", "krbSymlink", "mkdir",
               "checkMount", "readDir", "unmountBad", "mounting"}
UnstageSteps == {"cleanup", "unmountUnchecked", "notMnt", "unmount",
                 "notMntAgain", "rmdir", "krbDelete", "krbUnlink", "krbRmFile"}
Returns == {"staged", "unstaged", "failed"}

Init ==
    /\ dir = [v \in Volumes |-> "none"]
    /\ mnt = [v \in Volumes |-> 0]
    /\ health = [v \in Volumes |-> "ok"]
    /\ cache = {}
    /\ link = [u \in Uids |-> NoVolume]
    /\ locks = {}
    /\ pc = [t \in Threads |-> "idle"]
    /\ vol = [t \in Threads |-> NoVolume]
    /\ found = [t \in Threads |-> {}]
    /\ late = [v \in Volumes |-> 0]
    /\ told = [v \in Volumes |-> "nothing"]

-----------------------------------------------------------------------------
(* The mount table and the directory tree of the node.                     *)

Goto(t, step) == pc' = [pc EXCEPT ![t] = step]

\* stat of the staging path: it crosses into the topmost mount, if there is one.
StatWorks(v) == mnt[v] = 0 \/ health[v] \in {"ok", "unreadable"}

IsCorruptedMnt(v) == mnt[v] > 0 /\ health[v] = "corrupted"

\* os.MkdirAll: nothing to do when the directory is there.
MkdirAll(v) == dir' = [dir EXCEPT ![v] = IF @ = "none" THEN "empty" ELSE @]

\* A successful mount of the share.  Its mount point must exist.  On a path that
\* is already a mount point the kernel refuses it or stacks it on top.
Mount(v) ==
    /\ dir[v] # "none"
    /\ mnt[v] < MaxStack
    /\ mnt' = [mnt EXCEPT ![v] = @ + 1]
    /\ health' = [health EXCEPT ![v] = "ok"]
    /\ UNCHANGED dir

\* Mutant: umount is given the share in place of the path.
UnmountShare(v) ==
    /\ mnt[v] > 0
    /\ mnt' = [w \in Volumes |-> 0]
    /\ UNCHANGED <<health, dir>>

\* A successful umount takes the topmost mount away and uncovers the one beneath,
\* whatever its health.  Without a mount the command fails, and the mounter takes
\* that for a success when it trusts the "not mounted" message of umount.
Unmount(v) ==
    \/ /\ mnt[v] > 0
       /\ mnt' = [mnt EXCEPT ![v] = @ - 1]
       /\ \E h \in IF mnt[v] = 1 THEN {"ok"} ELSE Healths :
              health' = [health EXCEPT ![v] = h]
       /\ UNCHANGED dir
    \/ /\ mnt[v] = 0
       /\ SafeNotMounted
       /\ UNCHANGED pathVars

\* os.Remove of the staging directory: refused on a mount point (EBUSY) and on a
\* directory with entries (ENOTEMPTY).
Rmdir(v) ==
    /\ mnt[v] = 0
    /\ dir[v] # "full"
    /\ dir' = [dir EXCEPT ![v] = "none"]
    /\ UNCHANGED <<mnt, health>>

-----------------------------------------------------------------------------
(* Entering and leaving a call.                                            *)

\* Mutant: the key is made of something other than the volume.
TryAcquireWrongKey(t, v) ==
    /\ t \notin locks
    /\ locks' = locks \cup {t}
    /\ vol' = [vol EXCEPT ![t] = v]
    /\ told' = [told EXCEPT ![v] = "nothing"]

\* volumeLocks.TryAcquire(lockKey), the first thing a well-formed call does.
TryAcquire(t, v) ==
    /\ v \notin locks
    /\ locks' = locks \cup {v}
    /\ vol' = [vol EXCEPT ![t] = v]
    /\ told' = [told EXCEPT ![v] = "nothing"]

\* Mutant: an error return leaves the key behind.
ReturnKeepsLock(t) ==
    /\ pc[t] \in Returns
    /\ locks' = IF pc[t] = "failed" THEN locks ELSE locks \ {vol[t]}
    /\ told' = [told EXCEPT ![vol[t]] = IF pc[t] = "failed" THEN "nothing" ELSE pc[t]]
    /\ vol' = [vol EXCEPT ![t] = NoVolume]
    /\ Goto(t, "idle")
    /\ UNCHANGED <<dir, mnt, health, cache, link, found, late>>

\* The deferred volumeLocks.Release(lockKey), and the answer to the caller.
Return(t) ==
    /\ pc[t] \in Returns
    /\ locks' = locks \ {vol[t]}
    /\ told' = [told EXCEPT ![vol[t]] = IF pc[t] = "failed" THEN "nothing" ELSE pc[t]]
    /\ vol' = [vol EXCEPT ![t] = NoVolume]
    /\ Goto(t, "idle")
    /\ UNCHANGED <<dir, mnt, health, cache, link, found, late>>

\* The steps whose error makes the call return an error at once.  The others
\* ignore or only log the errors of their system calls.
Fallible == {"kerberos", "krbSymlink", "mkdir", "checkMount", "unmountBad", "cleanup",
             "unmountUnchecked", "notMnt", "unmount", "notMntAgain", "rmdir", "krbDelete"}

Fails(t) ==
    /\ pc[t] \in Fallible
    /\ Goto(t, "failed")
    /\ UNCHANGED <<dir, mnt, health, cache, link, locks, vol, found, late, told>>

-----------------------------------------------------------------------------
(* NodeStageVolume.                                                        *)

NodeStageVolume(t, v) ==
    /\ pc[t] = "idle"
    /\ late[v] < MaxLate
    /\ TryAcquire(t, v)
    /\ Goto(t, "kerberos")
    /\ UNCHANGED <<dir, mnt, health, cache, link, found, late>>

\* ensureKerberosCache: nothing to do for a volume without sec=krb5.
KrbSkip(t) ==
    /\ pc[t] = "kerberos"
    /\ KrbUid[vol[t]] = NoUid
    /\ Goto(t, "mkdir")
    /\ UNCHANGED <<pathVars, krbVars, callVars, late>>

\* ensureKerberosCache writes the ticket file of the volume.  A failing chown
\* leaves the file behind.
KrbWrite(t) ==
    /\ pc[t] = "kerberos"
    /\ KrbUid[vol[t]] # NoUid
    /\ cache' = cache \cup {vol[t]}
    /\ \E step \in {"krbStat", "failed"} : Goto(t, step)
    /\ UNCHANGED <<pathVars, link, found, callVars, late>>

\* os.Stat of krb5cc_<uid> follows the link, so a dangling link looks absent.  Any
\* error but ENOENT is taken for a link to remove.
KrbStat(t) ==
    /\ pc[t] = "krbStat"
    /\ \/ Goto(t, IF link[KrbUid[vol[t]]] \in cache THEN "krbRemove" ELSE "krbSymlink")
       \/ KrbFaults /\ Goto(t, "krbRemove")
    /\ UNCHANGED <<pathVars, krbVars, callVars, late>>

\* An error of os.Remove is only logged.
KrbRemove(t) ==
    /\ pc[t] = "krbRemove"
    /\ \/ link' = [link EXCEPT ![KrbUid[vol[t]]] = NoVolume]
       \/ KrbFaults /\ UNCHANGED link
    /\ Goto(t, "krbSymlink")
    /\ UNCHANGED <<pathVars, cache, found, callVars, late>>

\* os.Symlink does not replace what is there: then only Fails is possible.
KrbSymlink(t) ==
    /\ pc[t] = "krbSymlink"
    /\ link[KrbUid[vol[t]]] = NoVolume
    /\ link' = [link EXCEPT ![KrbUid[vol[t]]] = vol[t]]
    /\ Goto(t, "mkdir")
    /\ UNCHANGED <<pathVars, cache, found, callVars, late>>

\* MkdirAll cannot see a directory that it cannot stat, and fails.
Mkdir(t) ==
    /\ pc[t] = "mkdir"
    /\ StatWorks(vol[t])
    /\ MkdirAll(vol[t])
    /\ Goto(t, "checkMount")
    /\ UNCHANGED <<mnt, health, krbVars, callVars, late>>

\* ensureMountPoint, as far as the decision whether the path is a mount point:
\* the mount is there, or its stat fails as that of a corrupted mount does.
AlreadyMounted(t) ==
    /\ pc[t] = "checkMount"
    /\ mnt[vol[t]] > 0
    /\ StatWorks(vol[t]) \/ IsCorruptedMnt(vol[t])
    /\ Goto(t, "readDir")
    /\ UNCHANGED <<pathVars, krbVars, callVars, late>>

\* ensureMountPoint, path not mounted: makeDir, and the mount command is started.
NotMounted(t) ==
    /\ pc[t] = "checkMount"
    /\ mnt[vol[t]] = 0
    /\ MkdirAll(vol[t])
    /\ Goto(t, "mounting")
    /\ UNCHANGED <<mnt, health, krbVars, callVars, late>>

\* ensureMountPoint tests the mount by reading one entry of the directory.
ReadDir(t) ==
    /\ pc[t] = "readDir"
    /\ Goto(t, IF mnt[vol[t]] > 0 /\ health[vol[t]] # "ok" THEN "unmountBad" ELSE "staged")
    /\ UNCHANGED <<pathVars, krbVars, callVars, late>>

\* ensureMountPoint unmounts what it cannot read and returns the error of the
\* read: the call fails, and a later one mounts again.
UnmountBad(t) ==
    /\ pc[t] = "unmountBad"
    /\ Unmount(vol[t])
    /\ Goto(t, "failed")
    /\ UNCHANGED <<krbVars, callVars, late>>

\* WaitUntilTimeout, the mount command ends before the caller gives up, with or without
\* a mount.  When the timer has fired as well, select takes either of the two.
MountDone(t) ==
    /\ pc[t] = "mounting"
    /\ \/ Mount(vol[t]) /\ \E step \in {"staged", "failed"} : Goto(t, step)
       \/ UNCHANGED pathVars /\ Goto(t, "failed")
    /\ UNCHANGED <<krbVars, callVars, late>>

\* Mutant: the caller takes the end of the wait for the end of the mount.
MountTimeoutIgnored(t) ==
    /\ pc[t] = "mounting"
    /\ late' = [late EXCEPT ![vol[t]] = @ + 1]
    /\ Goto(t, "staged")
    /\ UNCHANGED <<pathVars, krbVars, callVars>>

\* Mutant: the caller waits for the mount command without a timer.
MountWithoutTimeout(t) ==
    FALSE /\ UNCHANGED vars

\* WaitUntilTimeout, the timer: the call fails and releases the lock, and the
\* goroutine that runs the mount command goes on.
MountTimeout(t) ==
    /\ pc[t] = "mounting"
    /\ late' = [late EXCEPT ![vol[t]] = @ + 1]
    /\ Goto(t, "failed")
    /\ UNCHANGED <<pathVars, krbVars, callVars>>

\* A mount command whose caller has gone ends, with or without a mount.
LateMount(v) ==
    /\ late[v] > 0
    /\ late' = [late EXCEPT ![v] = @ - 1]
    /\ Mount(v) \/ UNCHANGED pathVars
    /\ UNCHANGED <<krbVars, pc, callVars>>

-----------------------------------------------------------------------------
(* NodeUnstageVolume.                                                      *)

NodeUnstageVolume(t, v) ==
    /\ pc[t] = "idle"
    /\ TryAcquire(t, v)
    /\ Goto(t, "cleanup")
    /\ UNCHANGED <<dir, mnt, health, cache, link, found, late>>

\* CleanupMountPoint: done when the path does not exist.
PathGone(t) ==
    /\ pc[t] = "cleanup"
    /\ dir[vol[t]] = "none"
    /\ Goto(t, "krbDelete")
    /\ UNCHANGED <<pathVars, krbVars, callVars, late>>

\* CleanupMountPoint looks for a mount first, unless the mount is corrupted or
\* umount can be trusted to say that there is none.
PathExists(t) ==
    /\ pc[t] = "cleanup"
    /\ dir[vol[t]] # "none"
    /\ StatWorks(vol[t]) \/ IsCorruptedMnt(vol[t])
    /\ Goto(t, IF SafeNotMounted \/ IsCorruptedMnt(vol[t]) THEN "unmountUnchecked"
                                                           ELSE "notMnt")
    /\ UNCHANGED <<pathVars, krbVars, callVars, late>>

\* doCleanupMountPoint, the unmount of either branch.
UnmountPath(t) ==
    /\ pc[t] \in {"unmountUnchecked", "unmount"}
    /\ Unmount(vol[t])
    /\ Goto(t, IF pc[t] = "unmount" THEN "notMntAgain" ELSE "rmdir")
    /\ UNCHANGED <<krbVars, callVars, late>>

\* Mutant: a path that is still mounted after the unmount is let pass.
NotMntOnce(t) ==
    /\ pc[t] \in {"notMnt", "notMntAgain"}
    /\ StatWorks(vol[t])
    /\ Goto(t, IF mnt[vol[t]] = 0 THEN "rmdir"
               ELSE IF pc[t] = "notMnt" THEN "unmount" ELSE "krbDelete")
    /\ UNCHANGED <<pathVars, krbVars, callVars, late>>

\* removePathIfNotMountPoint, the check.  A path that is still mounted after the
\* unmount is an error: then only Fails is possible.
NotMnt(t) ==
    /\ \/ pc[t] = "notMnt"
       \/ pc[t] = "notMntAgain" /\ mnt[vol[t]] = 0
    /\ StatWorks(vol[t])
    /\ Goto(t, IF mnt[vol[t]] = 0 THEN "rmdir" ELSE "unmount")
    /\ UNCHANGED <<pathVars, krbVars, callVars, late>>

\* removePathIfNotMountPoint and removePath, the removal of the directory.
RemovePath(t) ==
    /\ pc[t] = "rmdir"
    /\ Rmdir(vol[t])
    /\ Goto(t, "krbDelete")
    /\ UNCHANGED <<krbVars, callVars, late>>

\* deleteKerberosCache: nothing to do without a ticket file.  Any error of the stat
\* of the ticket directory is taken for "not supported" as well.
KrbNothing(t) ==
    /\ pc[t] = "krbDelete"
    /\ vol[t] \notin cache \/ KrbFaults
    /\ Goto(t, "unstaged")
    /\ UNCHANGED <<pathVars, krbVars, callVars, late>>

\* Mutant: the target of the link is not compared with the ticket file.
KrbScanAll(t) ==
    /\ pc[t] = "krbDelete"
    /\ vol[t] \in cache
    /\ found' = [found EXCEPT ![t] = {u \in Uids : link[u] # NoVolume}]
    /\ Goto(t, "krbUnlink")
    /\ UNCHANGED <<pathVars, cache, link, callVars, late>>

\* deleteKerberosCache looks for the links to the ticket file of the volume.
KrbScan(t) ==
    /\ pc[t] = "krbDelete"
    /\ vol[t] \in cache
    /\ found' = [found EXCEPT ![t] = {u \in Uids : link[u] = vol[t]}]
    /\ Goto(t, "krbUnlink")
    /\ UNCHANGED <<pathVars, cache, link, callVars, late>>

\* Mutant: the links are not removed.
KrbUnlinkNothing(t) ==
    /\ pc[t] = "krbUnlink"
    /\ found' = [found EXCEPT ![t] = {}]
    /\ Goto(t, "krbRmFile")
    /\ UNCHANGED <<pathVars, cache, link, callVars, late>>

\* It removes them by name, whatever they point to by now.  Errors are logged.
KrbUnlink(t) ==
    /\ pc[t] = "krbUnlink"
    /\ \E gone \in IF KrbFaults THEN SUBSET found[t] ELSE {found[t]} :
          link' = [u \in Uids |-> IF u \in gone THEN NoVolume ELSE link[u]]
    /\ found' = [found EXCEPT ![t] = {}]
    /\ Goto(t, "krbRmFile")
    /\ UNCHANGED <<pathVars, cache, callVars, late>>

\* Mutant: the ticket file is not removed.
KrbKeepFile(t) ==
    /\ pc[t] = "krbRmFile"
    /\ Goto(t, "unstaged")
    /\ UNCHANGED <<pathVars, krbVars, callVars, late>>

\* It removes the ticket file.  An error is logged, and the call succeeds.
KrbRmFile(t) ==
    /\ pc[t] = "krbRmFile"
    /\ \/ cache' = cache \ {vol[t]}
       \/ KrbFaults /\ UNCHANGED cache
    /\ Goto(t, "unstaged")
    /\ UNCHANGED <<pathVars, link, found, callVars, late>>

-----------------------------------------------------------------------------
(* The environment.                                                        *)

\* The connection of a mounted share breaks or recovers.
ShareChanges(v) ==
    /\ mnt[v] > 0
    /\ \E h \in Healths \ {health[v]} : health' = [health EXCEPT ![v] = h]
    /\ UNCHANGED <<dir, mnt, krbVars, pc, callVars, late>>

\* The driver restarts: the goroutines, the locks and the mount commands are gone,
\* the mounts, the directories and the ticket files are still there.
Restart ==
    /\ CanRestart
    /\ pc' = [t \in Threads |-> "idle"]
    /\ vol' = [t \in Threads |-> NoVolume]
    /\ found' = [t \in Threads |-> {}]
    /\ locks' = {}
    /\ late' = [v \in Volumes |-> 0]
    /\ UNCHANGED <<pathVars, cache, link, told>>

-----------------------------------------------------------------------------

\* What a call does on its own.  The end of the mount command is not part of it:
\* nothing makes the SMB server answer.
Step(t) ==
    \/ Return(t) \/ Fails(t)
    \/ KrbSkip(t) \/ KrbWrite(t) \/ KrbStat(t) \/ KrbRemove(t) \/ KrbSymlink(t)
    \/ Mkdir(t) \/ AlreadyMounted(t) \/ NotMounted(t) \/ ReadDir(t) \/ UnmountBad(t)
    \/ MountTimeout(t)
    \/ PathGone(t) \/ PathExists(t) \/ UnmountPath(t) \/ NotMnt(t) \/ RemovePath(t)
    \/ KrbNothing(t) \/ KrbScan(t) \/ KrbUnlink(t) \/ KrbRmFile(t)

Next ==
    \/ \E t \in Threads, v \in Volumes : NodeStageVolume(t, v) \/ NodeUnstageVolume(t, v)
    \/ \E t \in Threads : Step(t) \/ MountDone(t)
    \/ \E v \in Volumes : LateMount(v) \/ ShareChanges(v)
    \/ Restart

Spec == Init /\ [][Next]_vars

\* A goroutine in a call is scheduled, and its local system calls return.
FairSpec == Spec /\ \A t \in Threads : WF_vars(Step(t))

-----------------------------------------------------------------------------

TypeOK ==
    /\ dir \in [Volumes -> {"none", "empty", "full"}]
    /\ mnt \in [Volumes -> Nat]
    /\ health \in [Volumes -> Health]
    /\ cache \subseteq Volumes
    /\ link \in [Uids -> Volumes \cup {NoVolume}]
    /\ locks \subseteq Volumes
    /\ pc \in [Threads -> {"idle"} \cup StageSteps \cup UnstageSteps \cup Returns]
    /\ vol \in [Threads -> Volumes \cup {NoVolume}]
    /\ found \in [Threads -> SUBSET Uids]
    /\ late \in [Volumes -> Nat]
    /\ told \in [Volumes -> {"nothing", "staged", "unstaged"}]

\* A volume reported as staged has a mount on its staging path until the next call
\* for it: no restart, late mount command, or call for another volume takes it away.
StagedIsMounted == \A v \in Volumes : told[v] = "staged" => mnt[v] > 0

\* A volume reported as unstaged has left nothing on the node, and nothing comes back
\* before the next call for it, not even the mount of a call that timed out earlier.
UnstagedIsClean ==
    \A v \in Volumes : told[v] = "unstaged" => dir[v] = "none" /\ mnt[v] = 0

\* Tickets outlive the volume no more than its mount does.
UnstagedHasNoTicket ==
    \A v \in Volumes : told[v] = "unstaged" => v \notin cache /\ \A u \in Uids : link[u] # v

\* The keys in volumeLocks are those of the calls in progress, one call to a key: a key
\* is never left behind and never released by a call that does not hold it.
LocksAreHeld ==
    /\ locks = {vol[t] : t \in {x \in Threads : pc[x] # "idle"}}
    /\ \A s, t \in Threads : s # t /\ pc[s] # "idle" /\ pc[t] # "idle" => vol[s] # vol[t]

\* krb5cc_<uid> leads to an existing ticket file, of a volume with that cruid.
LinksLeadToTickets ==
    \A u \in Uids : link[u] # NoVolume => link[u] \in cache /\ KrbUid[link[u]] = u

\* A staged volume finds its own ticket under krb5cc_<cruid> when no other volume
\* on the node has its cruid.
OwnTicketServed ==
    \A v \in Volumes :
        /\ told[v] = "staged"
        /\ KrbUid[v] # NoUid
        /\ \A w \in Volumes \ {v} : KrbUid[w] # KrbUid[v]
        => link[KrbUid[v]] = v /\ v \in cache

\* "Serving proper cache to the kerberos": when no call is in progress and the last call
\* for every volume succeeded, a staged volume finds the ticket of a volume with its cruid
\* under krb5cc_<cruid>.
TicketServed ==
    /\ \A t \in Threads : pc[t] = "idle"
    /\ \A w \in Volumes : told[w] # "nothing"
    => \A v \in Volumes : told[v] = "staged" /\ KrbUid[v] # NoUid => link[KrbUid[v]] \in cache

\* The call in progress for a volume, as its caller sees it: a call that is about to return
\* an error has failed already.
InStage == StageSteps \cup {"staged"}
InUnstage == UnstageSteps \cup {"unstaged"}
CallFor(v) ==
    IF \E t \in Threads : vol[t] = v /\ pc[t] \in InStage THEN "stage"
    ELSE IF \E t \in Threads : vol[t] = v /\ pc[t] \in InUnstage THEN "unstage"
    ELSE "none"

Contract == INSTANCE StagingContract WITH
    mounted <- [v \in Volumes |-> mnt[v] > 0],
    present <- [v \in Volumes |-> dir[v] # "none"],
    call <- [v \in Volumes |-> CallFor(v)]

\* NodeStageVolume and NodeUnstageVolume, with all that may happen between their steps,
\* keep the promises of StagingContract.
KeepsContract == Contract!Spec

\* Every call returns, even when the mount command never does: a goroutine in a call is idle
\* again some time later.
CallsReturn == \A t \in Threads : []<>(pc[t] = "idle")
=============================================================================
