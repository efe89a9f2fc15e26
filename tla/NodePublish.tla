---------------------------- MODULE NodePublish ----------------------------
(***************************************************************************)
(* NodePublishVolume, NodeUnpublishVolume and NodeGetVolumeStats on a      *)
(* Linux node, on top of what StagingContract promises about the staging   *)
(* paths.  A target is the path of a volume in a pod.  The share gets      *)
(* there by a bind mount of the staging path or, for an inline             *)
(* (ephemeral) volume, by the mount of NodeStageVolume itself, with the    *)
(* target in place of the staging path.                                    *)
(*                                                                         *)
(* Publish and unpublish take no lock: what keeps two calls for a target   *)
(* apart is the orchestrator, and with Overlap it does not.  Statistics    *)
(* are asked for at any time, whatever is going on at the target.          *)
(* The share breaks and recovers at any time, so that every look at it     *)
(* may find it either way.  Fails is the error return of a step; a request *)
(* that is malformed or finds the lock taken changes nothing, and is a     *)
(* stutter.                                                                *)
(***************************************************************************)
EXTENDS Naturals, Sequences

CONSTANTS
    Threads,        \* goroutines serving requests
    Volumes,        \* volumes that are staged
    Targets,        \* target paths of the pods on the node
    Inline,         \* the targets of inline volumes, each a volume of its own
    VolumeOf,       \* the volume of every other target
    NoTarget,       \* the target of an idle goroutine
    SafeNotMounted, \* does umount report "not mounted" reliably?
    Overlap,        \* may the orchestrator call while a call for the target is in progress?
    MaxStack,       \* bound: mounts stacked on one target
    MaxLate         \* bound: timed-out mount commands still running, per target

ASSUME PublishAssumption ==
    /\ NoTarget \notin Targets
    /\ Inline \subseteq Targets
    /\ Inline \cap Volumes = {}
    /\ VolumeOf \in [Targets \ Inline -> Volumes]
    /\ SafeNotMounted \in BOOLEAN
    /\ Overlap \in BOOLEAN
    /\ MaxStack \in Nat
    /\ MaxLate \in Nat

VARIABLES
    mounted, present, call, told,  \* the staging paths, see StagingContract
    \* the node
    dirs,      \* targets whose directory exists
    stack,     \* what is mounted on a target, the topmost first
    \* the driver process
    locks,     \* volumeLocks: the keys "volumeID-target" of inline volumes, each with its holder
    pc,        \* the step each goroutine is about to take
    tgt,       \* the target of its request, NoTarget when idle
    late,      \* mount commands on an inline target whose caller has timed out
    cached,    \* volStatsCache: the volume ids with an entry
    \* history: calls whose caller has gone, and the last answer about a target,
    \* "nothing" once a later call has started
    abandoned, answer

stagingVars == <<mounted, present, call, told>>
pathVars == <<dirs, stack>>
vars == <<stagingVars, dirs, stack, locks, pc, tgt, late, cached, abandoned, answer>>

Staging == INSTANCE StagingContract

PublishSteps == {"mkdir", "ensure", "readDir", "unmountBad", "bind", "mounting"}
UnpublishSteps == {"cleanup", "unmountUnchecked", "notMnt", "unmount", "notMntAgain", "rmdir",
                   "removePath"}
StatsSteps == {"statfs", "setStats"}
Returns == {"published", "unpublished", "failed"}

Init ==
    /\ Staging!Init
    /\ dirs = {}
    /\ stack = [p \in Targets |-> <<>>]
    /\ locks = {}
    /\ pc = [t \in Threads |-> "idle"]
    /\ tgt = [t \in Threads |-> NoTarget]
    /\ late = [p \in Inline |-> 0]
    /\ cached = {}
    /\ abandoned = {}
    /\ answer = [p \in Targets |-> "unpublished"]

-----------------------------------------------------------------------------
(* The mount table of the node.                                            *)

Goto(t, step) == pc' = [pc EXCEPT ![t] = step]

Push(p, fs) ==
    /\ p \in dirs
    /\ Len(stack[p]) < MaxStack
    /\ stack' = [stack EXCEPT ![p] = <<fs>> \o @]
    /\ UNCHANGED dirs

\* Without a mount umount fails, and the mounter takes that for a success when it
\* trusts the "not mounted" message of umount.
Unmount(p) ==
    \/ stack[p] # <<>> /\ stack' = [stack EXCEPT ![p] = Tail(@)] /\ UNCHANGED dirs
    \/ stack[p] = <<>> /\ p \in dirs /\ SafeNotMounted /\ UNCHANGED pathVars

\* What a look at the target finds: the topmost mount, or the node's own disk.
Content(p) == IF stack[p] = <<>> THEN "local" ELSE Head(stack[p])

\* volumeID as the key of the statistics cache.
VolumeId(p) == IF p \in Inline THEN p ELSE VolumeOf[p]

-----------------------------------------------------------------------------
(* Calls, and the orchestrator that makes them.                            *)

\* The publish and unpublish calls for a target.
CallsFor(p) == {t \in Threads : tgt[t] = p /\ pc[t] \notin StatsSteps}

Enter(t, p, step) ==
    /\ pc[t] = "idle"
    /\ tgt' = [tgt EXCEPT ![t] = p]
    /\ Goto(t, step)
    /\ UNCHANGED <<stagingVars, pathVars, late, cached>>

\* An orchestrator that keeps its calls apart waits for the last one for the target.  From
\* one that does not, the answer of an earlier call will not be heard.
Supersede(p) ==
    /\ Overlap \/ CallsFor(p) = {}
    /\ abandoned' = abandoned \cup CallsFor(p)
    /\ answer' = [answer EXCEPT ![p] = "nothing"]

\* Mutant: an error is recorded as an answer.
ReturnFailed(t) ==
    /\ pc[t] \in Returns
    /\ answer' = IF t \in abandoned THEN answer ELSE [answer EXCEPT ![tgt[t]] = pc[t]]
    /\ abandoned' = abandoned \ {t}
    /\ locks' = {k \in locks : k[1] # t}
    /\ tgt' = [tgt EXCEPT ![t] = NoTarget]
    /\ Goto(t, "idle")
    /\ UNCHANGED <<stagingVars, pathVars, late, cached>>

\* Answers the caller.  An inline NodePublishVolume releases its key, which
\* NodeUnpublishVolume does not have.
Return(t) ==
    /\ pc[t] \in Returns
    /\ answer' = IF t \in abandoned THEN answer
                 ELSE [answer EXCEPT ![tgt[t]] = IF pc[t] = "failed" THEN "nothing" ELSE pc[t]]
    /\ abandoned' = abandoned \ {t}
    /\ locks' = {k \in locks : k[1] # t}
    /\ tgt' = [tgt EXCEPT ![t] = NoTarget]
    /\ Goto(t, "idle")
    /\ UNCHANGED <<stagingVars, pathVars, late, cached>>

Fails(t) ==
    /\ pc[t] \in (PublishSteps \cup UnpublishSteps) \ {"readDir"}
    /\ Goto(t, "failed")
    /\ UNCHANGED <<stagingVars, pathVars, locks, tgt, late, cached, abandoned, answer>>

-----------------------------------------------------------------------------
(* NodePublishVolume.                                                      *)

\* The orchestrator publishes a volume that it has been told is staged.
PublishStaged(t, p) ==
    /\ p \notin Inline
    /\ told[VolumeOf[p]] = "staged"
    /\ Supersede(p)
    /\ Enter(t, p, "ensure")
    /\ UNCHANGED locks

\* An inline volume: NodeStageVolume takes the lock.
PublishInline(t, p) ==
    /\ p \in Inline
    /\ late[p] < MaxLate
    /\ \A k \in locks : k[2] # p
    /\ locks' = locks \cup {<<t, p>>}
    /\ Supersede(p)
    /\ Enter(t, p, "mkdir")

NodePublishVolume(t, p) == PublishStaged(t, p) \/ PublishInline(t, p)

\* NodeStageVolume makes the directory before ensureMountPoint looks at it.
Mkdir(t) ==
    /\ pc[t] = "mkdir"
    /\ dirs' = dirs \cup {tgt[t]}
    /\ Goto(t, "ensure")
    /\ UNCHANGED <<stagingVars, stack, locks, tgt, late, cached, abandoned, answer>>

\* ensureMountPoint finds the target in the mount table, or cannot stat it.
AlreadyMounted(t) ==
    /\ pc[t] = "ensure"
    /\ stack[tgt[t]] # <<>>
    /\ Goto(t, "readDir")
    /\ UNCHANGED <<stagingVars, pathVars, locks, tgt, late, cached, abandoned, answer>>

\* ensureMountPoint, target not mounted: makeDir, and on to the mount.
NotMounted(t) ==
    /\ pc[t] = "ensure"
    /\ stack[tgt[t]] = <<>>
    /\ dirs' = dirs \cup {tgt[t]}
    /\ Goto(t, IF tgt[t] \in Inline THEN "mounting" ELSE "bind")
    /\ UNCHANGED <<stagingVars, stack, locks, tgt, late, cached, abandoned, answer>>

\* ensureMountPoint reads one entry of the directory.
ReadDir(t) ==
    /\ pc[t] = "readDir"
    /\ \/ tgt[t] \in dirs /\ Goto(t, "published")
       \/ /\ tgt[t] \in dirs => Content(tgt[t]) = "share"
          /\ Goto(t, "unmountBad")
    /\ UNCHANGED <<stagingVars, pathVars, locks, tgt, late, cached, abandoned, answer>>

\* ensureMountPoint unmounts what it cannot read, and the call fails.
UnmountBad(t) ==
    /\ pc[t] = "unmountBad"
    /\ Unmount(tgt[t])
    /\ Goto(t, "failed")
    /\ UNCHANGED <<stagingVars, locks, tgt, late, cached, abandoned, answer>>

\* The bind mount shows what is on the staging path now: the share, or the
\* directory beneath it.  It stays when the remount that applies the options fails, since
\* os.Remove does not take a mount point away.
Bind(t) ==
    /\ pc[t] = "bind"
    /\ present[VolumeOf[tgt[t]]]
    /\ Push(tgt[t], IF mounted[VolumeOf[tgt[t]]] THEN "share" ELSE "local")
    /\ \E step \in {"published", "failed"} : Goto(t, step)
    /\ UNCHANGED <<stagingVars, locks, tgt, late, cached, abandoned, answer>>

\* Mutant: the error of the mount is lost behind that of the removal.
BindErrorLost(t) ==
    /\ pc[t] = "bind"
    /\ stack[tgt[t]] = <<>>
    /\ dirs' = dirs \ {tgt[t]}
    /\ Goto(t, "published")
    /\ UNCHANGED <<stagingVars, stack, locks, tgt, late, cached, abandoned, answer>>

\* The bind mount fails and os.Remove takes the target away, unless it is a mount
\* point: then Fails.
BindFails(t) ==
    /\ pc[t] = "bind"
    /\ stack[tgt[t]] = <<>>
    /\ dirs' = dirs \ {tgt[t]}
    /\ Goto(t, "failed")
    /\ UNCHANGED <<stagingVars, stack, locks, tgt, late, cached, abandoned, answer>>

\* The mount command for an inline volume ends with a mount, even if it reports an error.
\* Fails is an error without a mount.
MountDone(t) ==
    /\ pc[t] = "mounting"
    /\ Push(tgt[t], "share")
    /\ \E step \in {"published", "failed"} : Goto(t, step)
    /\ UNCHANGED <<stagingVars, locks, tgt, late, cached, abandoned, answer>>

\* The call gives up on the mount command, which goes on.
MountTimeout(t) ==
    /\ pc[t] = "mounting"
    /\ late' = [late EXCEPT ![tgt[t]] = @ + 1]
    /\ Goto(t, "failed")
    /\ UNCHANGED <<stagingVars, pathVars, locks, tgt, cached, abandoned, answer>>

LateMount(p) ==
    /\ late[p] > 0
    /\ late' = [late EXCEPT ![p] = @ - 1]
    /\ Push(p, "share") \/ UNCHANGED pathVars
    /\ UNCHANGED <<stagingVars, locks, pc, tgt, cached, abandoned, answer>>

-----------------------------------------------------------------------------
(* NodeUnpublishVolume.                                                    *)

NodeUnpublishVolume(t, p) ==
    /\ Supersede(p)
    /\ Enter(t, p, "cleanup")
    /\ UNCHANGED locks

\* CleanupMountPoint, or the check in removePathIfNotMountPoint, finds no target.
PathGone(t) ==
    /\ pc[t] \in {"cleanup", "notMnt", "notMntAgain"}
    /\ tgt[t] \notin dirs
    /\ Goto(t, "unpublished")
    /\ UNCHANGED <<stagingVars, pathVars, locks, tgt, late, cached, abandoned, answer>>

\* CleanupMountPoint looks for a mount first, unless the mount is corrupted or
\* umount can be trusted to say that there is none.
PathExists(t) ==
    /\ pc[t] = "cleanup"
    /\ tgt[t] \in dirs
    /\ \/ Goto(t, IF SafeNotMounted THEN "unmountUnchecked" ELSE "notMnt")
       \/ Content(tgt[t]) = "share" /\ Goto(t, "unmountUnchecked")
    /\ UNCHANGED <<stagingVars, pathVars, locks, tgt, late, cached, abandoned, answer>>

\* removePathIfNotMountPoint, the check.  A target that is still mounted after the
\* unmount is an error.
NotMnt(t) ==
    /\ \/ pc[t] = "notMnt"
       \/ pc[t] = "notMntAgain" /\ stack[tgt[t]] = <<>>
    /\ tgt[t] \in dirs
    /\ Goto(t, IF stack[tgt[t]] = <<>> THEN "rmdir" ELSE "unmount")
    /\ UNCHANGED <<stagingVars, pathVars, locks, tgt, late, cached, abandoned, answer>>

\* Mutant: the directory is not removed after an unchecked unmount.
UnmountPathOnly(t) ==
    /\ pc[t] \in {"unmountUnchecked", "unmount"}
    /\ Unmount(tgt[t])
    /\ Goto(t, IF pc[t] = "unmount" THEN "notMntAgain" ELSE "unpublished")
    /\ UNCHANGED <<stagingVars, locks, tgt, late, cached, abandoned, answer>>

\* doCleanupMountPoint, the unmount of either branch.
UnmountPath(t) ==
    /\ pc[t] \in {"unmountUnchecked", "unmount"}
    /\ Unmount(tgt[t])
    /\ Goto(t, IF pc[t] = "unmount" THEN "notMntAgain" ELSE "removePath")
    /\ UNCHANGED <<stagingVars, locks, tgt, late, cached, abandoned, answer>>

\* os.Remove in removePathIfNotMountPoint and in removePath, which alone does not
\* mind a target that is gone.
RemovePath(t) ==
    /\ \/ pc[t] = "rmdir" /\ tgt[t] \in dirs
       \/ pc[t] = "removePath"
    /\ stack[tgt[t]] = <<>>
    /\ dirs' = dirs \ {tgt[t]}
    /\ Goto(t, "unpublished")
    /\ UNCHANGED <<stagingVars, stack, locks, tgt, late, cached, abandoned, answer>>

-----------------------------------------------------------------------------
(* NodeGetVolumeStats.                                                     *)

\* A cached answer is returned at once, a stutter; else the target is measured, be it
\* published or not.
NodeGetVolumeStats(t, p) ==
    /\ VolumeId(p) \notin cached
    /\ Enter(t, p, "statfs")
    /\ UNCHANGED <<locks, abandoned, answer>>

\* Lstat and GetMetrics find the path and measure the file system that it is on then.
Statfs(t) ==
    /\ pc[t] = "statfs"
    /\ tgt[t] \in dirs
    /\ Goto(t, "setStats")
    /\ UNCHANGED <<stagingVars, pathVars, locks, tgt, late, cached, abandoned, answer>>

\* The end of the call: the statistics are cached, or one of its steps failed.
StatsDone(t) ==
    /\ pc[t] \in StatsSteps
    /\ cached' = IF pc[t] = "setStats" THEN cached \cup {VolumeId(tgt[t])} ELSE cached
    /\ tgt' = [tgt EXCEPT ![t] = NoTarget]
    /\ Goto(t, "idle")
    /\ UNCHANGED <<stagingVars, pathVars, locks, late, abandoned, answer>>

\* The entry of a volume in the timed cache expires.
StatsExpire(i) ==
    /\ i \in cached
    /\ cached' = cached \ {i}
    /\ UNCHANGED <<stagingVars, pathVars, locks, pc, tgt, late, abandoned, answer>>

-----------------------------------------------------------------------------
(* Staging, and a restart of the driver.                                   *)

TargetsOf(v) == {p \in Targets \ Inline : VolumeOf[p] = v}

\* The orchestrator unstages a volume that it has been told is published nowhere, and
\* waits for the calls for its targets, but for those it has abandoned.
StagingBegins(v, op) ==
    /\ Staging!Begin(v, op)
    /\ op = "unstage" => \A p \in TargetsOf(v) : answer[p] = "unpublished"
    /\ \A p \in TargetsOf(v) : CallsFor(p) \subseteq abandoned
    /\ UNCHANGED <<pathVars, locks, pc, tgt, late, cached, abandoned, answer>>

StagingSteps(v) ==
    /\ Staging!Work(v) \/ Staging!Fail(v) \/ Staging!Succeed(v)
    /\ UNCHANGED <<pathVars, locks, pc, tgt, late, cached, abandoned, answer>>

Restart ==
    /\ Staging!Restart
    /\ locks' = {}
    /\ pc' = [t \in Threads |-> "idle"]
    /\ tgt' = [t \in Threads |-> NoTarget]
    /\ late' = [p \in Inline |-> 0]
    /\ cached' = {}
    /\ abandoned' = {}
    /\ UNCHANGED <<pathVars, answer>>

-----------------------------------------------------------------------------

Step(t) ==
    \/ Return(t) \/ Fails(t)
    \/ Mkdir(t) \/ AlreadyMounted(t) \/ NotMounted(t) \/ ReadDir(t) \/ UnmountBad(t)
    \/ Bind(t) \/ BindFails(t) \/ MountDone(t) \/ MountTimeout(t)
    \/ PathGone(t) \/ PathExists(t) \/ NotMnt(t) \/ UnmountPath(t) \/ RemovePath(t)
    \/ Statfs(t) \/ StatsDone(t)

Next ==
    \/ \E t \in Threads, p \in Targets :
          NodePublishVolume(t, p) \/ NodeUnpublishVolume(t, p) \/ NodeGetVolumeStats(t, p)
    \/ \E t \in Threads : Step(t)
    \/ \E p \in Inline : LateMount(p)
    \/ \E i \in Volumes \cup Inline : StatsExpire(i)
    \/ \E v \in Volumes : StagingSteps(v) \/ \E op \in {"stage", "unstage"} : StagingBegins(v, op)
    \/ Restart

Spec == Init /\ [][Next]_vars

-----------------------------------------------------------------------------

TypeOK ==
    /\ mounted \in [Volumes -> BOOLEAN]
    /\ present \in [Volumes -> BOOLEAN]
    /\ call \in [Volumes -> {"none", "stage", "unstage"}]
    /\ told \in [Volumes -> {"nothing", "staged", "unstaged"}]
    /\ dirs \subseteq Targets
    /\ stack \in [Targets -> Seq({"share", "local"})]
    /\ locks \subseteq Threads \X Inline
    /\ pc \in [Threads -> {"idle"} \cup PublishSteps \cup UnpublishSteps \cup StatsSteps \cup Returns]
    /\ tgt \in [Threads -> Targets \cup {NoTarget}]
    /\ late \in [Inline -> Nat]
    /\ cached \subseteq Volumes \cup Inline
    /\ abandoned \subseteq Threads
    /\ answer \in [Targets -> {"nothing", "published", "unpublished"}]

\* What a pod finds at a target that was reported as published is the share, and not a
\* directory of the node, until the next call for the target: whatever happens to the
\* staging path of the volume, to other targets and to the driver in the meantime.
PublishedServesShare ==
    \A p \in Targets : answer[p] = "published" => p \in dirs /\ Content(p) = "share"

\* A target that was reported as unpublished is gone, and the mount command of an inline
\* volume that timed out does not bring it back.
UnpublishedIsClean ==
    \A p \in Targets : answer[p] = "unpublished" => p \notin dirs /\ stack[p] = <<>>
=============================================================================
