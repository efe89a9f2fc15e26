------------------------- MODULE HostProcessMounter -------------------------
(***************************************************************************)
(* NodeStageVolume and NodeUnstageVolume on a Windows node where the       *)
(* driver runs as a host process: it maps the share with PowerShell and    *)
(* makes the link by itself.  There is no mutex and there are no           *)
(* references: before SMBUnmount removes the global mapping it searches a  *)
(* directory for links of other volumes to the same remote path.           *)
(*                                                                         *)
(* The volumes are those of one remote path.  As in CsiProxyMounter, a     *)
(* thread is a request, and from SMBMount on the goroutine that            *)
(* WaitUntilTimeout starts; it is detached when the wait ends first.       *)
(* PowerShell is modelled from its use, one step for a command.            *)
(***************************************************************************)

CONSTANTS
    Threads,  \* goroutines
    Volumes,  \* volumes of one remote path
    NoVolume

ASSUME HostAssumption == NoVolume \notin Volumes

VARIABLES
    \* the node
    path,      \* the staging path: absent, a directory, or a link to the share
    mapping,   \* is the remote path mapped?
    azureDir,  \* does the directory of the Azure File driver exist?
    \* the driver process
    locks,     \* volumeLocks: the keys in the set
    pc,        \* the step each goroutine is about to take
    vol,       \* the volume it works for, NoVolume when idle
    detached,  \* goroutines whose request has timed out
    \* history: the last answer about each volume, as in NodeStaging
    told

nodeVars == <<path, mapping, azureDir>>
callVars == <<locks, vol, detached, told>>
vars == <<path, mapping, azureDir, locks, pc, vol, detached, told>>

MountSteps == {"isMapped", "pathValid", "removeInvalid", "newMapping", "symlink"}
Returns == {"staged", "unstaged", "failed"}
Labels == {"idle", "ensure", "readDir", "makeDir", "prepare", "readlink", "search",
           "removeMapping", "rmdir"} \cup MountSteps \cup Returns

Init ==
    /\ path = [v \in Volumes |-> "none"]
    /\ mapping = FALSE
    /\ azureDir \in BOOLEAN
    /\ locks = {}
    /\ pc = [t \in Threads |-> "idle"]
    /\ vol = [t \in Threads |-> NoVolume]
    /\ detached = {}
    /\ told = [v \in Volumes |-> "nothing"]

Goto(t, step) == pc' = [pc EXCEPT ![t] = step]

\* filesystem.Rmdir with force: os.RemoveAll of a directory or of a link.
Rmdir(v) == path' = [path EXCEPT ![v] = "none"]

-----------------------------------------------------------------------------
(* Entering and leaving a call.                                            *)

TryAcquire(t, v) ==
    /\ pc[t] = "idle"
    /\ v \notin locks
    /\ locks' = locks \cup {v}
    /\ vol' = [vol EXCEPT ![t] = v]
    /\ told' = [told EXCEPT ![v] = "nothing"]
    /\ UNCHANGED <<nodeVars, detached>>

NodeStageVolume(t, v) == TryAcquire(t, v) /\ Goto(t, "ensure")
NodeUnstageVolume(t, v) == TryAcquire(t, v) /\ Goto(t, "readlink")

\* The deferred release of the volume lock, and the answer.
Answer(t) ==
    /\ pc[t] \in Returns
    /\ t \notin detached
    /\ locks' = locks \ {vol[t]}
    /\ told' = [told EXCEPT ![vol[t]] = IF pc[t] = "failed" THEN "nothing" ELSE pc[t]]
    /\ vol' = [vol EXCEPT ![t] = NoVolume]
    /\ Goto(t, "idle")
    /\ UNCHANGED <<nodeVars, detached>>

\* Mutant: prepareStagePath is part of what WaitUntilTimeout waits for.
TimeoutWhilePreparing(t) ==
    /\ pc[t] \in MountSteps \cup {"prepare"}
    /\ t \notin detached
    /\ locks' = locks \ {vol[t]}
    /\ detached' = detached \cup {t}
    /\ UNCHANGED <<nodeVars, pc, vol, told>>

\* WaitUntilTimeout: the request fails and releases the volume lock, SMBMount goes on.
Timeout(t) ==
    /\ pc[t] \in MountSteps
    /\ t \notin detached
    /\ locks' = locks \ {vol[t]}
    /\ detached' = detached \cup {t}
    /\ UNCHANGED <<nodeVars, pc, vol, told>>

\* A goroutine whose request has timed out ends.
DetachedEnds(t) ==
    /\ pc[t] \in Returns
    /\ t \in detached
    /\ detached' = detached \ {t}
    /\ vol' = [vol EXCEPT ![t] = NoVolume]
    /\ Goto(t, "idle")
    /\ UNCHANGED <<nodeVars, locks, told>>

Fails(t) ==
    /\ pc[t] \in {"ensure", "readDir", "makeDir", "prepare", "isMapped", "removeInvalid",
                  "symlink", "rmdir"}
    /\ Goto(t, "failed")
    /\ UNCHANGED <<nodeVars, callVars>>

-----------------------------------------------------------------------------
(* NodeStageVolume: ensureMountPoint and prepareStagePath.                 *)

\* Mutant: a directory that an earlier call has left is taken for a mount point.
EnsureAnyPath(t) ==
    /\ pc[t] = "ensure"
    /\ \/ path[vol[t]] # "none" /\ Goto(t, "readDir")
       \/ Goto(t, "makeDir")
    /\ UNCHANGED <<nodeVars, callVars>>

\* ensureMountPoint: a link is a mount point if the remote path exists as well, which
\* depends on the server.
EnsureMountPoint(t) ==
    /\ pc[t] = "ensure"
    /\ \/ path[vol[t]] = "link" /\ Goto(t, "readDir")
       \/ Goto(t, "makeDir")
    /\ UNCHANGED <<nodeVars, callVars>>

\* ensureMountPoint: the share can be read through the link.
AlreadyMounted(t) ==
    /\ pc[t] = "readDir"
    /\ mapping
    /\ Goto(t, "staged")
    /\ UNCHANGED <<nodeVars, callVars>>

\* ensureMountPoint: it cannot, and the link is removed.
UnmountBad(t) ==
    /\ pc[t] = "readDir"
    /\ Rmdir(vol[t])
    /\ Goto(t, "failed")
    /\ UNCHANGED <<mapping, azureDir, callVars>>

\* ensureMountPoint: makeDir.
MakeDir(t) ==
    /\ pc[t] = "makeDir"
    /\ path' = [path EXCEPT ![vol[t]] = IF @ = "none" THEN "dir" ELSE @]
    /\ Goto(t, "prepare")
    /\ UNCHANGED <<mapping, azureDir, callVars>>

\* prepareStagePath removes what is at the path, for the link to be created.
PrepareStagePath(t) ==
    /\ pc[t] = "prepare"
    /\ Rmdir(vol[t])
    /\ Goto(t, "isMapped")
    /\ UNCHANGED <<mapping, azureDir, callVars>>

-----------------------------------------------------------------------------
(* SMBMount.                                                               *)

\* IsSmbMapped asks for a mapping with status OK, and an error is taken for none.
IsSmbMapped(t) ==
    /\ pc[t] = "isMapped"
    /\ \/ mapping /\ Goto(t, "pathValid")
       \/ Goto(t, "newMapping")
    /\ UNCHANGED <<nodeVars, callVars>>

\* PathValid tests the remote path.  An error, said to be ignored, makes it not valid.
PathValid(t) ==
    /\ pc[t] = "pathValid"
    /\ \E step \in {"symlink", "removeInvalid"} : Goto(t, step)
    /\ UNCHANGED <<nodeVars, callVars>>

\* RemoveSmbGlobalMapping: the mapping is gone for all volumes, also the staged ones, until
\* somebody makes it again.
RemoveInvalid(t) ==
    /\ pc[t] = "removeInvalid"
    /\ mapping
    /\ mapping' = FALSE
    /\ Goto(t, "newMapping")
    /\ UNCHANGED <<path, azureDir, callVars>>

NewSmbGlobalMapping(t) ==
    /\ pc[t] = "newMapping"
    /\ mapping' = TRUE
    /\ Goto(t, "symlink")
    /\ UNCHANGED <<path, azureDir, callVars>>

\* It fails, perhaps with the mapping made.
MappingFails(t) ==
    /\ pc[t] = "newMapping"
    /\ mapping' \in {mapping, TRUE}
    /\ Goto(t, "failed")
    /\ UNCHANGED <<path, azureDir, callVars>>

\* Mutant: as with ln -s, a directory that is there gets the link inside it.
SymlinkInside(t) ==
    /\ pc[t] = "symlink"
    /\ path[vol[t]] # "link"
    /\ path' = [path EXCEPT ![vol[t]] = IF @ = "dir" THEN "linkInDir" ELSE "link"]
    /\ Goto(t, "staged")
    /\ UNCHANGED <<mapping, azureDir, callVars>>

\* os.Symlink does not replace what is there: then only Fails is possible.
Symlink(t) ==
    /\ pc[t] = "symlink"
    /\ path[vol[t]] = "none"
    /\ path' = [path EXCEPT ![vol[t]] = "link"]
    /\ Goto(t, "staged")
    /\ UNCHANGED <<mapping, azureDir, callVars>>

-----------------------------------------------------------------------------
(* SMBUnmount.                                                             *)

\* GetRemoteServerFromTarget.  Its error is only logged.
Readlink(t) ==
    /\ pc[t] = "readlink"
    /\ \/ path[vol[t]] = "link" /\ Goto(t, "search")
       \/ Goto(t, "rmdir")
    /\ UNCHANGED <<nodeVars, callVars>>

\* CheckForDuplicateSMBMounts(driverGlobalMountPath, ...): the directory searched is that of
\* the Azure File driver, where no volume of this driver has its link.  Without the
\* directory the search fails and the mapping stays; with it, links of that driver decide.
CheckForDuplicateSMBMounts(t) ==
    /\ pc[t] = "search"
    /\ \/ azureDir /\ Goto(t, "removeMapping")
       \/ Goto(t, "rmdir")
    /\ UNCHANGED <<nodeVars, callVars>>

\* An error is only logged.
RemoveSmbGlobalMapping(t) ==
    /\ pc[t] = "removeMapping"
    /\ mapping' \in {mapping, FALSE}
    /\ Goto(t, "rmdir")
    /\ UNCHANGED <<path, azureDir, callVars>>

RemovePath(t) ==
    /\ pc[t] = "rmdir"
    /\ Rmdir(vol[t])
    /\ Goto(t, "unstaged")
    /\ UNCHANGED <<mapping, azureDir, callVars>>

-----------------------------------------------------------------------------

\* The driver restarts: what it was doing stops where it was.
Restart ==
    /\ locks' = {}
    /\ pc' = [t \in Threads |-> "idle"]
    /\ vol' = [t \in Threads |-> NoVolume]
    /\ detached' = {}
    /\ UNCHANGED <<path, mapping, azureDir, told>>

Step(t) ==
    \/ Answer(t) \/ Timeout(t) \/ DetachedEnds(t) \/ Fails(t)
    \/ EnsureMountPoint(t) \/ AlreadyMounted(t) \/ UnmountBad(t) \/ MakeDir(t) \/ PrepareStagePath(t)
    \/ IsSmbMapped(t) \/ PathValid(t) \/ RemoveInvalid(t)
    \/ NewSmbGlobalMapping(t) \/ MappingFails(t) \/ Symlink(t)
    \/ Readlink(t) \/ CheckForDuplicateSMBMounts(t) \/ RemoveSmbGlobalMapping(t) \/ RemovePath(t)

Next ==
    \/ \E t \in Threads, v \in Volumes : NodeStageVolume(t, v) \/ NodeUnstageVolume(t, v)
    \/ \E t \in Threads : Step(t)
    \/ Restart

Spec == Init /\ [][Next]_vars

-----------------------------------------------------------------------------

TypeOK ==
    /\ path \in [Volumes -> {"none", "dir", "link"}]
    /\ mapping \in BOOLEAN
    /\ azureDir \in BOOLEAN
    /\ locks \subseteq Volumes
    /\ pc \in [Threads -> Labels]
    /\ vol \in [Threads -> Volumes \cup {NoVolume}]
    /\ detached \subseteq Threads
    /\ told \in [Volumes -> {"nothing", "staged", "unstaged"}]

\* A volume reported as staged has its link until the next call for it: whatever an earlier
\* call for it has left at the path, and whatever an SMBMount that outlived its request still
\* does there without the lock.  The mapping behind the link is not promised: SMBMount of
\* another volume may remove it and fail to make it again.
StagedIsLinked == \A v \in Volumes : told[v] = "staged" => path[v] = "link"

\* Between two calls for a volume its staging path changes in one way only: an SMBMount whose
\* request has timed out makes the link where nothing was.  No goroutine removes or replaces
\* what a call for the volume has left, whatever is staged, unstaged or restarted.
BetweenCalls ==
    [][\A v \in Volumes : v \notin locks /\ path'[v] # path[v] =>
          /\ path[v] = "none" /\ path'[v] = "link"
          /\ \E t \in detached : vol[t] = v]_vars

\* CheckForDuplicateSMBMounts "checks if there is any other SMB mount exists on the same
\* remote server": SMBUnmount takes the mapping from no volume reported as staged.
MappingIsKept ==
    [][\A t \in Threads : RemoveSmbGlobalMapping(t) /\ mapping' # mapping =>
          \A v \in Volumes : told[v] # "staged"]_vars
=============================================================================
