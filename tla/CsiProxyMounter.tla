-------------------------- MODULE CsiProxyMounter --------------------------
(***************************************************************************)
(* NodeStageVolume and NodeUnstageVolume on a Windows node with csi-proxy, *)
(* where all volumes of one SMB share use one global mapping of the share. *)
(* SMBMount makes the mapping and a link from the staging path to the      *)
(* share, and then a reference file for the volume; SMBUnmount removes the *)
(* reference, the mapping with the last reference, and the link.  Both     *)
(* hold the mutex of the share.  The mapping is removed during unmount     *)
(* (remove-smb-mapping-during-unmount).                                    *)
(*                                                                         *)
(* A thread is a request; from SMBMount on it is the goroutine that        *)
(* WaitUntilTimeout starts.  When the wait ends first, the request has     *)
(* been answered and the thread is detached: it goes on with SMBMount.     *)
(*                                                                         *)
(* csi-proxy is another process, and is modelled from its use: a request   *)
(* is one step, and NewSmbGlobalMapping, when it fails, is assumed not to  *)
(* have removed a mapping that was there.                                  *)
(***************************************************************************)

CONSTANTS
    Threads,   \* goroutines
    Volumes,   \* volumes on the share
    NoVolume,
    NoThread   \* holder of a free mutex

ASSUME MounterAssumption ==
    /\ NoVolume \notin Volumes
    /\ NoThread \notin Threads

VARIABLES
    \* the node: what survives a restart of the driver
    path,      \* the staging path: absent, a directory, or a link to the share
    mapping,   \* is the share mapped?
    refs,      \* volumes with a reference file
    \* the driver process
    locks,     \* volumeLocks: the keys in the set
    mutex,     \* the holder of the mutex of the share
    pc,        \* the step each goroutine is about to take
    vol,       \* the volume it works for, NoVolume when idle
    detached,  \* goroutines whose request has timed out
    \* history: the last answer about each volume, as in NodeStaging, and the volumes
    \* whose mount or unmount stopped between the link and the reference
    told,
    torn

nodeVars == <<path, mapping, refs, torn>>
callVars == <<locks, vol, detached, told>>
vars == <<path, mapping, refs, locks, mutex, pc, vol, detached, told, torn>>

Holding == {"map", "addRef", "decrement", "count", "removeMapping", "rmdirLink"}
MountSteps == {"lockMount", "map", "addRef"}
Returns == {"staged", "unstaged", "failed"}
Labels == {"idle", "ensure", "readDir", "makeDir", "prepare", "readlink", "lockUnmount", "rmdir"}
              \cup Holding \cup MountSteps \cup Returns

\* Steps at which the link is there and the reference is not.
Halfway == {"addRef", "count", "removeMapping", "rmdirLink"}

Init ==
    /\ path = [v \in Volumes |-> "none"]
    /\ mapping = FALSE
    /\ refs = {}
    /\ locks = {}
    /\ mutex = NoThread
    /\ pc = [t \in Threads |-> "idle"]
    /\ vol = [t \in Threads |-> NoVolume]
    /\ detached = {}
    /\ told = [v \in Volumes |-> "nothing"]
    /\ torn = {}

Goto(t, step) == pc' = [pc EXCEPT ![t] = step]

\* Rmdir with Force, of a directory or of a link.
Rmdir(v) == path' = [path EXCEPT ![v] = "none"]

-----------------------------------------------------------------------------
(* Entering and leaving a call.                                            *)

TryAcquire(t, v) ==
    /\ pc[t] = "idle"
    /\ v \notin locks
    /\ locks' = locks \cup {v}
    /\ vol' = [vol EXCEPT ![t] = v]
    /\ told' = [told EXCEPT ![v] = "nothing"]
    /\ UNCHANGED <<nodeVars, mutex, detached>>

NodeStageVolume(t, v) == TryAcquire(t, v) /\ Goto(t, "ensure")
NodeUnstageVolume(t, v) == TryAcquire(t, v) /\ Goto(t, "readlink")

\* The deferred release of the volume lock, and the answer.
Answer(t) ==
    /\ pc[t] \in Returns
    /\ t \notin detached
    /\ locks' = locks \ {vol[t]}
    /\ told' = [told EXCEPT ![vol[t]] = IF pc[t] = "failed" THEN "nothing" ELSE pc[t]]
    /\ vol' = [vol EXCEPT ![t] = NoVolume]
    /\ Goto(t, "idle")
    /\ UNCHANGED <<nodeVars, mutex, detached>>

\* Mutant: prepareStagePath is part of what WaitUntilTimeout waits for.
TimeoutWhilePreparing(t) ==
    /\ pc[t] \in MountSteps \cup {"prepare"}
    /\ t \notin detached
    /\ locks' = locks \ {vol[t]}
    /\ detached' = detached \cup {t}
    /\ UNCHANGED <<nodeVars, mutex, pc, vol, told>>

\* WaitUntilTimeout: the request fails and releases the volume lock, SMBMount goes on.
Timeout(t) ==
    /\ pc[t] \in MountSteps
    /\ t \notin detached
    /\ locks' = locks \ {vol[t]}
    /\ detached' = detached \cup {t}
    /\ UNCHANGED <<nodeVars, mutex, pc, vol, told>>

\* A goroutine whose request has timed out ends.
DetachedEnds(t) ==
    /\ pc[t] \in Returns
    /\ t \in detached
    /\ detached' = detached \ {t}
    /\ vol' = [vol EXCEPT ![t] = NoVolume]
    /\ Goto(t, "idle")
    /\ UNCHANGED <<nodeVars, mutex, locks, told>>

\* A step outside the mutex fails.
Fails(t) ==
    /\ pc[t] \in {"ensure", "readDir", "makeDir", "prepare", "lockMount", "rmdir"}
    /\ Goto(t, "failed")
    /\ UNCHANGED <<nodeVars, mutex, callVars>>

-----------------------------------------------------------------------------
(* The mutex of the share.                                                 *)

\* Mutant: SMBUnmount does not take the mutex.
LockForMountOnly(t) ==
    /\ \/ pc[t] = "lockMount" /\ mutex = NoThread /\ mutex' = t /\ Goto(t, "map")
       \/ pc[t] = "lockUnmount" /\ UNCHANGED mutex /\ Goto(t, "decrement")
    /\ UNCHANGED <<nodeVars, callVars>>

Lock(t) ==
    /\ pc[t] \in {"lockMount", "lockUnmount"}
    /\ mutex = NoThread
    /\ mutex' = t
    /\ Goto(t, IF pc[t] = "lockMount" THEN "map" ELSE "decrement")
    /\ UNCHANGED <<nodeVars, callVars>>

\* The deferred unlock, at the end of SMBMount or SMBUnmount.
EndWith(t, answer) ==
    /\ mutex' = NoThread
    /\ Goto(t, answer)
    /\ UNCHANGED callVars

-----------------------------------------------------------------------------
(* NodeStageVolume: ensureMountPoint and prepareStagePath.                 *)

\* ensureMountPoint: a link is a mount point if csi-proxy finds its target as well,
\* which depends on the server.
EnsureMountPoint(t) ==
    /\ pc[t] = "ensure"
    /\ \/ path[vol[t]] = "link" /\ Goto(t, "readDir")
       \/ Goto(t, "makeDir")
    /\ UNCHANGED <<nodeVars, mutex, callVars>>

\* ensureMountPoint: the share can be read through the link.
AlreadyMounted(t) ==
    /\ pc[t] = "readDir"
    /\ mapping
    /\ Goto(t, "staged")
    /\ UNCHANGED <<nodeVars, mutex, callVars>>

\* ensureMountPoint: it cannot, for want of the mapping or of the server.  The link is
\* removed, the reference is not.
UnmountBad(t) ==
    /\ pc[t] = "readDir"
    /\ Rmdir(vol[t])
    /\ Goto(t, "failed")
    /\ UNCHANGED <<mapping, refs, torn, mutex, callVars>>

\* ensureMountPoint: makeDir.
MakeDir(t) ==
    /\ pc[t] = "makeDir"
    /\ path' = [path EXCEPT ![vol[t]] = IF @ = "none" THEN "dir" ELSE @]
    /\ Goto(t, "prepare")
    /\ UNCHANGED <<mapping, refs, torn, mutex, callVars>>

\* prepareStagePath removes what is at the path, for the link to be created.
PrepareStagePath(t) ==
    /\ pc[t] = "prepare"
    /\ Rmdir(vol[t])
    /\ Goto(t, "lockMount")
    /\ UNCHANGED <<mapping, refs, torn, mutex, callVars>>

-----------------------------------------------------------------------------
(* SMBMount.                                                               *)

\* NewSmbGlobalMapping maps the share if need be, and makes the link.
NewSmbGlobalMapping(t) ==
    /\ pc[t] = "map"
    /\ path[vol[t]] = "none"
    /\ mapping' = TRUE
    /\ path' = [path EXCEPT ![vol[t]] = "link"]
    /\ Goto(t, "addRef")
    /\ UNCHANGED <<refs, torn, mutex, callVars>>

\* It fails, perhaps with the mapping made.  That csi-proxy has then not removed a mapping that
\* was there is an assumption about the server, whose code is not in the repository.
MappingFails(t) ==
    /\ pc[t] = "map"
    /\ mapping' \in {mapping, TRUE}
    /\ EndWith(t, "failed")
    /\ UNCHANGED <<path, refs, torn>>

\* Mutant: the reference file is not named after the volume.
AddRefOfThread(t) ==
    /\ pc[t] = "addRef"
    /\ refs' = refs \cup {t}
    /\ EndWith(t, "staged")
    /\ UNCHANGED <<path, mapping, torn>>

\* Mutant: the reference file is not created.
AddNoRef(t) ==
    /\ pc[t] = "addRef"
    /\ EndWith(t, "staged")
    /\ UNCHANGED nodeVars

\* incementVolumeIDReferencesCount.
AddRef(t) ==
    /\ pc[t] = "addRef"
    /\ refs' = refs \cup {vol[t]}
    /\ torn' = torn \ {vol[t]}
    /\ EndWith(t, "staged")
    /\ UNCHANGED <<path, mapping>>

\* It fails, perhaps after it has created the file: the call returns an error and the
\* link stays.
AddRefFails(t) ==
    /\ pc[t] = "addRef"
    /\ refs' \in {refs, refs \cup {vol[t]}}
    /\ torn' = IF vol[t] \in refs' THEN torn \ {vol[t]} ELSE torn \cup {vol[t]}
    /\ EndWith(t, "failed")
    /\ UNCHANGED <<path, mapping>>

-----------------------------------------------------------------------------
(* SMBUnmount.                                                             *)

\* What is not a link is only removed.
Readlink(t) ==
    /\ pc[t] = "readlink"
    /\ Goto(t, IF path[vol[t]] = "link" THEN "lockUnmount" ELSE "rmdir")
    /\ UNCHANGED <<nodeVars, mutex, callVars>>

\* A link that cannot be read is removed as well, and its reference stays.
ReadlinkFails(t) ==
    /\ pc[t] = "readlink"
    /\ path[vol[t]] = "link"
    /\ Goto(t, "rmdir")
    /\ UNCHANGED <<nodeVars, mutex, callVars>>

RemovePath(t) ==
    /\ pc[t] = "rmdir"
    /\ Rmdir(vol[t])
    /\ torn' = torn \ {vol[t]}
    /\ Goto(t, "unstaged")
    /\ UNCHANGED <<mapping, refs, mutex, callVars>>

\* decrementVolumeIDReferencesCount.
Decrement(t) ==
    /\ pc[t] = "decrement"
    /\ vol[t] \in refs
    /\ refs' = refs \ {vol[t]}
    /\ Goto(t, "count")
    /\ UNCHANGED <<path, mapping, torn, mutex, callVars>>

\* There is no reference file, or it cannot be removed.
DecrementFails(t) ==
    /\ pc[t] = "decrement"
    /\ EndWith(t, "failed")
    /\ UNCHANGED nodeVars

\* getVolumeIDReferencesCount, 0 or not.
Count(t) ==
    /\ pc[t] = "count"
    /\ Goto(t, IF refs = {} THEN "removeMapping" ELSE "rmdirLink")
    /\ UNCHANGED <<nodeVars, mutex, callVars>>

\* getVolumeIDReferencesCount cannot read the directory and returns -1, which is not 0.
CountFails(t) ==
    /\ pc[t] = "count"
    /\ Goto(t, "rmdirLink")
    /\ UNCHANGED <<nodeVars, mutex, callVars>>

RemoveSmbGlobalMapping(t) ==
    /\ pc[t] = "removeMapping"
    /\ mapping' = FALSE
    /\ Goto(t, "rmdirLink")
    /\ UNCHANGED <<path, refs, torn, mutex, callVars>>

RemoveLink(t) ==
    /\ pc[t] = "rmdirLink"
    /\ Rmdir(vol[t])
    /\ torn' = torn \ {vol[t]}
    /\ EndWith(t, "unstaged")
    /\ UNCHANGED <<mapping, refs>>

\* RemoveSmbGlobalMapping or the removal of the link fails, with the reference gone.
UnmountFails(t) ==
    /\ pc[t] \in {"removeMapping", "rmdirLink"}
    /\ torn' = torn \cup {vol[t]}
    /\ EndWith(t, "failed")
    /\ UNCHANGED <<path, mapping, refs>>

-----------------------------------------------------------------------------

\* The driver restarts: what it was doing stops where it was.
Restart ==
    /\ torn' = torn \cup ({vol[t] : t \in {s \in Threads : pc[s] \in Halfway}} \ refs)
    /\ locks' = {}
    /\ mutex' = NoThread
    /\ pc' = [t \in Threads |-> "idle"]
    /\ vol' = [t \in Threads |-> NoVolume]
    /\ detached' = {}
    /\ UNCHANGED <<path, mapping, refs, told>>

Step(t) ==
    \/ Answer(t) \/ Timeout(t) \/ DetachedEnds(t) \/ Fails(t) \/ Lock(t)
    \/ EnsureMountPoint(t) \/ AlreadyMounted(t) \/ UnmountBad(t)
    \/ MakeDir(t) \/ PrepareStagePath(t)
    \/ NewSmbGlobalMapping(t) \/ MappingFails(t) \/ AddRef(t) \/ AddRefFails(t)
    \/ Readlink(t) \/ ReadlinkFails(t) \/ RemovePath(t) \/ Decrement(t) \/ DecrementFails(t)
    \/ Count(t) \/ CountFails(t) \/ RemoveSmbGlobalMapping(t) \/ RemoveLink(t) \/ UnmountFails(t)

Next ==
    \/ \E t \in Threads, v \in Volumes : NodeStageVolume(t, v) \/ NodeUnstageVolume(t, v)
    \/ \E t \in Threads : Step(t)
    \/ Restart

Spec == Init /\ [][Next]_vars

-----------------------------------------------------------------------------

TypeOK ==
    /\ path \in [Volumes -> {"none", "dir", "link"}]
    /\ mapping \in BOOLEAN
    /\ refs \subseteq Volumes
    /\ locks \subseteq Volumes
    /\ mutex \in Threads \cup {NoThread}
    /\ pc \in [Threads -> Labels]
    /\ vol \in [Threads -> Volumes \cup {NoVolume}]
    /\ detached \subseteq Threads
    /\ told \in [Volumes -> {"nothing", "staged", "unstaged"}]
    /\ torn \subseteq Volumes

\* The share is mapped as long as a volume has a reference to it: SMBUnmount of one volume
\* does not take the mapping from another, wherever it fails and whatever is restarted.
ReferencedIsMapped == refs # {} => mapping

\* A volume reported as staged has its link and the mapping until the next call for it,
\* although volumes of the same share come and go, unless a mount or an unmount of the
\* volume stopped between link and reference: the link then makes NodeStageVolume
\* answer "already mounted" without making the reference.
StagedIsMapped ==
    \A v \in Volumes : told[v] = "staged" /\ v \notin torn => path[v] = "link" /\ mapping

\* Between two calls for a volume its staging path changes in one way only: an SMBMount whose
\* request has timed out makes the link where nothing was.  No goroutine removes or replaces
\* what a call for the volume has left, whatever is staged, unstaged or restarted.
BetweenCalls ==
    [][\A v \in Volumes : v \notin locks /\ path'[v] # path[v] =>
          /\ path[v] = "none" /\ path'[v] = "link"
          /\ \E t \in detached : vol[t] = v]_vars
=============================================================================
