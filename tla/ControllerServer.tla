-------------------------- MODULE ControllerServer --------------------------
(***************************************************************************)
(* CreateVolume and DeleteVolume: the controller mounts the share itself,  *)
(* with NodeStageVolume and NodeUnstageVolume, to create, clone, remove or *)
(* archive the subdirectory of a volume.                                   *)
(*                                                                         *)
(* A volume v stands for its name, its id, its subdirectory on the share   *)
(* and its internal mount path; NodeStaging's variables dir and mnt are    *)
(* about the internal mount paths.  Its stage and unstage calls are the    *)
(* internal ones.  What is copied, removed or renamed goes to the share    *)
(* when the path is mounted, and to the directory beneath otherwise.       *)
(*                                                                         *)
(* The caller is an orchestrator that uses a volume only after CreateVolume *)
(* has told it the id, that may repeat any call it has made, and that      *)
(* deletes no volume while it is being cloned.                             *)
(***************************************************************************)
EXTENDS Naturals

CONSTANTS
    \* those of NodeStaging
    Threads, Volumes, Uids, NoUid, NoVolume, KrbUid, Healths, SafeNotMounted,
    KrbFaults, CanRestart, MaxStack, MaxLate,
    Existing,         \* volumes that exist, with data in them, from the start
    Source,           \* the volume a volume is to be a clone of, or NoVolume
    OnDelete,         \* parameter onDelete of the volume, "" when it is not given
    DefaultOnDelete,  \* default-ondelete-policy
    WithSecrets,      \* volumes whose requests carry secrets
    SubDirOrGuest,    \* volumes with a subDir parameter or a guest mount option
    RemoveArchived,   \* remove-archived-volume-path, on by default
    CacheExpires      \* can volDeletionCache entries expire between two calls?

Policies == {"", "delete", "retain", "archive"}

ASSUME ControllerAssumption ==
    /\ NoVolume \notin Volumes
    /\ Existing \subseteq Volumes
    /\ Source \in [Volumes -> Volumes \cup {NoVolume}]
    /\ \A v \in Volumes : Source[v] # v
    /\ OnDelete \in [Volumes -> Policies]
    /\ DefaultOnDelete \in Policies
    /\ WithSecrets \subseteq Volumes
    /\ SubDirOrGuest \subseteq Volumes
    /\ RemoveArchived \in BOOLEAN
    /\ CacheExpires \in BOOLEAN

VARIABLES
    \* the stage and unstage calls and the mounts of the controller
    dir, mnt, health, cache, link, locks, pc, vol, found, late, told,
    \* the SMB share
    share,     \* the subdirectory of each volume
    archived,  \* its archived-<subDir>
    \* the controller process
    opLocks,   \* volumeLocks: the keys <name> and <volumeID> in the set
    deleted,   \* volDeletionCache
    cpc,       \* the step each goroutine is about to take
    op,        \* the call it serves, and the volume
    result,    \* what the call will return
    \* the orchestrator
    known,     \* volumes of which it has received the id
    \* history: the last answer about each volume, "nothing" once a call that
    \* may change the volume has started
    answer

Node == INSTANCE NodeStaging

\* What NodeStaging assumes of its constants.
ASSUME NodeAssumption ==
    /\ NoUid \notin Uids
    /\ KrbUid \in [Volumes -> Uids \cup {NoUid}]
    /\ "ok" \in Healths /\ Healths \subseteq Node!Health
    /\ {SafeNotMounted, KrbFaults, CanRestart} \subseteq BOOLEAN
    /\ {MaxStack, MaxLate} \subseteq Nat

nodeVars == <<dir, mnt, health, cache, link, locks, pc, vol, found, late, told>>
shareVars == <<share, archived>>
ctrlVars == <<share, archived, opLocks, deleted, cpc, op, result, known, answer>>
vars == <<nodeVars, ctrlVars>>

\* The subdirectory is absent, empty, incomplete or complete.
Contents == {"none", "empty", "partial", "data"}

NoOp == [call |-> "none", vol |-> NoVolume]

StageCalls == {"mountVol", "mountSrc", "mountDst"}
UnstageCalls == {"unmountDst", "unmountSrc", "unmountVol"}

Init ==
    /\ Node!Init
    /\ share = [v \in Volumes |-> IF v \in Existing THEN "data" ELSE "none"]
    /\ archived = [v \in Volumes |-> "none"]
    /\ opLocks = {}
    /\ deleted = {}
    /\ cpc = [t \in Threads |-> "idle"]
    /\ op = [t \in Threads |-> NoOp]
    /\ result = [t \in Threads |-> "ok"]
    /\ known = Existing
    /\ answer = [v \in Volumes |-> IF v \in Existing THEN "created" ELSE "nothing"]

-----------------------------------------------------------------------------
(* The volume of a call and what its parameters ask for.                   *)

V(t) == op[t].vol

\* The key of the call in volumeLocks: <name> and <volumeID> are different strings.
OpKey(t) == <<op[t].call, op[t].vol>>

\* CreateVolume: secrets, a uuid (that is, a subDir parameter), or a guest mount option.
CreatesSubDir(v) == v \in WithSecrets \cup SubDirOrGuest

\* newSMBVolume: the parameter, or the default of the driver.
CreationPolicy(v) == IF OnDelete[v] # "" THEN OnDelete[v] ELSE DefaultOnDelete

\* Mutant: the id of a volume to be archived does not say so.
PolicyInIdIfRetained(v) == IF CreationPolicy(v) = "retain" THEN "retain" ELSE ""

\* getVolumeIDFromSmbVol: the policy is part of the id if it is retain or archive.
PolicyInId(v) == IF CreationPolicy(v) \in {"retain", "archive"} THEN CreationPolicy(v) ELSE ""

\* getSmbVolFromID, and DeleteVolume when the id has no policy.
DeletionPolicy(v) == IF PolicyInId(v) # "" THEN PolicyInId(v) ELSE DefaultOnDelete

\* DeleteVolume touches the share only with secrets and unless the policy is retain.
TouchesShare(v) == v \in WithSecrets /\ DeletionPolicy(v) # "retain"

\* The deferred internalUnmount of the volume is registered once it is mounted.
Unwind(v) == IF CreatesSubDir(v) THEN "unmountVol" ELSE "return"

CGoto(t, step) == cpc' = [cpc EXCEPT ![t] = step]
Fail(t) == result' = [result EXCEPT ![t] = "failed"]

-----------------------------------------------------------------------------
(* Receiving a call and answering it.                                      *)

\* Mutant: the key is added without looking whether it is there.
BeginUnlocked(t, call, v) ==
    /\ cpc[t] = "idle"
    /\ opLocks' = opLocks \cup {<<call, v>>}
    /\ op' = [op EXCEPT ![t] = [call |-> call, vol |-> v]]
    /\ result' = [result EXCEPT ![t] = "ok"]
    /\ answer' = [answer EXCEPT ![v] = "nothing"]
    /\ UNCHANGED <<nodeVars, shareVars, deleted, known>>

Begin(t, call, v) ==
    /\ cpc[t] = "idle"
    /\ <<call, v>> \notin opLocks
    /\ opLocks' = opLocks \cup {<<call, v>>}
    /\ op' = [op EXCEPT ![t] = [call |-> call, vol |-> v]]
    /\ result' = [result EXCEPT ![t] = "ok"]
    /\ answer' = [answer EXCEPT ![v] = "nothing"]
    /\ UNCHANGED <<nodeVars, shareVars, deleted, known>>

\* The orchestrator creates a clone only of a volume it knows and has not deleted.
CreateVolume(t, v) ==
    /\ v \notin known
    /\ Source[v] # NoVolume => Source[v] \in known /\ answer[Source[v]] = "created"
    /\ Begin(t, "create", v)
    /\ CGoto(t, IF CreatesSubDir(v) THEN "mountVol"
                ELSE IF Source[v] # NoVolume THEN "mountSrc" ELSE "return")

BeingCloned(v) == \E t \in Threads : op[t].call = "create" /\ Source[V(t)] = v

\* A volume whose deletion is on record, or that is to be retained, needs no mount.
DeleteVolume(t, v) ==
    /\ v \in known
    /\ ~BeingCloned(v)
    /\ Begin(t, "delete", v)
    /\ CGoto(t, IF ~TouchesShare(v) THEN "record"
                ELSE IF v \in deleted THEN "return" ELSE "mountVol")

\* The deferred Release, and the answer.
Answer(t) ==
    /\ cpc[t] = "return"
    /\ opLocks' = opLocks \ {OpKey(t)}
    /\ answer' = [answer EXCEPT ![V(t)] =
                     IF result[t] = "failed" THEN "nothing"
                     ELSE IF op[t].call = "create" THEN "created" ELSE "deleted"]
    /\ op' = [op EXCEPT ![t] = NoOp]
    /\ result' = [result EXCEPT ![t] = "ok"]
    /\ CGoto(t, "idle")
    /\ UNCHANGED <<nodeVars, shareVars, deleted, known>>

-----------------------------------------------------------------------------
(* internalMount and internalUnmount.                                      *)

\* Mutant: the deferred unmount of the volume is made for its source.
TargetMistaken(t) == IF cpc[t] \in {"mountVol", "mountDst", "unmountDst"} THEN V(t) ELSE Source[V(t)]

Target(t) == IF cpc[t] \in {"mountSrc", "unmountSrc"} THEN Source[V(t)] ELSE V(t)

\* The step after the internal call that cpc names, when the call succeeded or not.
\* A failed unmount is only logged.
AfterCall(t, ok) ==
    LET v == V(t) IN
    CASE cpc[t] = "mountVol" ->
            IF ~ok THEN "return"
            ELSE IF op[t].call = "create" THEN "makeSubDir"
            ELSE IF DeletionPolicy(v) = "archive" THEN "removeArchived" ELSE "remove"
      [] cpc[t] = "mountSrc" -> IF ok THEN "mountDst" ELSE Unwind(v)
      [] cpc[t] = "mountDst" -> IF ok THEN "copy" ELSE "unmountSrc"
      [] cpc[t] = "unmountDst" -> "unmountSrc"
      [] cpc[t] = "unmountSrc" -> Unwind(v)
      [] cpc[t] = "unmountVol" -> "return"

CallEnds(t, ok) ==
    /\ CGoto(t, AfterCall(t, ok))
    /\ IF ok \/ cpc[t] \in UnstageCalls THEN UNCHANGED result ELSE Fail(t)
    /\ UNCHANGED <<shareVars, opLocks, deleted, op, known, answer>>

InternalCall(t) ==
    /\ \/ cpc[t] \in StageCalls /\ Node!NodeStageVolume(t, Target(t))
       \/ cpc[t] \in UnstageCalls /\ Node!NodeUnstageVolume(t, Target(t))
    /\ UNCHANGED ctrlVars

\* Another request has the volume mounted or unmounted right now.
InternalAborted(t) ==
    /\ cpc[t] \in StageCalls \cup UnstageCalls
    /\ pc[t] = "idle"
    /\ Target(t) \in locks
    /\ CallEnds(t, FALSE)
    /\ UNCHANGED nodeVars

InternalStep(t) ==
    /\ pc[t] \notin Node!Returns
    /\ Node!Step(t) \/ Node!MountDone(t)
    /\ UNCHANGED ctrlVars

\* Mutant: an internal mount is taken to succeed.
InternalReturnUnchecked(t) ==
    /\ Node!Return(t)
    /\ CallEnds(t, TRUE)

InternalReturn(t) ==
    /\ Node!Return(t)
    /\ CallEnds(t, pc[t] # "failed")

-----------------------------------------------------------------------------
(* CreateVolume.                                                           *)

\* os.MkdirAll of the subdirectory, on the share or, if the share is not mounted, in the
\* local directory.
MakeSubDir(t) ==
    /\ cpc[t] = "makeSubDir"
    /\ IF mnt[V(t)] > 0
       THEN /\ share' = [share EXCEPT ![V(t)] = IF @ = "none" THEN "empty" ELSE @]
            /\ UNCHANGED dir
       ELSE /\ dir' = [dir EXCEPT ![V(t)] = "full"]
            /\ UNCHANGED share
    /\ CGoto(t, IF Source[V(t)] # NoVolume THEN "mountSrc" ELSE "unmountVol")
    /\ UNCHANGED <<mnt, health, cache, link, locks, pc, vol, found, late, told,
                   archived, opLocks, deleted, op, result, known, answer>>

\* Mutant: the error of os.MkdirAll does not reach the caller.
MakeSubDirFailsQuietly(t) ==
    /\ cpc[t] = "makeSubDir"
    /\ CGoto(t, "unmountVol")
    /\ UNCHANGED <<nodeVars, shareVars, opLocks, deleted, op, result, known, answer>>

MakeSubDirFails(t) ==
    /\ cpc[t] = "makeSubDir"
    /\ Fail(t)
    /\ CGoto(t, "unmountVol")
    /\ UNCHANGED <<nodeVars, shareVars, opLocks, deleted, op, known, answer>>

\* Mutant: the source is the mount path, not the subdirectory in it.
SourceSeenAtRoot(v) ==
    IF mnt[Source[v]] > 0 THEN share[Source[v]]
    ELSE IF dir[Source[v]] # "none" THEN "empty" ELSE "none"

\* What "cp -a <source>/." finds.
SourceSeen(v) ==
    IF mnt[Source[v]] > 0 THEN share[Source[v]]
    ELSE IF dir[Source[v]] = "full" THEN "empty" ELSE "none"

\* copyFromVolume: cp succeeds.
Copy(t) ==
    /\ cpc[t] = "copy"
    /\ SourceSeen(V(t)) # "none"
    /\ IF mnt[V(t)] > 0
       THEN /\ share' = [share EXCEPT ![V(t)] =
                            IF @ \in {"none", "empty"} \/ SourceSeen(V(t)) = "data"
                            THEN SourceSeen(V(t)) ELSE @]
            /\ UNCHANGED dir
       ELSE /\ dir[V(t)] # "none"
            /\ dir' = [dir EXCEPT ![V(t)] = "full"]
            /\ UNCHANGED share
    /\ CGoto(t, "unmountDst")
    /\ UNCHANGED <<mnt, health, cache, link, locks, pc, vol, found, late, told,
                   archived, opLocks, deleted, op, result, known, answer>>

\* cp fails, at once or halfway.
CopyFails(t) ==
    /\ cpc[t] = "copy"
    /\ \/ UNCHANGED share
       \/ /\ mnt[V(t)] > 0
          /\ SourceSeen(V(t)) \in {"data", "partial"}
          /\ share' = [share EXCEPT ![V(t)] = "partial"]
    /\ Fail(t)
    /\ CGoto(t, "unmountDst")
    /\ UNCHANGED <<nodeVars, archived, opLocks, deleted, op, known, answer>>

-----------------------------------------------------------------------------
(* DeleteVolume.                                                           *)

\* os.RemoveAll of the subdirectory.  A path that does not exist is removed already.
Remove(t) ==
    /\ cpc[t] = "remove"
    /\ IF mnt[V(t)] > 0
       THEN share' = [share EXCEPT ![V(t)] = "none"] /\ UNCHANGED dir
       ELSE dir' = [dir EXCEPT ![V(t)] = IF @ = "full" THEN "empty" ELSE @] /\ UNCHANGED share
    /\ CGoto(t, "record")
    /\ UNCHANGED <<mnt, health, cache, link, locks, pc, vol, found, late, told,
                   archived, opLocks, deleted, op, result, known, answer>>

\* Mutant: the error of os.RemoveAll does not reach the caller.
RemoveFailsQuietly(t) ==
    /\ cpc[t] = "remove"
    /\ CGoto(t, "unmountVol")
    /\ UNCHANGED <<nodeVars, shareVars, opLocks, deleted, op, result, known, answer>>

\* os.RemoveAll of the subdirectory or of the archived copy fails, perhaps halfway.
RemoveFails(t) ==
    /\ cpc[t] \in {"remove", "removeArchived"}
    /\ Fail(t)
    /\ CGoto(t, "unmountVol")
    /\ LET left(c) == IF c = "data" /\ mnt[V(t)] > 0 THEN {"data", "partial"} ELSE {c} IN
       IF cpc[t] = "remove"
       THEN \E c \in left(share[V(t)]) : share' = [share EXCEPT ![V(t)] = c] /\ UNCHANGED archived
       ELSE /\ RemoveArchived
            /\ \E c \in left(archived[V(t)]) : archived' = [archived EXCEPT ![V(t)] = c]
            /\ UNCHANGED share
    /\ UNCHANGED <<nodeVars, opLocks, deleted, op, known, answer>>

\* Archiving: os.RemoveAll of the archived copy, if the driver is to remove it.
RemoveArchivedCopy(t) ==
    /\ cpc[t] = "removeArchived"
    /\ archived' = [archived EXCEPT ![V(t)] = IF RemoveArchived /\ mnt[V(t)] > 0 THEN "none" ELSE @]
    /\ CGoto(t, "rename")
    /\ UNCHANGED <<nodeVars, share, opLocks, deleted, op, result, known, answer>>

\* Archiving: os.Rename needs the subdirectory and refuses a destination that is a
\* directory already.
Rename(t) ==
    /\ cpc[t] = "rename"
    /\ mnt[V(t)] > 0
    /\ share[V(t)] # "none"
    /\ archived[V(t)] = "none"
    /\ archived' = [archived EXCEPT ![V(t)] = share[V(t)]]
    /\ share' = [share EXCEPT ![V(t)] = "none"]
    /\ CGoto(t, "record")
    /\ UNCHANGED <<nodeVars, opLocks, deleted, op, result, known, answer>>

RenameFails(t) ==
    /\ cpc[t] = "rename"
    /\ Fail(t)
    /\ CGoto(t, "unmountVol")
    /\ UNCHANGED <<nodeVars, shareVars, opLocks, deleted, op, known, answer>>

\* volDeletionCache.Set, before the deferred unmount.
Record(t) ==
    /\ cpc[t] = "record"
    /\ deleted' = deleted \cup {V(t)}
    /\ CGoto(t, IF TouchesShare(V(t)) THEN "unmountVol" ELSE "return")
    /\ UNCHANGED <<nodeVars, shareVars, opLocks, op, result, known, answer>>

-----------------------------------------------------------------------------
(* The environment.                                                        *)

\* The orchestrator receives and saves the id in the answer.
Learn(v) ==
    /\ answer[v] = "created"
    /\ v \notin known
    /\ known' = known \cup {v}
    /\ UNCHANGED <<nodeVars, shareVars, opLocks, deleted, cpc, op, result, answer>>

\* A pod that uses the volume fills it.
PodWrites(v) ==
    /\ v \in known
    /\ answer[v] = "created"
    /\ share[v] = "empty"
    /\ share' = [share EXCEPT ![v] = "data"]
    /\ UNCHANGED <<nodeVars, archived, opLocks, deleted, cpc, op, result, known, answer>>

\* An entry of volDeletionCache is older than its time to live.
CacheExpire(v) ==
    /\ CacheExpires
    /\ v \in deleted
    /\ deleted' = deleted \ {v}
    /\ UNCHANGED <<nodeVars, shareVars, opLocks, cpc, op, result, known, answer>>

\* The controller restarts.  The mounts of its working directory stay.
Restart ==
    /\ Node!Restart
    /\ opLocks' = {}
    /\ deleted' = {}
    /\ cpc' = [t \in Threads |-> "idle"]
    /\ op' = [t \in Threads |-> NoOp]
    /\ result' = [t \in Threads |-> "ok"]
    /\ UNCHANGED <<shareVars, known, answer>>

-----------------------------------------------------------------------------

Work(t) ==
    \/ InternalCall(t) \/ InternalAborted(t) \/ InternalStep(t) \/ InternalReturn(t)
    \/ MakeSubDir(t) \/ MakeSubDirFails(t) \/ Copy(t) \/ CopyFails(t)
    \/ Remove(t) \/ RemoveFails(t) \/ RemoveArchivedCopy(t) \/ Rename(t) \/ RenameFails(t)
    \/ Record(t) \/ Answer(t)

Next ==
    \/ \E t \in Threads, v \in Volumes : CreateVolume(t, v) \/ DeleteVolume(t, v)
    \/ \E t \in Threads : Work(t)
    \/ \E v \in Volumes : Node!LateMount(v) /\ UNCHANGED ctrlVars
    \/ \E v \in Volumes : Learn(v) \/ PodWrites(v) \/ CacheExpire(v)
    \/ Restart

Spec == Init /\ [][Next]_vars

-----------------------------------------------------------------------------

TypeOK ==
    /\ Node!TypeOK
    /\ share \in [Volumes -> Contents]
    /\ archived \in [Volumes -> Contents]
    /\ opLocks \subseteq {"create", "delete"} \X Volumes
    /\ deleted \subseteq Volumes
    /\ cpc \in [Threads -> {"idle", "makeSubDir", "copy", "remove", "removeArchived", "rename",
                           "record", "return"} \cup StageCalls \cup UnstageCalls]
    /\ op \in [Threads -> [call : {"create", "delete"}, vol : Volumes] \cup {NoOp}]
    /\ result \in [Threads -> {"ok", "failed"}]
    /\ known \subseteq Volumes
    /\ answer \in [Volumes -> {"nothing", "created", "deleted"}]

\* A volume reported as created is on the share, for every request that creates a
\* subdirectory, and stays there until its deletion is asked for, whatever calls for
\* other volumes, timed-out mounts and restarts happen in between.
CreatedIsOnShare ==
    \A v \in Volumes : answer[v] = "created" /\ CreatesSubDir(v) => share[v] # "none"

\* A volume reported as created from a volume with data has all of the data, even when
\* another clone of the same source unmounts it, and after a copy that failed halfway.
CloneIsComplete ==
    \A v \in Volumes :
        answer[v] = "created" /\ Source[v] \in Existing => share[v] = "data"

\* A volume created with the policy to delete or archive it, and reported as deleted, is gone
\* from its place on the share.  Without secrets in the request the driver leaves the share
\* alone.
DeletedIsGone ==
    \A v \in WithSecrets :
        answer[v] = "deleted" /\ CreationPolicy(v) # "retain" => share[v] = "none"

\* No step takes the last copy of the data of a volume that was created with the policy to
\* retain or archive it, and whose id the orchestrator has: whatever calls are repeated and
\* wherever they are interrupted, the data is in the subdirectory or in the archived one.
DataIsKept ==
    [][\A v \in known :
          /\ CreationPolicy(v) \in {"retain", "archive"}
          /\ "data" \in {share[v], archived[v]}
          => "data" \in {share'[v], archived'[v]}]_vars

\* What a request does to the subdirectory of its volume it does on the share, never in
\* the local directory beneath the mount.
WorksOnShare ==
    \A t \in Threads :
        cpc[t] \in {"makeSubDir", "copy", "remove", "removeArchived", "rename"} => mnt[V(t)] > 0

\* The internal mount paths are handled as staging paths are: whatever the requests do, all
\* that happens to the mounts, their directories and the locks is the work of NodeStageVolume
\* and NodeUnstageVolume, so that what these promise holds in the controller as well.
MountsAsNode == Node!Spec

Contract == INSTANCE VolumeContract WITH
    Provided <- {v \in Volumes : CreatesSubDir(v)},
    Filled <- {v \in Volumes : Source[v] \in Existing},
    Touched <- WithSecrets,
    Policy <- [v \in Volumes |->
                  IF CreationPolicy(v) \in {"retain", "archive"} THEN CreationPolicy(v) ELSE "delete"],
    requests <- opLocks

\* CreateVolume and DeleteVolume, with all that may happen between their steps, keep the
\* promises of VolumeContract: one request at a time works on a volume, what they answer is so,
\* and no other request, late mount or restart changes the volume in between.
KeepsVolumeContract == Contract!Spec
=============================================================================
