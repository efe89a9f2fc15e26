# Verification of the SMB CSI driver

TLA+ models of the SMB CSI driver (`src/pkg/smb`, `src/pkg/util`, `src/pkg/mounter`, `src/pkg/os`), checked with
TLC on small instances. The safety properties of all parts that are modelled are also proved with TLAPS, for every
number of goroutines, volumes, targets and Kerberos users.

## The system

The driver is one Go process per node, and one with the same code as the controller. gRPC serves
each request in a goroutine of its own. Requests come from an orchestrator (the kubelet on a node,
the external provisioner at the controller), which repeats a call that failed or was not answered.

| Part | State | Operations | Source | Module |
|---|---|---|---|---|
| Volume locks | a set of keys | `TryAcquire`, `Release` | `volume_lock.go` | all |
| Stage and unstage | staging directory, mounts | `NodeStageVolume`, `NodeUnstageVolume`, `ensureMountPoint`, `CleanupMountPoint` | `nodeserver.go`, `smb_common_linux.go`, `vendor/k8s.io/mount-utils` | `NodeStaging` |
| Mount with timeout | mount commands still running | `WaitUntilTimeout` | `util.go` | `NodeStaging` |
| Kerberos tickets | one ticket file per volume, one link `krb5cc_<cruid>` per user | `ensureKerberosCache`, `deleteKerberosCache` | `nodeserver.go` | `NodeStaging` |
| Publish and unpublish | target directories, bind mounts | `NodePublishVolume`, `NodeUnpublishVolume` | `nodeserver.go` | `NodePublish` |
| Statistics | timed cache by volume id | `NodeGetVolumeStats` | `nodeserver.go` | `NodePublish` |
| Create, clone, delete | subdirectories and archives on the share, internal mounts | `CreateVolume`, `DeleteVolume`, `copyFromVolume`, `internalMount`, `internalUnmount` | `controllerserver.go` | `ControllerServer` |
| Deletion cache | recently deleted volumes, one minute | `Get`, `Set` | `smb.go`, `azure_cache.go` | `ControllerServer` |
| Volume id, parameters | the policy `onDelete` in the id | `newSMBVolume`, `getVolumeIDFromSmbVol`, `getSmbVolFromID` | `controllerserver.go` | `ControllerServer` (policy only) |
| Windows, csi-proxy | global mappings, reference files, links | `SMBMount`, `SMBUnmount` | `safe_mounter_windows.go`, `refcounter_windows.go` | `CsiProxyMounter` |
| Windows, host process | global mappings, links | `SMBMount`, `SMBUnmount` | `safe_mounter_host_process_windows.go`, `pkg/os` | `HostProcessMounter` |
| Identity, server, start | none | | `identityserver.go`, `csi-common`, `cmd` | |

How they interact: stage and unstage take the lock `volumeID-stagingPath`, create the lock `name`,
delete the lock `volumeID`; publish and unpublish take none, except for inline volumes, which publish by a stage call. Create
and delete mount the share by calling stage and unstage in the same process, with a working directory in place of a
staging path.

What is hard here: a mount command outlives the call that gave up on it and released the lock;
mounts break under the driver in several ways; the process restarts between any two system calls
while mounts, directories and tickets stay; calls for different volumes meet on one
`krb5cc_<cruid>`, on one mapping of a Windows node and on the mount of one clone source; the locks of create and
delete are different keys; calls are repeated after they have had their effect. `PROJECT.json` lists the
places under `hazards`.

## Modules

**`StagingContract`** is what stage and unstage promise to their callers, for each volume: one call at a time, an
answer that is true when it is given, and that stays true until the next call for the volume. Between the start of a
call and its answer anything may happen to the staging path, to that of no other volume.

**`NodeStaging`** models stage and unstage on Linux. A volume stands for its id, its staging path
and its ticket file. `pc[t]` is the next step of goroutine `t`: a step is one system call, or several
whose order nothing can observe. `dir`, `mnt` and `health` are the staging directory, the number of
mounts stacked on it and the health of the topmost; `cache` and `link` are the ticket files and the
links; `late` counts the mount commands whose callers have timed out. `Fails` is the error return
of a step. `told` is history: the last answer about a volume, forgotten as soon as a call for
the volume starts, so that `told[v] = "staged" => ...` speaks of all the time until that call.
Mount options, credentials and secrets are abstracted: they decide only whether a call
fails early, which `Fails` allows. The refinement mapping (`Contract`) takes `mnt[v] > 0` for `mounted`, the
existence of the directory for `present`, and for `call` the kind of the call that holds the lock of the volume.

**`NodePublish`** models publish, unpublish and the statistics on Linux. The staging paths beneath are an instance
of `StagingContract` and not of `NodeStaging`: the properties need no more than the contract, which the refinement
shows that `NodeStaging` keeps. `stack[p]` is what is mounted on target `p`, the topmost first: `"share"`, or `"local"` when a
bind mount was made of a staging path without a mount; `dirs` are the targets that exist. An inline volume is mounted
on the target by the steps of `NodeStageVolume`, under its lock and with a mount that may end late. A bind mount whose
remount fails stays (`Bind`). `cached` are the volume ids with an entry in the cache of statistics. `abandoned` are the
calls whose caller has gone. The orchestrator publishes a volume only while it is staged, unstages it only when no target
uses it and makes one publish or unpublish call for a target at a time; with `Overlap` it gives calls up and makes the
next. Statistics it asks for at any time.

**`ControllerServer`** models create, clone and delete on top of an instance of `NodeStaging`,
which is about the internal mounts. `cpc[t]` is the next step of the request of `t`; while it is one of the
internal mounts or unmounts, the goroutine runs a stage or unstage call, whose result decides the next
step (`AfterCall`, with the deferred unmounts). `share[v]` is the subdirectory of the volume: absent,
empty, incomplete or complete; `archived[v]` is its archived copy. File operations act on the share
when it is mounted on the internal path, else on the local directory. The environment is an orchestrator that uses a
volume only when it knows its id, repeats calls at will and, as the external provisioner's
finalizer does, does not delete a volume that is being cloned. `MountsAsNode` says that what happens to the
variables of the internal mounts is a behaviour of `NodeStaging`; it is proved (`MountsLikeNode`) and in no run, since
TLC would try every action of `NodeStaging` on every step. The refinement mapping to `VolumeContract`
(`Contract`) takes the keys in `volumeLocks` for the requests in progress.

**`VolumeContract`** is what create and delete promise to the orchestrator, for each volume: one request at a time; an
answer that is true when it is given; a subdirectory that changes only while a request for the volume is in progress or
because a pod writes to it; a creation that never takes data away, and a deletion that does what the volume's policy
says: nothing, a rename to a name that is free, or a removal.

**`CsiProxyMounter`** models stage and unstage on a Windows node with csi-proxy, for the volumes of one share.
`path`, `mapping` and `refs` are the staging paths, the global mapping of the share and the reference files;
`mutex` is the lock of the share in `refcounter_windows.go`. A thread whose request has timed out is `detached` and
goes on with `SMBMount`. `torn` is history: the volumes whose mount or unmount stopped, by a failure or a
restart, when the link was there and the reference was not. csi-proxy is external and modelled from its use. Two
assumptions are made about it, on which `ReferencedIsMapped` and `StagedIsMapped` rest, in the run and in the theorems: a
request is one step, which a restart of the driver finds done or not begun; and a `NewSmbGlobalMapping` that fails has
not removed a mapping that was there. A csi-proxy server that removes a mapping it finds invalid, and then cannot make it
again, takes it from every volume of the share; the driver cannot see or prevent this. The two properties are therefore
about what the driver does to the mapping.

**`HostProcessMounter`** models the same calls where the driver runs as a host process, for the volumes of one remote
path: no mutex, no references, and a search of a directory before `SMBUnmount` removes the mapping. That directory is
the one of another driver (`file.csi.azure.com`); `azureDir` says whether it exists. `SMBMount` removes a mapping that
fails its test, for all volumes, and may fail to make it again. PowerShell is external, one step for a command.
A link can be read only while the share is mapped.

The modules named `...Proofs` hold the theorems, those named `MC...` the instances for TLC. In the models the
definitions marked "Mutant" are broken variants of the definition that follows: replaced by one, the property named
with it in `PROJECT.json` no longer holds.

## Runs

| Run | Shows |
|---|---|
| `staging` | what a call answered stays true until the next call for that volume (`StagedIsMounted`, `UnstagedIsClean`), the lock keys are those of the calls in progress (`LocksAreHeld`), a volume alone with its cruid finds its own ticket (`OwnTicketServed`), the calls implement `StagingContract` (`KeepsContract`) and every call returns (`CallsReturn`): with mounts that break, late and stacked mounts, an `umount` that cannot be trusted to say "not mounted", failing operations on the ticket directory and restarts |
| `kerberos_shared` | two volumes with one cruid, a third without, three goroutines: `krb5cc_<cruid>` never dangles (`LinksLeadToTickets`), an unstaged volume leaves no ticket (`UnstagedHasNoTicket`) |
| `publish` | two pods with one volume, and an inline volume: a published target shows the share and not the disk of the node (`PublishedServesShare`), an unpublished one is gone (`UnpublishedIsClean`), with statistics asked for at any time |
| `clones` | two clones that share the mount of their source: a clone reported as created has all the data (`CloneIsComplete`), no request works on the local directory in place of the share (`WorksOnShare`), the requests implement `VolumeContract` (`KeepsVolumeContract`), with restarts, a deletion, a retained volume and timed-out mounts |
| `volumes` | a volume to archive, one to retain, one to delete: a created volume is on the share (`CreatedIsOnShare`), a deleted or archived one is gone from its place (`DeletedIsGone`), data to be retained or archived is never lost (`DataIsKept`), with restarts, expired deletion records and removals that fail halfway, and with `remove-archived-volume-path` off |
| `csi_proxy` | the share stays mapped while a volume has a reference (`ReferencedIsMapped`); a staged volume keeps link and mapping while others come and go, unless it is torn (`StagedIsMapped`); between two calls for a volume its path changes only when a mount that outlived its request makes the link (`BetweenCalls`) |
| `host_process` | a staged volume keeps its link, whatever earlier calls have left at its path or still do there (`StagedIsLinked`); `BetweenCalls` as above |

These runs find the code at odds with its comments or documents:

| Run | Violates | Finding |
|---|---|---|
| `kerberos_lost_link` | `TicketServed` | unstaging one of two volumes with one cruid takes the link of the other along |
| `publish_race` | `PublishedServesShare` | publish and unpublish ignore the volume locks: an abandoned unpublish call unmounts a target that was published again |
| `archive_retry` | `DataIsKept` | in the default configuration (`remove-archived-volume-path` is on, `cmd/smbplugin/main.go:51`) `DeleteVolume` repeated after a restart removes the archive it has made |
| `explicit_delete` | `DeletedIsGone` | `onDelete: delete` is not in the volume id, so the driver's default policy replaces it |
| `host_mapping` | `MappingIsKept` | `SMBUnmount` searches the directory of another driver: where it exists, unstaging one volume removes the mapping of the others |

Bounds. Two goroutines and two volumes are enough for a call to meet another one for the same
volume, for another volume, and a late mount; `kerberos_shared` takes three of each, so that a volume without Kerberos
comes in between. More volumes with one cruid are left to the theorems. `MaxLate`, the timed-out mount commands per path,
is 2 in `staging`, `publish` and `volumes`, so that a late mount meets a retry that times out as well; with 1 (`clones`,
`kerberos_shared`) a path with a late mount is not mounted again until the command has ended. `MaxStack` is 2 where stacked mounts
matter, so that an unmount leaves a mount behind, and 1 in `kerberos_shared`. Counters have no other bound. `staging` leaves out the health
"denied" and `SafeNotMounted = TRUE`; the latter is in `clones`, `volumes` and `kerberos_shared`, and the theorems cover both.
`csi_proxy` and `host_process` take three goroutines: one that has timed out, the retry, and a call for the other volume.
Symmetry is over goroutines, in the Windows runs over volumes and in `publish` over the two pods too, which are
interchangeable; `staging` uses none, since it checks liveness.

Fairness. `FairSpec` assumes weak fairness of `Step(t)`, the steps a call takes by itself: the Go
scheduler runs every goroutine, and local system calls return. The end of the mount command
(`MountDone`, `LateMount`) is not fair, as nothing makes the server answer; `CallsReturn` therefore
rests on the timer. Calls on a mounted share without a timeout (`ReadDir`, `umount`) are assumed to
return: see the hazards.

## Proofs

All theorems are for all sets of goroutines, volumes, targets and users and all bounds, from the named assumptions on
constants (`ConstantsAssumption`, `PublishAssumption`, `ControllerAssumption`, `MounterAssumption`, `HostAssumption`: the
constants have their types, and the value for "none" is not a member of the set). Each invariant follows from
`Init => Inv` and `Inv /\ [Next]_vars => Inv'`, with one case for each action. None of the properties is inductive by
itself; what has to be added is the argument:

- `NodeStagingProofs`. `TypeCorrect`; `LocksHeld`: no key is lost on an error path and no two goroutines work on one
  volume. `StagedStaysMounted` and `UnstagedStaysClean` rest on `PathInv`, what a call has achieved at each `pc`: a
  goroutine about to answer "staged" has a mount, one past the removal of the path has neither mount nor
  directory, and there is never a mount without a directory. The last is what keeps late mounts away from an unstaged
  volume: `mount` needs its mount point. `ImplementsContract`: `Spec => KeepsContract`. A step of a call is a step of the
  contract for its volume, because the lock gives it the volume to itself (`LockInv`), and it is a true answer by `PathInv`.
- `KerberosProofs`. `TicketOfExclusiveUid`: `OwnTicketServed`, also with failing operations on the ticket directory; `OwnInv`
  says where the link of an exclusive cruid points at each step of the only volume that uses it. `TicketsCleanedUp` and
  `LinksNeverDangle` when operations on the ticket directory do not fail (`~KrbFaults`): `CleanInv` relates `found`,
  `link` and `cache` at the steps of `deleteKerberosCache`. The removal by name is harmless because only the unstaged
  volume's own stage call could point the link at its ticket, and the lock excludes it.
- `NodePublishProofs`. `PublishedShowsShare` and `UnpublishedStaysClean`, when the orchestrator makes one publish or
  unpublish call for a target at a time (`~Overlap`; `publish_race` shows that it is needed). `PInv`: calls for a target
  are apart and answers are withdrawn when a call starts (`Apart`); a volume that is being published is staged, so it is
  mounted by the contract (`Staged`); hence only the share is ever mounted on a target (`Served`). Without that
  assumption `TypeCorrect` and `InlineCallsApart` still hold: the key of an inline target belongs to the one publish
  call that works on it (`TInv`), so that only `NodeUnpublishVolume`, which takes no lock, can interfere with it.
- `ControllerProofs`. `Control` says which request may be at which step, with which policy, holding which key; from it,
  the internal path of a request is used by no other request (`OwnPath`), though the path of a clone source is. `Paths` adds
  that an internal call is the one its request waits for and has the mount when it reports it, and gives
  `RequestsWorkOnShare`. `KeepsData`: `DataIsKept` when `remove-archived-volume-path` is switched off. The flag is on by
  default (`cmd/smbplugin/main.go:51`), and in the default configuration the property does not hold: `archive_retry`.
- `ControllerOutcomeProofs`. `Outcomes` says what is on the share at each step of a request and after each answer:
  `CreationIsReal`, `ClonesAreComplete`, and `DeletionIsReal` unless the driver's default policy is to retain or
  archive, which is the case of `explicit_delete`. `ImplementsVolumeContract`: `Spec => KeepsVolumeContract`, without that
  case and with `remove-archived-volume-path` off, as for `KeepsData`. TLC checks it with volumes to be deleted and
  retained (`clones`), archival is left to the theorem. `Keys` excludes that one volume has a creation and a deletion in progress,
  though their keys differ: the orchestrator deletes what it knows and creates what it does not. Work on the share is then
  a contract step by `Paths`, and an answer by `Outcomes`.
- `ControllerNodeProofs`. `MountsLikeNode`: every step of a request is a step of `NodeStaging` on the internal mounts, or
  leaves them alone; only without a mount would work on the share change the directory beneath, and `Paths` excludes
  that. With the theorems about `NodeStaging`, taken over by instantiation, follow `InternalCallsKeepContract` (the internal mounts
  keep `StagingContract`) and `TypeCorrect`.
- `CsiProxyMounterProofs`. `MappingOutlivesReferences` and `StagedStaysMapped`. `IInv` has `TypeOK` and four parts: who
  holds mutex and locks (`Exclusion`); a reference that is there or about to be made has the mapping, and the
  mapping is about to be removed only when there is none (`Mapped`); a link has a reference, or is torn, or
  a goroutine is between the two (`LinkAccounted`); only the holder of the volume lock removes a path, so a staged
  volume has its link (`StagedHasLink`). If a staged volume is without reference and not torn, the goroutine between the
  two can only be a detached one about to make the reference, and then the mapping is there. `QuietBetweenCalls`:
  `BetweenCalls`, as a path whose lock is free is touched by detached goroutines only (`Exclusion`).
- `HostProcessProofs`. `StagedKeepsLink`. `HInv`: detached goroutines are in `SMBMount`, which makes links and removes
  none (`Exclusion`), and a call about to answer "staged" has its link (`Linked`). `QuietBetweenCalls` as above.

Only `CallsReturn` is model-checked and not proved: liveness under fairness is out of the prover's reach.

## Not modelled

- The identity service, the gRPC server, flags and metrics: they have no state of their own.
- The text of mount options, credentials, volume ids and parameters. A volume stands for all its names, so two
  volumes with one `subDir`, and ids in which the separator occurs, are left out.
- A system call that hangs on a mounted share, and PowerShell commands that hang or wait for their semaphore: nothing
  in the code ends them.
- The temporary credentials file of the mount command, which no call looks at again.
- The Kerberos ticket of an inline volume.
- On Windows, `remove-smb-mapping-during-unmount=false` and the v1beta mounter, where no mapping is ever removed,
  and the links made by publish.

Limits of the code, which the models have and no document excludes, so that they are hazards and not findings:

- A torn volume. After a restart between mapping and reference, the repeated `NodeStageVolume` finds the link and
  answers without making the reference, so another volume's unmount may remove the mapping; after one between the
  removal of the reference and that of the link, `SMBUnmount` fails each time it is repeated.
- On Windows an `SMBMount` that outlives its request can make the link after an unstage call has answered; on Linux the
  mount fails, because the directory is gone.
- When the `stat` of a ticket fails with another error than "not found", `deleteKerberosCache` leaves the ticket and
  the call succeeds. `UnstagedHasNoTicket` is about the case without such errors.
- Statistics asked for while a target is being published or unpublished, or when it is not mounted, measure the disk of
  the node, and this stays in the cache of the volume for minutes. No property speaks of the statistics.
- The host-process `SMBMount` of one volume removes the mapping of the remote path when `PathValid` says that it is not
  valid, or fails ("ignore error"), and when it cannot make it again the other staged volumes are without. No property
  says that a staged volume of this mounter has its mapping.
- `DeleteVolume` of an archived volume, repeated after a restart, fails each time (`RenameFails`).
