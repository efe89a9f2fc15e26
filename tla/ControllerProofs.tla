-------------------------- MODULE ControllerProofs --------------------------
(***************************************************************************)
(* Proofs about ControllerServer, for every number of requests, volumes    *)
(* and clones.  The argument has three layers: which request may be where  *)
(* (Control), what it knows about the mount it works on (Paths), and what  *)
(* is on the share by the time it answers, in ControllerOutcomeProofs.     *)
(***************************************************************************)
EXTENDS ControllerServer, TLAPS

CallSteps == {"idle", "makeSubDir", "copy", "remove", "removeArchived", "rename", "record",
              "return"} \cup StageCalls \cup UnstageCalls

CloneSteps == {"mountSrc", "mountDst", "copy", "unmountDst", "unmountSrc"}

\* The types of the variables of the requests and of the share.
ControlTypes ==
    /\ share \in [Volumes -> Contents]
    /\ archived \in [Volumes -> Contents]
    /\ cpc \in [Threads -> CallSteps]
    /\ op \in [Threads -> [call : {"create", "delete"}, vol : Volumes] \cup {NoOp}]
    /\ known \subseteq Volumes
    /\ answer \in [Volumes -> {"nothing", "created", "deleted"}]

\* Requests in progress hold their key, which no two of them share.  A volume is created as
\* long as its id is not known, and deleted afterwards.
Requests ==
    /\ \A t \in Threads : cpc[t] = "idle" <=> op[t] = NoOp
    /\ \A t \in Threads : cpc[t] # "idle" => OpKey(t) \in opLocks /\ answer[V(t)] = "nothing"
    /\ \A s, t \in Threads : cpc[s] # "idle" /\ cpc[t] # "idle" /\ OpKey(s) = OpKey(t) => s = t
    /\ \A t \in Threads : op[t].call = "create" => V(t) \notin known
    /\ \A t \in Threads : op[t].call = "delete" => V(t) \in known

\* The source of a clone in progress is a volume that nobody is deleting.
Sources ==
    \A t \in Threads : op[t].call = "create" /\ Source[V(t)] # NoVolume =>
        Source[V(t)] \in known /\ answer[Source[V(t)]] = "created"

\* May a request for the call o be at the step?  Data to be kept is not where it could be
\* removed, and without secrets nothing is.
MayBeAt(o, step) ==
    /\ step \in CloneSteps => o.call = "create" /\ Source[o.vol] # NoVolume
    /\ step = "makeSubDir" => o.call = "create"
    /\ step \in {"remove", "removeArchived", "rename", "record"} => o.call = "delete"
    /\ step = "mountVol" /\ o.call = "delete" => DeletionPolicy(o.vol) # "retain"
    /\ step = "remove" => DeletionPolicy(o.vol) \notin {"retain", "archive"}
    /\ step \in {"removeArchived", "rename"} => DeletionPolicy(o.vol) = "archive"
    /\ step \in {"mountVol", "remove", "removeArchived", "rename"} /\ o.call = "delete" =>
          o.vol \in WithSecrets

Positions == \A t \in Threads : MayBeAt(op[t], cpc[t])

Control == ControlTypes /\ Requests /\ Sources /\ Positions

\* The internal mount path of a request is used by no other request, neither as its own nor
\* as the source of its clone.
LEMMA OwnPath ==
    ASSUME Control, NEW s \in Threads, NEW t \in Threads, s # t,
           cpc[s] # "idle", cpc[t] # "idle"
    PROVE  V(s) # V(t) /\ Target(s) # V(t)
<1>1. /\ op[s] \in [call : {"create", "delete"}, vol : Volumes]
      /\ op[t] \in [call : {"create", "delete"}, vol : Volumes]
  BY DEF Control, ControlTypes, Requests
<1>2. V(s) # V(t)
  <2>1. CASE op[s].call = op[t].call
    BY <2>1 DEF Control, Requests, OpKey, V
  <2>2. CASE op[s].call # op[t].call
    BY <1>1, <2>2 DEF Control, Requests, V
  <2> QED
    BY <2>1, <2>2
<1>3. Target(s) = V(s) \/ (op[s].call = "create" /\ Source[V(s)] # NoVolume /\ Target(s) = Source[V(s)])
  BY DEF Target, Control, Positions, MayBeAt, CloneSteps, V
<1>4. answer[V(t)] = "nothing"
  BY DEF Control, Requests
<1> QED
  BY <1>2, <1>3, <1>4 DEF Control, Sources

\* A request moves to a step it may be at.
Moves(t, step) ==
    /\ cpc[t] # "idle"
    /\ cpc' = [cpc EXCEPT ![t] = step]
    /\ step \in CallSteps \ {"idle"}
    /\ MayBeAt(op[t], step)
    /\ UNCHANGED <<opLocks, op, known, answer>>

LEMMA ControlMoves ==
    ASSUME Control, NEW t \in Threads, NEW step, Moves(t, step),
           share' \in [Volumes -> Contents], archived' \in [Volumes -> Contents]
    PROVE  Control'
<1> USE DEF Control, Moves
<1>1. ControlTypes'
  BY DEF ControlTypes
<1>2. Requests'
  BY DEF ControlTypes, Requests, OpKey, V
<1>3. Sources'
  BY DEF Sources, V
<1>4. Positions'
  BY DEF ControlTypes, Positions
<1> QED
  BY <1>1, <1>2, <1>3, <1>4

\* An internal call ends, or is refused: the request goes on as AfterCall says.
LEMMA AfterCallMoves ==
    ASSUME Control, NEW t \in Threads, NEW ok \in BOOLEAN,
           cpc[t] \in StageCalls \cup UnstageCalls, CallEnds(t, ok)
    PROVE  Moves(t, AfterCall(t, ok)) /\ UNCHANGED shareVars /\ Control'
<1> USE DEF CallSteps, StageCalls, UnstageCalls
<1>1. op[t] \in [call : {"create", "delete"}, vol : Volumes] /\ MayBeAt(op[t], cpc[t])
  BY DEF Control, ControlTypes, Requests, Positions
<1>2. AfterCall(t, ok) \in CallSteps \ {"idle"} /\ MayBeAt(op[t], AfterCall(t, ok))
  BY <1>1 DEF AfterCall, Unwind, MayBeAt, CloneSteps, V
<1>3. Moves(t, AfterCall(t, ok)) /\ UNCHANGED shareVars
  BY <1>2 DEF Moves, CallEnds, CGoto
<1>4. Control'
  BY <1>3, ControlMoves DEF shareVars, Control, ControlTypes
<1> QED
  BY <1>3, <1>4

\* What a request does to the share.
ShareWork(t) ==
    \/ MakeSubDir(t) \/ MakeSubDirFails(t) \/ Copy(t) \/ CopyFails(t)
    \/ Remove(t) \/ RemoveFails(t) \/ RemoveArchivedCopy(t) \/ Rename(t) \/ RenameFails(t)
    \/ Record(t)

LEMMA ShareWorkMoves ==
    ASSUME Control, NEW t \in Threads, ShareWork(t)
    PROVE  /\ \E step \in CallSteps : Moves(t, step)
           /\ share' \in [Volumes -> Contents] /\ archived' \in [Volumes -> Contents]
<1> USE DEF CGoto, CallSteps, StageCalls, UnstageCalls, CloneSteps
<1>1. /\ op[t] \in [call : {"create", "delete"}, vol : Volumes] \cup {NoOp} /\ MayBeAt(op[t], cpc[t])
      /\ share \in [Volumes -> Contents] /\ archived \in [Volumes -> Contents]
  BY DEF Control, ControlTypes, Positions
<1>2. /\ cpc[t] # "idle" /\ UNCHANGED <<opLocks, op, known, answer>>
      /\ \E step \in CallSteps \ {"idle"} : MayBeAt(op[t], step) /\ cpc' = [cpc EXCEPT ![t] = step]
  <2>1. CASE MakeSubDir(t) \/ MakeSubDirFails(t)
    BY <1>1, <2>1 DEF MakeSubDir, MakeSubDirFails, MayBeAt, V
  <2>2. CASE Copy(t) \/ CopyFails(t)
    BY <1>1, <2>2 DEF Copy, CopyFails, MayBeAt
  <2>3. CASE Remove(t)
    BY <1>1, <2>3, Zenon DEF Remove, MayBeAt
  <2>4. CASE RemoveFails(t) \/ RenameFails(t)
    BY <1>1, <2>4 DEF RemoveFails, RenameFails, MayBeAt
  <2>5. CASE RemoveArchivedCopy(t) \/ Rename(t)
    BY <1>1, <2>5 DEF RemoveArchivedCopy, Rename, MayBeAt
  <2>6. CASE Record(t)
    BY <1>1, <2>6, Zenon DEF Record, MayBeAt
  <2> QED
    BY <2>1, <2>2, <2>3, <2>4, <2>5, <2>6 DEF ShareWork
<1>3. V(t) \in Volumes
  BY <1>2 DEF Control, ControlTypes, Requests, V
<1>4. share' \in [Volumes -> Contents] /\ archived' \in [Volumes -> Contents]
  <2> USE DEF Contents, shareVars
  <2>1. CASE MakeSubDir(t) \/ MakeSubDirFails(t)
    BY <1>1, <1>3, <2>1 DEF MakeSubDir, MakeSubDirFails
  <2>2. CASE Copy(t) \/ CopyFails(t)
    <3>1. SourceSeen(V(t)) \in Contents
      <4>1. Source[V(t)] \in Volumes
        BY <1>1, <1>3, <2>2, ControllerAssumption DEF Copy, CopyFails, MayBeAt, V
      <4> QED
        BY <1>1, <4>1 DEF SourceSeen
    <3> QED
      BY <1>1, <1>3, <2>2, <3>1 DEF Copy, CopyFails
  <2>3. CASE Remove(t) \/ RenameFails(t) \/ Record(t)
    BY <1>1, <1>3, <2>3 DEF Remove, RenameFails, Record
  <2>4. CASE RemoveFails(t)
    BY <1>1, <1>3, <2>4 DEF RemoveFails
  <2>5. CASE RemoveArchivedCopy(t) \/ Rename(t)
    BY <1>1, <1>3, <2>5 DEF RemoveArchivedCopy, Rename
  <2> QED
    BY <2>1, <2>2, <2>3, <2>4, <2>5 DEF ShareWork
<1> QED
  BY <1>2, <1>4, Zenon DEF Moves

LEMMA ControlInit == Init => Control
<1> SUFFICES ASSUME Init PROVE Control
  OBVIOUS
<1>1. ControlTypes
  BY ControllerAssumption DEF Init, ControlTypes, CallSteps, Contents
<1>2. Requests /\ Sources /\ Positions
  BY <1>1 DEF Init, Requests, Sources, Positions, MayBeAt, CloneSteps, NoOp
<1> QED
  BY <1>1, <1>2 DEF Control

\* A request is received.
LEMMA ControlBegins ==
    ASSUME Control, NEW t \in Threads, NEW v \in Volumes, CreateVolume(t, v) \/ DeleteVolume(t, v)
    PROVE  Control' /\ UNCHANGED <<nodeVars, shareVars>>
<1>1. PICK call \in {"create", "delete"} : Begin(t, call, v) /\ (call = "create" <=> v \notin known)
  BY DEF CreateVolume, DeleteVolume
<1>2. PICK step \in CallSteps \ {"idle"} :
         cpc' = [cpc EXCEPT ![t] = step] /\ MayBeAt([call |-> call, vol |-> v], step)
  <2> USE DEF CallSteps, StageCalls, UnstageCalls, CloneSteps, MayBeAt, CGoto
  <2>1. CASE call = "create"
    <3> DEFINE step == IF CreatesSubDir(v) THEN "mountVol"
                       ELSE IF Source[v] # NoVolume THEN "mountSrc" ELSE "return"
    <3>1. cpc' = [cpc EXCEPT ![t] = step]
      BY <1>1, <2>1 DEF CreateVolume, DeleteVolume
    <3>2. step \in CallSteps \ {"idle"} /\ MayBeAt([call |-> call, vol |-> v], step)
      BY <2>1
    <3> QED
      BY <3>1, <3>2, Zenon
  <2>2. CASE call = "delete"
    <3> DEFINE step == IF ~TouchesShare(v) THEN "record"
                       ELSE IF v \in deleted THEN "return" ELSE "mountVol"
    <3>1. cpc' = [cpc EXCEPT ![t] = step]
      BY <1>1, <2>2 DEF CreateVolume, DeleteVolume
    <3>2. step \in CallSteps \ {"idle"} /\ MayBeAt([call |-> call, vol |-> v], step)
      BY <2>2 DEF TouchesShare
    <3> QED
      BY <3>1, <3>2, Zenon
  <2> QED
    BY <2>1, <2>2
<1>3. UNCHANGED <<nodeVars, shareVars, known>>
  BY <1>1 DEF Begin
<1>4. ControlTypes'
  BY <1>1, <1>2, <1>3 DEF Control, ControlTypes, Begin, shareVars
<1>5. Requests'
  <2>1. /\ cpc'[t] # "idle" /\ op'[t] = [call |-> call, vol |-> v]
        /\ <<call, v>> \notin opLocks /\ opLocks' = opLocks \cup {<<call, v>>}
        /\ \A s \in Threads \ {t} : cpc'[s] = cpc[s] /\ op'[s] = op[s]
    BY <1>1, <1>2 DEF Begin, Control, ControlTypes
  <2>2. \A w \in Volumes : answer'[w] = answer[w] \/ answer'[w] = "nothing"
    BY <1>1 DEF Begin, Control, ControlTypes
  <2>3. answer'[v] = "nothing"
    BY <1>1 DEF Begin, Control, ControlTypes
  <2>4. /\ op'[t] # NoOp /\ op'[t].call = call
        /\ OpKey(t)' = <<call, v>> /\ V(t)' = v
    BY <2>1 DEF OpKey, V, NoOp
  <2>5. \A s \in Threads \ {t} : OpKey(s)' = OpKey(s) /\ V(s)' = V(s)
    BY <2>1 DEF OpKey, V
  <2>6. \A s \in Threads : cpc[s] # "idle" =>
            V(s) \in Volumes /\ OpKey(s) \in opLocks /\ answer[V(s)] = "nothing"
    BY DEF Control, ControlTypes, Requests, V
  <2>7. \A s \in Threads : cpc'[s] = "idle" <=> op'[s] = NoOp
    BY <2>1, <2>4 DEF Control, Requests
  <2>8. \A s \in Threads : cpc'[s] # "idle" => OpKey(s)' \in opLocks' /\ answer'[V(s)'] = "nothing"
    BY <2>1, <2>2, <2>3, <2>4, <2>5, <2>6
  <2>9. \A r, s \in Threads : cpc'[r] # "idle" /\ cpc'[s] # "idle" /\ OpKey(r)' = OpKey(s)' => r = s
    BY <2>1, <2>4, <2>5, <2>6 DEF Control, Requests
  <2>10. \A s \in Threads : /\ op'[s].call = "create" => V(s)' \notin known'
                            /\ op'[s].call = "delete" => V(s)' \in known'
    <3>1. /\ \A s \in Threads : op[s].call = "create" => V(s) \notin known
          /\ \A s \in Threads : op[s].call = "delete" => V(s) \in known
      BY DEF Control, Requests
    <3> QED
      BY <1>1, <1>3, <2>1, <2>4, <2>5, <3>1
  <2> QED
    BY <2>7, <2>8, <2>9, <2>10 DEF Requests
<1>6. Sources'
  <2>1. \A s \in Threads \ {t} : op[s].call = "create" => Source[V(s)] # v
    <3>1. CASE CreateVolume(t, v)
      BY <3>1, ControllerAssumption DEF CreateVolume, Control, Sources
    <3>2. CASE DeleteVolume(t, v)
      BY <3>2 DEF DeleteVolume, BeingCloned
    <3> QED
      BY <3>1, <3>2
  <2>2. \A w \in Volumes \ {v} : answer'[w] = answer[w]
    BY <1>1 DEF Begin, Control, ControlTypes
  <2>3. op'[t] = [call |-> call, vol |-> v] /\ \A s \in Threads \ {t} : op'[s] = op[s]
    BY <1>1 DEF Begin, Control, ControlTypes
  <2>4. known \subseteq Volumes /\ known' = known
    BY <1>3 DEF Control, ControlTypes
  <2>5. call = "create" /\ Source[v] # NoVolume =>
           Source[v] \in known /\ Source[v] # v /\ answer[Source[v]] = "created"
    BY <1>1, ControllerAssumption DEF CreateVolume, DeleteVolume
  <2>6. ASSUME NEW s \in Threads, op'[s].call = "create", Source[V(s)'] # NoVolume
        PROVE  Source[V(s)'] \in known /\ answer'[Source[V(s)']] = "created"
    <3>1. CASE s = t
      <4>1. op'[s] = [call |-> call, vol |-> v]
        BY <2>3, <3>1
      <4>2. op'[s].call = call /\ op'[s].vol = v
        BY <4>1
      <4>3. V(s)' = v /\ call = "create"
        BY <2>6, <4>2 DEF V
      <4> QED
        BY <2>2, <2>4, <2>5, <2>6, <4>3
    <3>2. CASE s # t
      <4>1. V(s)' = V(s) /\ op[s].call = "create"
        BY <2>3, <2>6, <3>2 DEF V
      <4>2. Source[V(s)] \in known /\ Source[V(s)] # v /\ answer[Source[V(s)]] = "created"
        BY <2>1, <2>6, <3>2, <4>1 DEF Control, Sources
      <4> QED
        BY <2>2, <2>4, <4>1, <4>2
    <3> QED
      BY <3>1, <3>2
  <2> QED
    BY <2>4, <2>6 DEF Sources
<1>7. Positions'
  BY <1>1, <1>2 DEF Control, ControlTypes, Positions, Begin
<1> QED
  BY <1>3, <1>4, <1>5, <1>6, <1>7 DEF Control

\* A request is answered.
LEMMA ControlAnswers ==
    ASSUME Control, NEW t \in Threads, Answer(t)
    PROVE  Control' /\ UNCHANGED <<nodeVars, shareVars>>
<1>1. cpc[t] = "return" /\ V(t) \in Volumes /\ answer[V(t)] = "nothing"
  BY DEF Answer, Control, ControlTypes, Requests, V
<1>2. \A s \in Threads \ {t} : cpc[s] # "idle" => V(s) # V(t) /\ OpKey(s) # OpKey(t)
  BY <1>1, OwnPath DEF Control, Requests
<1>3. UNCHANGED <<nodeVars, shareVars, known>>
  BY DEF Answer
<1>4. ControlTypes'
  BY <1>1, <1>3 DEF Control, ControlTypes, Answer, CGoto, CallSteps, shareVars
<1>5. Requests'
  <2>1. /\ cpc'[t] = "idle" /\ op'[t] = NoOp /\ opLocks' = opLocks \ {OpKey(t)}
        /\ \A s \in Threads \ {t} : cpc'[s] = cpc[s] /\ op'[s] = op[s]
        /\ \A w \in Volumes \ {V(t)} : answer'[w] = answer[w]
    BY <1>1 DEF Control, ControlTypes, Answer, CGoto
  <2>2. \A s \in Threads \ {t} : OpKey(s)' = OpKey(s) /\ V(s)' = V(s)
    BY <2>1 DEF OpKey, V
  <2>3. \A s \in Threads \ {t} : cpc[s] # "idle" => V(s) \in Volumes \ {V(t)}
    BY <1>2 DEF Control, ControlTypes, Requests, V
  <2>4. op'[t].call = "none"
    <3>1. NoOp.call = "none"
      BY DEF NoOp
    <3> QED
      BY <2>1, <3>1
  <2>5. \A s \in Threads : cpc'[s] = "idle" <=> op'[s] = NoOp
    BY <2>1 DEF Control, Requests
  <2>6. \A s \in Threads : cpc'[s] # "idle" => OpKey(s)' \in opLocks' /\ answer'[V(s)'] = "nothing"
    BY <1>2, <2>1, <2>2, <2>3 DEF Control, Requests
  <2>7. \A r, s \in Threads : cpc'[r] # "idle" /\ cpc'[s] # "idle" /\ OpKey(r)' = OpKey(s)' => r = s
    BY <2>1, <2>2 DEF Control, Requests
  <2>8. \A s \in Threads : /\ op'[s].call = "create" => V(s)' \notin known'
                           /\ op'[s].call = "delete" => V(s)' \in known'
    BY <1>3, <2>1, <2>2, <2>4 DEF Control, Requests
  <2> QED
    BY <2>5, <2>6, <2>7, <2>8 DEF Requests
<1>6. Sources'
  BY <1>1, <1>3 DEF Control, ControlTypes, Sources, Answer, V, NoOp
<1>7. Positions'
  BY DEF Control, ControlTypes, Positions, Answer, CGoto, MayBeAt, CloneSteps
<1> QED
  BY <1>3, <1>4, <1>5, <1>6, <1>7 DEF Control

\* What happens around the requests.
LEMMA ControlAround ==
    ASSUME Control
    PROVE  /\ UNCHANGED ctrlVars => Control'
           /\ \A v \in Volumes : Learn(v) \/ PodWrites(v) \/ CacheExpire(v) => Control'
           /\ Restart => Control'
<1>1. ASSUME UNCHANGED <<cpc, op, opLocks, answer>>, share' \in [Volumes -> Contents],
             archived' \in [Volumes -> Contents], known' \subseteq Volumes, known \subseteq known',
             \A t \in Threads : op[t].call = "create" => V(t) \notin known'
      PROVE  Control'
  <2>1. ControlTypes'
    BY <1>1 DEF Control, ControlTypes
  <2>2. Requests'
    BY <1>1 DEF Control, Requests, OpKey, V
  <2>3. Sources' /\ Positions'
    BY <1>1 DEF Control, Sources, Positions, V
  <2> QED
    BY <2>1, <2>2, <2>3 DEF Control
<1>2. ASSUME UNCHANGED ctrlVars PROVE Control'
  BY <1>1, <1>2 DEF ctrlVars, Control, ControlTypes, Requests
<1>3. ASSUME NEW v \in Volumes, Learn(v) PROVE Control'
  <2>1. \A t \in Threads : op[t].call = "create" => V(t) # v
    <3>1. \A t \in Threads : op[t].call = "create" => op[t] # NoOp
      BY DEF NoOp
    <3>2. \A t \in Threads : op[t] # NoOp => answer[V(t)] = "nothing"
      BY DEF Control, Requests
    <3> QED
      BY <1>3, <3>1, <3>2 DEF Learn
  <2> QED
    BY <1>1, <1>3, <2>1 DEF Learn, shareVars, Control, ControlTypes, Requests
<1>4. ASSUME NEW v \in Volumes, PodWrites(v) \/ CacheExpire(v) PROVE Control'
  BY <1>1, <1>4 DEF PodWrites, CacheExpire, shareVars, Control, ControlTypes, Requests, Contents
<1>5. ASSUME Restart PROVE Control'
  <2>1. ControlTypes'
    BY <1>5 DEF Control, ControlTypes, Restart, CallSteps, shareVars
  <2>2. Requests' /\ Sources' /\ Positions'
    BY <1>5 DEF Restart, Requests, Sources, Positions, MayBeAt, CloneSteps, NoOp
  <2> QED
    BY <2>1, <2>2 DEF Control
<1> QED
  BY <1>2, <1>3, <1>4, <1>5

-----------------------------------------------------------------------------
(* The internal mount paths.  Nothing is ever written beneath a mount, and *)
(* the path that a request has mounted stays mounted until the request     *)
(* unmounts it: the internal calls of others are for other paths, and a    *)
(* mount command that outlived its call can only add a mount.              *)

StagePc == Node!StageSteps \cup {"staged", "failed"}
UnstagePc == Node!UnstageSteps \cup {"unstaged", "failed"}

ShareSteps == {"makeSubDir", "copy", "remove", "removeArchived", "rename"}

PathTypes ==
    /\ dir \in [Volumes -> {"none", "empty"}]
    /\ mnt \in [Volumes -> Nat]
    /\ pc \in [Threads -> {"idle"} \cup StagePc \cup UnstagePc]
    /\ vol \in [Threads -> Volumes \cup {NoVolume}]

\* An internal call in progress is the one the request is waiting for, it holds the lock of
\* the path, and it has found or made the mount by the time it reports it.
InternalCalls ==
    /\ \A t \in Threads : pc[t] # "idle" =>
          /\ vol[t] = Target(t) /\ vol[t] \in Volumes /\ vol[t] \in locks
          /\ \/ cpc[t] \in StageCalls /\ pc[t] \in StagePc
             \/ cpc[t] \in UnstageCalls /\ pc[t] \in UnstagePc
    /\ \A s, t \in Threads : s # t /\ pc[s] # "idle" /\ pc[t] # "idle" => vol[s] # vol[t]
    /\ \A t \in Threads : pc[t] \in {"readDir", "staged"} => mnt[vol[t]] > 0

Paths == PathTypes /\ InternalCalls /\ WorksOnShare

\* A step of an internal call.
LEMMA NodeMoves ==
    ASSUME PathTypes, NEW t \in Threads, NEW v \in Volumes, v = vol[t],
           pc[t] = "readDir" => mnt[v] > 0,
           pc[t] \notin Node!Returns, Node!Step(t) \/ Node!MountDone(t)
    PROVE  /\ pc[t] # "idle"
           /\ UNCHANGED <<locks, vol>>
           /\ \E step \in StagePc \cup UnstagePc :
                 /\ pc' = [pc EXCEPT ![t] = step]
                 /\ pc[t] \in StagePc => step \in StagePc
                 /\ pc[t] \in UnstagePc => step \in UnstagePc
                 /\ step \in {"readDir", "staged"} => mnt'[v] > 0
           /\ dir' \in [Volumes -> {"none", "empty"}]
           /\ mnt' \in [Volumes -> Nat]
           /\ \A w \in Volumes \ {v} : mnt'[w] = mnt[w]
<1> USE DEF Node!Goto, Node!pathVars, Node!callVars, StagePc, UnstagePc, Node!StageSteps,
            Node!UnstageSteps, Node!Returns, PathTypes
<1>1. CASE Node!Fails(t) \/ Node!MountTimeout(t)
  BY <1>1 DEF Node!Fails, Node!Fallible, Node!MountTimeout
<1>2. CASE Node!KrbSkip(t) \/ Node!KrbWrite(t) \/ Node!KrbStat(t) \/ Node!KrbRemove(t) \/ Node!KrbSymlink(t)
  <2>1. CASE Node!KrbSkip(t) \/ Node!KrbWrite(t)
    BY <2>1 DEF Node!KrbSkip, Node!KrbWrite
  <2>2. CASE Node!KrbStat(t)
    BY <2>2 DEF Node!KrbStat
  <2>3. CASE Node!KrbRemove(t) \/ Node!KrbSymlink(t)
    BY <2>3 DEF Node!KrbRemove, Node!KrbSymlink
  <2> QED
    BY <1>2, <2>1, <2>2, <2>3
<1>3. CASE Node!Mkdir(t) \/ Node!NotMounted(t)
  BY <1>3 DEF Node!Mkdir, Node!NotMounted, Node!MkdirAll
<1>4. CASE Node!AlreadyMounted(t) \/ Node!ReadDir(t)
  BY <1>4 DEF Node!AlreadyMounted, Node!ReadDir
<1>5. CASE Node!UnmountBad(t) \/ Node!UnmountPath(t)
  <2>1. CASE Node!UnmountBad(t)
    BY <2>1 DEF Node!UnmountBad, Node!Unmount
  <2>2. CASE Node!UnmountPath(t)
    <3>1. /\ pc[t] \in {"unmountUnchecked", "unmount"} /\ UNCHANGED <<locks, vol, dir>>
          /\ \E step \in {"notMntAgain", "rmdir"} : pc' = [pc EXCEPT ![t] = step]
      BY <2>2 DEF Node!UnmountPath, Node!Unmount
    <3>2. mnt' \in [Volumes -> Nat] /\ \A w \in Volumes \ {v} : mnt'[w] = mnt[w]
      BY <2>2 DEF Node!UnmountPath, Node!Unmount
    <3> QED
      BY <3>1, <3>2
  <2> QED
    BY <1>5, <2>1, <2>2
<1>6. CASE Node!MountDone(t)
  BY <1>6 DEF Node!MountDone, Node!Mount
<1>7. CASE Node!PathGone(t) \/ Node!PathExists(t) \/ Node!NotMnt(t)
  <2>1. CASE Node!PathGone(t)
    BY <2>1 DEF Node!PathGone
  <2>2. CASE Node!PathExists(t) \/ Node!NotMnt(t)
    BY <2>2 DEF Node!PathExists, Node!NotMnt
  <2> QED
    BY <1>7, <2>1, <2>2
<1>8. CASE Node!RemovePath(t)
  BY <1>8 DEF Node!RemovePath, Node!Rmdir
<1>9. CASE Node!KrbNothing(t) \/ Node!KrbScan(t) \/ Node!KrbUnlink(t) \/ Node!KrbRmFile(t)
  <2>1. CASE Node!KrbNothing(t) \/ Node!KrbScan(t)
    BY <2>1 DEF Node!KrbNothing, Node!KrbScan
  <2>2. CASE Node!KrbUnlink(t) \/ Node!KrbRmFile(t)
    BY <2>2 DEF Node!KrbUnlink, Node!KrbRmFile
  <2> QED
    BY <1>9, <2>1, <2>2
<1>10. ~Node!Return(t)
  BY DEF Node!Return
<1> HIDE DEF Node!Goto, Node!pathVars, Node!callVars, StagePc, UnstagePc, Node!StageSteps,
             Node!UnstageSteps, Node!Returns, PathTypes
<1> QED
  BY <1>1, <1>2, <1>3, <1>4, <1>5, <1>6, <1>7, <1>8, <1>9, <1>10 DEF Node!Step

LEMMA TargetIsVolume ==
    ASSUME Control, NEW t \in Threads, cpc[t] # "idle"
    PROVE  V(t) \in Volumes /\ Target(t) \in Volumes
<1>1. V(t) \in Volumes
  BY DEF Control, ControlTypes, Requests, V
<1> QED
  BY <1>1, ControllerAssumption DEF Target, V, Control, Positions, MayBeAt, CloneSteps

LEMMA PathsInit == Init => Paths
BY DEF Init, Node!Init, Paths, PathTypes, InternalCalls, WorksOnShare

\* An internal call begins.
LEMMA PathsCall ==
    ASSUME Control, Paths, NEW t \in Threads, InternalCall(t)
    PROVE  Paths'
<1> DEFINE v == Target(t)
<1>1. /\ pc[t] = "idle" /\ v \notin locks /\ locks' = locks \cup {v} /\ vol' = [vol EXCEPT ![t] = v]
      /\ UNCHANGED <<dir, mnt, cpc, op>>
      /\ \/ cpc[t] \in StageCalls /\ pc' = [pc EXCEPT ![t] = "kerberos"]
         \/ cpc[t] \in UnstageCalls /\ pc' = [pc EXCEPT ![t] = "cleanup"]
  BY DEF InternalCall, Node!NodeStageVolume, Node!NodeUnstageVolume, Node!TryAcquire, Node!Goto, ctrlVars
<1>2. v \in Volumes
  BY <1>1, TargetIsVolume DEF StageCalls, UnstageCalls
<1> HIDE DEF v
<1> USE DEF StagePc, UnstagePc, Node!StageSteps, Node!UnstageSteps
<1>3. PathTypes'
  BY <1>1, <1>2 DEF Paths, PathTypes
<1>4. InternalCalls'
  <2>1. \A s \in Threads : Target(s)' = Target(s)
    BY <1>1 DEF Target, V
  <2>2. \A s \in Threads \ {t} : pc'[s] = pc[s] /\ vol'[s] = vol[s]
    BY <1>1 DEF Paths, PathTypes
  <2>3. vol'[t] = v /\ pc'[t] \in {"kerberos", "cleanup"}
    BY <1>1 DEF Paths, PathTypes
  <2>4. \/ cpc[t] \in StageCalls /\ pc'[t] \in StagePc
        \/ cpc[t] \in UnstageCalls /\ pc'[t] \in UnstagePc
    BY <1>1 DEF Paths, PathTypes
  <2>5. \A s \in Threads : pc'[s] # "idle" =>
          /\ vol'[s] = Target(s)' /\ vol'[s] \in Volumes /\ vol'[s] \in locks'
          /\ \/ cpc'[s] \in StageCalls /\ pc'[s] \in StagePc
             \/ cpc'[s] \in UnstageCalls /\ pc'[s] \in UnstagePc
    <3> HIDE DEF StagePc, UnstagePc
    <3>1. locks' = locks \cup {v} /\ cpc' = cpc /\ v = Target(t)
      BY <1>1 DEF v
    <3>2. \A s \in Threads : pc[s] # "idle" =>
            /\ vol[s] = Target(s) /\ vol[s] \in Volumes /\ vol[s] \in locks
            /\ \/ cpc[s] \in StageCalls /\ pc[s] \in StagePc
               \/ cpc[s] \in UnstageCalls /\ pc[s] \in UnstagePc
      BY DEF Paths, InternalCalls
    <3> QED
      BY <1>2, <2>1, <2>2, <2>3, <2>4, <3>1, <3>2
  <2>6. \A r, s \in Threads : r # s /\ pc'[r] # "idle" /\ pc'[s] # "idle" => vol'[r] # vol'[s]
    <3>1. \A s \in Threads \ {t} : pc[s] # "idle" => vol[s] # v
      BY <1>1 DEF Paths, InternalCalls
    <3>2. \A r, s \in Threads : r # s /\ pc[r] # "idle" /\ pc[s] # "idle" => vol[r] # vol[s]
      BY DEF Paths, InternalCalls
    <3> QED
      BY <2>2, <2>3, <3>1, <3>2
  <2>7. \A s \in Threads : pc'[s] \in {"readDir", "staged"} => mnt'[vol'[s]] > 0
    <3>1. \A s \in Threads : pc[s] \in {"readDir", "staged"} => mnt[vol[s]] > 0
      BY DEF Paths, InternalCalls
    <3> QED
      BY <1>1, <2>2, <2>3, <3>1
  <2> QED
    BY <2>5, <2>6, <2>7 DEF InternalCalls
<1>5. WorksOnShare'
  BY <1>1 DEF Paths, WorksOnShare, V
<1> QED
  BY <1>3, <1>4, <1>5 DEF Paths

LEMMA NotFromIdle ==
    ASSUME NEW t \in Threads, Node!Step(t) \/ Node!MountDone(t)
    PROVE  pc[t] # "idle"
<1>1. CASE Node!Return(t) \/ Node!Fails(t)
  BY <1>1 DEF Node!Return, Node!Returns, Node!Fails, Node!Fallible
<1>2. CASE Node!KrbSkip(t) \/ Node!KrbWrite(t) \/ Node!KrbStat(t) \/ Node!KrbRemove(t) \/ Node!KrbSymlink(t)
  BY <1>2 DEF Node!KrbSkip, Node!KrbWrite, Node!KrbStat, Node!KrbRemove, Node!KrbSymlink
<1>3. CASE Node!Mkdir(t) \/ Node!NotMounted(t) \/ Node!AlreadyMounted(t) \/ Node!ReadDir(t)
  BY <1>3 DEF Node!Mkdir, Node!NotMounted, Node!AlreadyMounted, Node!ReadDir
<1>4. CASE Node!UnmountBad(t) \/ Node!MountTimeout(t) \/ Node!MountDone(t)
  BY <1>4 DEF Node!UnmountBad, Node!MountTimeout, Node!MountDone
<1>5. CASE Node!PathGone(t) \/ Node!PathExists(t) \/ Node!UnmountPath(t) \/ Node!NotMnt(t) \/ Node!RemovePath(t)
  BY <1>5 DEF Node!PathGone, Node!PathExists, Node!UnmountPath, Node!NotMnt, Node!RemovePath
<1>6. CASE Node!KrbNothing(t) \/ Node!KrbScan(t) \/ Node!KrbUnlink(t) \/ Node!KrbRmFile(t)
  BY <1>6 DEF Node!KrbNothing, Node!KrbScan, Node!KrbUnlink, Node!KrbRmFile
<1> QED
  BY <1>1, <1>2, <1>3, <1>4, <1>5, <1>6 DEF Node!Step

\* An internal call goes on.
LEMMA PathsStep ==
    ASSUME Control, Paths, NEW t \in Threads, InternalStep(t)
    PROVE  Paths'
<1>0. pc[t] # "idle"
  BY NotFromIdle DEF InternalStep
<1>1. PICK v \in Volumes : v = vol[t] /\ v = Target(t)
  BY <1>0 DEF Paths, InternalCalls
<1>2. /\ UNCHANGED <<locks, vol, cpc, op>>
      /\ dir' \in [Volumes -> {"none", "empty"}]
      /\ mnt' \in [Volumes -> Nat]
      /\ \A w \in Volumes \ {v} : mnt'[w] = mnt[w]
  BY <1>1, NodeMoves, Zenon DEF InternalStep, Paths, InternalCalls, ctrlVars
<1>3. PICK step \in StagePc \cup UnstagePc :
         /\ pc' = [pc EXCEPT ![t] = step]
         /\ pc[t] \in StagePc => step \in StagePc
         /\ pc[t] \in UnstagePc => step \in UnstagePc
         /\ step \in {"readDir", "staged"} => mnt'[v] > 0
  BY <1>1, NodeMoves, Zenon DEF InternalStep, Paths, InternalCalls
<1>4. PathTypes'
  BY <1>2, <1>3 DEF Paths, PathTypes
<1>5. \A s \in Threads \ {t} : pc'[s] = pc[s] /\ (pc[s] # "idle" => vol[s] \in Volumes \ {v})
  BY <1>0, <1>1, <1>3 DEF Paths, PathTypes, InternalCalls
<1>6. pc'[t] = step
  BY <1>3 DEF Paths, PathTypes
<1>7. InternalCalls'
  <2>1. \A s \in Threads : Target(s)' = Target(s)
    BY <1>2 DEF Target, V
  <2>2. \A s \in Threads : pc'[s] # "idle" =>
          /\ vol'[s] = Target(s)' /\ vol'[s] \in Volumes /\ vol'[s] \in locks'
          /\ \/ cpc'[s] \in StageCalls /\ pc'[s] \in StagePc
             \/ cpc'[s] \in UnstageCalls /\ pc'[s] \in UnstagePc
    BY <1>0, <1>2, <1>3, <1>5, <1>6, <2>1 DEF Paths, InternalCalls
  <2>3. \A r, s \in Threads : r # s /\ pc'[r] # "idle" /\ pc'[s] # "idle" => vol'[r] # vol'[s]
    BY <1>0, <1>2, <1>5 DEF Paths, InternalCalls
  <2>4. \A s \in Threads : pc'[s] \in {"readDir", "staged"} => mnt'[vol'[s]] > 0
    BY <1>1, <1>2, <1>3, <1>5, <1>6, Zenon DEF Paths, InternalCalls
  <2> QED
    BY <2>2, <2>3, <2>4 DEF InternalCalls
<1>8. WorksOnShare'
  <2> SUFFICES ASSUME NEW s \in Threads, cpc[s] \in ShareSteps PROVE mnt'[V(s)] > 0
    BY <1>2 DEF WorksOnShare, ShareSteps, V
  <2>1. cpc[t] \in StageCalls \cup UnstageCalls
    BY <1>0 DEF Paths, InternalCalls
  <2>2. s # t /\ cpc[s] # "idle" /\ cpc[t] # "idle"
    BY <2>1 DEF ShareSteps, StageCalls, UnstageCalls
  <2>3. V(s) # v /\ V(s) \in Volumes
    BY <1>1, <2>2, OwnPath, TargetIsVolume
  <2> QED
    BY <1>2, <2>3 DEF Paths, WorksOnShare, ShareSteps
<1> QED
  BY <1>4, <1>7, <1>8 DEF Paths

\* Only a mount that succeeded lets a request work on the share.
LEMMA AfterCallWorks ==
    ASSUME NEW t \in Threads, NEW ok \in BOOLEAN, cpc[t] \in StageCalls \cup UnstageCalls,
           AfterCall(t, ok) \in ShareSteps
    PROVE  ok /\ cpc[t] \in StageCalls /\ Target(t) = V(t)
BY DEF AfterCall, Unwind, ShareSteps, StageCalls, UnstageCalls, Target

\* A request whose internal call has ended, or that makes none, moves on.
LEMMA PathsMove ==
    ASSUME Control, Paths, NEW t \in Threads, NEW step, Moves(t, step),
           UNCHANGED <<dir, mnt>>,
           vol' \in [Threads -> Volumes \cup {NoVolume}],
           pc' \in [Threads -> {"idle"} \cup StagePc \cup UnstagePc],
           pc'[t] = "idle",
           \A s \in Threads \ {t} : pc'[s] = pc[s] /\ vol'[s] = vol[s],
           \A s \in Threads \ {t} : pc[s] # "idle" => vol[s] \in locks',
           step \in ShareSteps => mnt[V(t)] > 0
    PROVE  Paths'
<1>1. \A s \in Threads \ {t} : cpc'[s] = cpc[s] /\ V(s)' = V(s) /\ Target(s)' = Target(s)
  BY DEF Moves, Target, V, Control, ControlTypes
<1>2. cpc'[t] = step /\ V(t)' = V(t)
  BY DEF Moves, V, Control, ControlTypes
<1>3. PathTypes'
  BY DEF Paths, PathTypes
<1>4. InternalCalls'
  <2>1. \A s \in Threads : pc'[s] # "idle" =>
          /\ vol'[s] = Target(s)' /\ vol'[s] \in Volumes /\ vol'[s] \in locks'
          /\ \/ cpc'[s] \in StageCalls /\ pc'[s] \in StagePc
             \/ cpc'[s] \in UnstageCalls /\ pc'[s] \in UnstagePc
    BY <1>1 DEF Paths, InternalCalls
  <2>2. \A r, s \in Threads : r # s /\ pc'[r] # "idle" /\ pc'[s] # "idle" => vol'[r] # vol'[s]
    BY DEF Paths, InternalCalls
  <2>3. \A s \in Threads : pc'[s] \in {"readDir", "staged"} => mnt'[vol'[s]] > 0
    BY DEF Paths, InternalCalls
  <2> QED
    BY <2>1, <2>2, <2>3 DEF InternalCalls
<1>5. WorksOnShare'
  BY <1>1, <1>2 DEF Paths, WorksOnShare, ShareSteps
<1> QED
  BY <1>3, <1>4, <1>5 DEF Paths

\* An internal call returns, or is refused because its path is locked.
LEMMA PathsCallEnds ==
    ASSUME Control, Paths, NEW t \in Threads, InternalReturn(t) \/ InternalAborted(t)
    PROVE  /\ Control' /\ Paths'
           /\ cpc[t] \in StageCalls \cup UnstageCalls
           /\ \E ok \in BOOLEAN : CallEnds(t, ok)
<1>1. CASE InternalReturn(t)
  <2> DEFINE ok == pc[t] # "failed"
  <2>1. /\ pc[t] \in Node!Returns /\ locks' = locks \ {vol[t]} /\ vol' = [vol EXCEPT ![t] = NoVolume]
        /\ pc' = [pc EXCEPT ![t] = "idle"] /\ UNCHANGED <<dir, mnt>> /\ CallEnds(t, ok)
    BY <1>1 DEF InternalReturn, Node!Return, Node!Goto
  <2>2. /\ pc[t] # "idle" /\ vol[t] = Target(t)
        /\ \/ cpc[t] \in StageCalls /\ pc[t] \in StagePc
           \/ cpc[t] \in UnstageCalls /\ pc[t] \in UnstagePc
    BY <2>1 DEF Node!Returns, Paths, InternalCalls
  <2>3. Moves(t, AfterCall(t, ok)) /\ Control'
    BY <2>1, <2>2, AfterCallMoves, Zenon
  <2>4. AfterCall(t, ok) \in ShareSteps => mnt[V(t)] > 0
    <3> SUFFICES ASSUME AfterCall(t, ok) \in ShareSteps PROVE mnt[V(t)] > 0
      OBVIOUS
    <3>1. ok /\ cpc[t] \in StageCalls /\ Target(t) = V(t)
      BY <2>2, AfterCallWorks, Zenon
    <3>2. pc[t] = "staged"
      BY <2>1, <2>2, <3>1 DEF Node!Returns, StagePc, UnstagePc, Node!StageSteps, StageCalls, UnstageCalls
    <3> QED
      BY <2>2, <3>1, <3>2 DEF Paths, InternalCalls
  <2>5. /\ vol' \in [Threads -> Volumes \cup {NoVolume}]
        /\ pc' \in [Threads -> {"idle"} \cup StagePc \cup UnstagePc] /\ pc'[t] = "idle"
        /\ \A s \in Threads \ {t} : pc'[s] = pc[s] /\ vol'[s] = vol[s]
        /\ \A s \in Threads \ {t} : pc[s] # "idle" => vol[s] \in locks'
    BY <2>1, <2>2 DEF Paths, PathTypes, InternalCalls
  <2>6. Paths'
    BY <2>1, <2>3, <2>4, <2>5, PathsMove
  <2> QED
    BY <2>1, <2>2, <2>3, <2>6, Zenon
<1>2. CASE InternalAborted(t)
  <2>1. /\ cpc[t] \in StageCalls \cup UnstageCalls /\ pc[t] = "idle"
        /\ CallEnds(t, FALSE) /\ UNCHANGED <<dir, mnt, locks, pc, vol>>
    BY <1>2, Zenon DEF InternalAborted, nodeVars
  <2>2. Moves(t, AfterCall(t, FALSE)) /\ Control'
    BY <2>1, AfterCallMoves, Zenon
  <2>3. AfterCall(t, FALSE) \notin ShareSteps
    BY <2>1, AfterCallWorks, Zenon
  <2>4. Paths'
    BY <2>1, <2>2, <2>3, PathsMove, Zenon DEF Paths, PathTypes, InternalCalls
  <2> QED
    BY <2>1, <2>2, <2>4, Zenon
<1> QED
  BY <1>1, <1>2

\* A request works on the share: what all such steps have in common.
LEMMA ShareWorkFrame ==
    ASSUME NEW t \in Threads, ShareWork(t)
    PROVE  /\ cpc[t] \in ShareSteps \cup {"record"}
           /\ cpc[t] = "record" => Record(t)
           /\ cpc[t] # "record" => UNCHANGED deleted
           /\ UNCHANGED result \/ Fail(t)
           /\ (cpc[t] # "record" => mnt[V(t)] > 0) => UNCHANGED nodeVars
<1> USE DEF ShareSteps, nodeVars
<1>1. CASE MakeSubDir(t)
  BY <1>1 DEF MakeSubDir
<1>2. CASE MakeSubDirFails(t)
  BY <1>2 DEF MakeSubDirFails
<1>3. CASE Copy(t)
  BY <1>3 DEF Copy
<1>4. CASE CopyFails(t)
  BY <1>4 DEF CopyFails
<1>5. CASE Remove(t)
  BY <1>5 DEF Remove
<1>6. CASE RemoveFails(t)
  BY <1>6 DEF RemoveFails
<1>7. CASE RemoveArchivedCopy(t)
  BY <1>7 DEF RemoveArchivedCopy
<1>8. CASE Rename(t)
  BY <1>8 DEF Rename
<1>9. CASE RenameFails(t)
  BY <1>9 DEF RenameFails
<1>10. CASE Record(t)
  BY <1>10 DEF Record
<1> HIDE DEF ShareSteps, nodeVars
<1> QED
  BY <1>1, <1>2, <1>3, <1>4, <1>5, <1>6, <1>7, <1>8, <1>9, <1>10 DEF ShareWork

LEMMA PathsShareWork ==
    ASSUME Control, Paths, NEW t \in Threads, ShareWork(t)
    PROVE  Control' /\ Paths' /\ UNCHANGED nodeVars
<1>1. PICK step \in CallSteps : Moves(t, step)
  BY ShareWorkMoves
<1>2. Control'
  BY <1>1, ShareWorkMoves, ControlMoves
<1>3. cpc[t] \in ShareSteps \cup {"record"}
  BY ShareWorkFrame
<1>4. pc[t] = "idle"
  BY <1>3 DEF Paths, InternalCalls, ShareSteps, StageCalls, UnstageCalls
<1>5. cpc[t] # "record" => mnt[V(t)] > 0
  BY <1>3 DEF Paths, WorksOnShare, ShareSteps
<1>6. UNCHANGED nodeVars
  BY <1>5, ShareWorkFrame
<1>7. step \in ShareSteps => mnt[V(t)] > 0
  <2>1. CASE cpc[t] # "record"
    BY <1>5, <2>1
  <2>2. CASE Record(t)
    BY <1>1, <2>2 DEF Record, CGoto, Moves, Control, ControlTypes, ShareSteps
  <2> QED
    BY <2>1, <2>2, ShareWorkFrame
<1>8. UNCHANGED <<dir, mnt, locks, pc, vol>>
  BY <1>6 DEF nodeVars
<1>9. Paths'
  BY <1>1, <1>4, <1>7, <1>8, PathsMove DEF Paths, PathTypes, InternalCalls
<1> QED
  BY <1>2, <1>6, <1>9

\* A request comes or is answered: no internal call is in progress for it.
LEMMA PathsRequest ==
    ASSUME Control, Paths, NEW t \in Threads,
           Answer(t) \/ \E v \in Volumes : CreateVolume(t, v) \/ DeleteVolume(t, v)
    PROVE  Paths'
<1>1. /\ cpc[t] \in {"idle", "return"} /\ UNCHANGED nodeVars
      /\ \E step \in {"mountVol", "mountSrc", "return", "record", "idle"} : cpc' = [cpc EXCEPT ![t] = step]
      /\ \E o : op' = [op EXCEPT ![t] = o]
  BY Zenon DEF Answer, CreateVolume, DeleteVolume, Begin, CGoto
<1>2. pc[t] = "idle" /\ cpc'[t] \notin ShareSteps
  BY <1>1 DEF Paths, InternalCalls, StageCalls, UnstageCalls, ShareSteps, Control, ControlTypes
<1>3. \A s \in Threads \ {t} : cpc'[s] = cpc[s] /\ V(s)' = V(s) /\ Target(s)' = Target(s)
  BY <1>1 DEF Target, V, Control, ControlTypes
<1>4. PathTypes' /\ InternalCalls'
  BY <1>1, <1>2, <1>3 DEF Paths, PathTypes, InternalCalls, nodeVars
<1>5. WorksOnShare'
  BY <1>1, <1>2, <1>3 DEF Paths, WorksOnShare, ShareSteps, nodeVars
<1> QED
  BY <1>4, <1>5 DEF Paths

\* What happens around the requests: a late mount only adds a mount.
LEMMA PathsAround ==
    ASSUME Control, Paths
    PROVE  /\ UNCHANGED <<nodeVars, cpc, op>> => Paths'
           /\ \A v \in Volumes : Node!LateMount(v) /\ UNCHANGED ctrlVars => Paths'
           /\ Restart => Paths'
<1>1. ASSUME UNCHANGED <<dir, locks, pc, vol, cpc, op>>, mnt' \in [Volumes -> Nat],
             \A v \in Volumes : mnt[v] > 0 => mnt'[v] > 0
      PROVE  Paths'
  <2>1. \A t \in Threads : Target(t)' = Target(t) /\ V(t)' = V(t)
    BY <1>1 DEF Target, V
  <2>2. PathTypes' /\ InternalCalls'
    BY <1>1, <2>1 DEF Paths, PathTypes, InternalCalls
  <2>3. WorksOnShare'
    BY <1>1, <2>1, TargetIsVolume DEF Paths, WorksOnShare
  <2> QED
    BY <2>2, <2>3 DEF Paths
<1>2. ASSUME UNCHANGED <<nodeVars, cpc, op>> PROVE Paths'
  BY <1>1, <1>2 DEF nodeVars, Paths, PathTypes
<1>3. ASSUME NEW v \in Volumes, Node!LateMount(v), UNCHANGED ctrlVars PROVE Paths'
  <2>1. UNCHANGED <<dir, locks, pc, vol, cpc, op>>
    BY <1>3 DEF Node!LateMount, Node!Mount, Node!pathVars, Node!callVars, ctrlVars
  <2>2. mnt \in [Volumes -> Nat] /\ (mnt' = mnt \/ mnt' = [mnt EXCEPT ![v] = @ + 1])
    BY <1>3 DEF Node!LateMount, Node!Mount, Node!pathVars, Paths, PathTypes
  <2>3. mnt' \in [Volumes -> Nat] /\ \A w \in Volumes : mnt[w] > 0 => mnt'[w] > 0
    BY <2>2
  <2> QED
    BY <1>1, <2>1, <2>3
<1>4. ASSUME Restart PROVE Paths'
  BY <1>4 DEF Restart, Node!Restart, Node!pathVars, Paths, PathTypes, InternalCalls, WorksOnShare
<1> QED
  BY <1>2, <1>3, <1>4

LEMMA ControlPathsNext ==
    ASSUME Control, Paths, [Next]_vars
    PROVE  Control' /\ Paths'
<1>1. ASSUME NEW t \in Threads, NEW v \in Volumes, CreateVolume(t, v) \/ DeleteVolume(t, v)
      PROVE  Control' /\ Paths'
  BY <1>1, ControlBegins, PathsRequest
<1>2. ASSUME NEW t \in Threads, Work(t) PROVE Control' /\ Paths'
  <2>1. CASE InternalCall(t)
    BY <2>1, PathsCall, ControlAround DEF InternalCall
  <2>2. CASE InternalStep(t)
    BY <2>2, PathsStep, ControlAround DEF InternalStep
  <2>3. CASE InternalAborted(t) \/ InternalReturn(t)
    BY <2>3, PathsCallEnds
  <2>4. CASE ShareWork(t)
    BY <2>4, PathsShareWork
  <2>5. CASE Answer(t)
    BY <2>5, ControlAnswers, PathsRequest
  <2> QED
    BY <1>2, <2>1, <2>2, <2>3, <2>4, <2>5 DEF Work, ShareWork
<1>3. ASSUME NEW v \in Volumes, Node!LateMount(v) /\ UNCHANGED ctrlVars PROVE Control' /\ Paths'
  BY <1>3, ControlAround, PathsAround
<1>4. ASSUME NEW v \in Volumes, Learn(v) \/ PodWrites(v) \/ CacheExpire(v) PROVE Control' /\ Paths'
  BY <1>4, ControlAround, PathsAround DEF Learn, PodWrites, CacheExpire
<1>5. CASE Restart
  BY <1>5, ControlAround, PathsAround
<1>6. CASE UNCHANGED vars
  BY <1>6, ControlAround, PathsAround DEF vars, ctrlVars
<1> QED
  BY <1>1, <1>2, <1>3, <1>4, <1>5, <1>6 DEF Next

LEMMA ControlPaths == Spec => [](Control /\ Paths)
<1>1. Init => Control /\ Paths
  BY ControlInit, PathsInit
<1>2. (Control /\ Paths) /\ [Next]_vars => (Control /\ Paths)'
  BY ControlPathsNext
<1> QED
  BY <1>1, <1>2, PTL DEF Spec

\* Whatever requests run at the same time, however many clones share a source, and whichever
\* mount commands end late: CreateVolume and DeleteVolume make, copy, remove and rename
\* subdirectories on the mounted share, never in the directory beneath.
THEOREM RequestsWorkOnShare == Spec => []WorksOnShare
<1>1. Control /\ Paths => WorksOnShare
  BY DEF Paths
<1> QED
  BY <1>1, ControlPaths, PTL

-----------------------------------------------------------------------------
(* Data to be kept.                                                        *)

LEMMA PolicyIsKept ==
    ASSUME NEW v \in Volumes, CreationPolicy(v) \in {"retain", "archive"}
    PROVE  DeletionPolicy(v) \in {"retain", "archive"}
BY DEF DeletionPolicy, PolicyInId

LEMMA DataStep ==
    ASSUME Control, Paths, ~RemoveArchived, [Next]_vars, NEW v \in known,
           CreationPolicy(v) \in {"retain", "archive"}, "data" \in {share[v], archived[v]}
    PROVE  "data" \in {share'[v], archived'[v]}
<1>1. v \in Volumes
  BY DEF Control, ControlTypes
<1>2. ASSUME NEW t \in Threads, ShareWork(t) PROVE "data" \in {share'[v], archived'[v]}
  <2> USE DEF Control, ControlTypes
  <2>1. MayBeAt(op[t], cpc[t]) /\ (op[t].call = "create" => V(t) # v)
    BY DEF Positions, Requests
  <2>2. CASE MakeSubDir(t) \/ MakeSubDirFails(t) \/ Copy(t) \/ CopyFails(t)
    BY <1>1, <2>1, <2>2 DEF MakeSubDir, MakeSubDirFails, Copy, CopyFails, MayBeAt, CloneSteps, shareVars
  <2>3. CASE Remove(t)
    <3>1. V(t) # v
      BY <1>1, <2>1, <2>3, PolicyIsKept DEF Remove, MayBeAt, V
    <3> QED
      BY <1>1, <2>3, <3>1 DEF Remove
  <2>4. CASE RemoveFails(t)
    <3>1. cpc[t] = "remove" /\ V(t) # v
      BY <1>1, <2>1, <2>4, PolicyIsKept DEF RemoveFails, MayBeAt, V
    <3> QED
      BY <1>1, <2>4, <3>1 DEF RemoveFails
  <2>5. CASE RemoveArchivedCopy(t) \/ Rename(t)
    <3>1. CASE RemoveArchivedCopy(t)
      BY <1>1, <3>1 DEF RemoveArchivedCopy
    <3>2. CASE Rename(t)
      BY <1>1, <3>2 DEF Rename
    <3> QED
      BY <2>5, <3>1, <3>2
  <2>6. CASE RenameFails(t) \/ Record(t)
    BY <2>6 DEF RenameFails, Record, shareVars
  <2> HIDE DEF Control, ControlTypes
  <2> QED
    BY <1>2, <2>2, <2>3, <2>4, <2>5, <2>6 DEF ShareWork
<1>3. ASSUME NEW w \in Volumes, PodWrites(w) PROVE "data" \in {share'[v], archived'[v]}
  BY <1>1, <1>3 DEF PodWrites, Control, ControlTypes
<1>4. ASSUME NEW t \in Threads, Work(t), ~ShareWork(t) PROVE UNCHANGED shareVars
  <2>1. CASE InternalCall(t) \/ InternalStep(t)
    BY <2>1 DEF InternalCall, InternalStep, ctrlVars, shareVars
  <2>2. CASE InternalAborted(t) \/ InternalReturn(t)
    BY <2>2, Zenon DEF InternalAborted, InternalReturn, CallEnds, shareVars
  <2>3. CASE Answer(t)
    BY <2>3 DEF Answer, shareVars
  <2> QED
    BY <1>4, <2>1, <2>2, <2>3 DEF Work, ShareWork
<1>5. ASSUME NEW t \in Threads, NEW w \in Volumes, CreateVolume(t, w) \/ DeleteVolume(t, w)
      PROVE  UNCHANGED shareVars
  BY <1>5 DEF CreateVolume, DeleteVolume, Begin, shareVars
<1>6. ASSUME \/ \E w \in Volumes : Node!LateMount(w) /\ UNCHANGED ctrlVars
             \/ \E w \in Volumes : Learn(w) \/ CacheExpire(w)
             \/ Restart \/ UNCHANGED vars
      PROVE  UNCHANGED shareVars
  BY <1>6 DEF Learn, CacheExpire, Restart, vars, ctrlVars, shareVars
<1>7. UNCHANGED shareVars => "data" \in {share'[v], archived'[v]}
  BY DEF shareVars
<1> QED
  BY <1>2, <1>3, <1>4, <1>5, <1>6, <1>7 DEF Next

\* When remove-archived-volume-path is switched off (it is on by default, and then this is the
\* finding of the run archive_retry), the data of a volume to be retained or archived is never lost, however often the deletion is repeated and wherever it is interrupted.
THEOREM KeepsData == ~RemoveArchived => (Spec => DataIsKept)
<1> SUFFICES ASSUME ~RemoveArchived PROVE Spec => DataIsKept
  OBVIOUS
<1> DEFINE Kept == \A v \in known :
                      /\ CreationPolicy(v) \in {"retain", "archive"}
                      /\ "data" \in {share[v], archived[v]}
                      => "data" \in {share'[v], archived'[v]}
<1>1. (Control /\ Paths) /\ [Next]_vars => [Kept]_vars
  BY DataStep
<1>2. [][Next]_vars /\ [](Control /\ Paths) => [][Kept]_vars
  BY <1>1, PTL
<1> QED
  BY <1>2, ControlPaths, PTL DEF Spec, DataIsKept
=============================================================================
