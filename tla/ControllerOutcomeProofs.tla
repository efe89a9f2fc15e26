----------------------- MODULE ControllerOutcomeProofs -----------------------
(***************************************************************************)
(* Proofs about ControllerServer: what is on the share when CreateVolume   *)
(* and DeleteVolume answer, and until the next request for the volume.     *)
(***************************************************************************)
EXTENDS ControllerProofs

MadeSteps == {"mountSrc", "mountDst", "copy", "unmountDst", "unmountSrc", "unmountVol", "return"}
CopiedSteps == {"unmountDst", "unmountSrc", "unmountVol", "return"}

\* What a request for the call o that has not failed has done by the time it gets to the step;
\* c is the subdirectory of its volume.
DoneAt(o, step, r, c) ==
    /\ o.call = "create" /\ r = "ok" /\ step \in MadeSteps /\ CreatesSubDir(o.vol) => c # "none"
    /\ o.call = "create" /\ r = "ok" /\ step \in CopiedSteps /\ Source[o.vol] \in Existing => c = "data"
    /\ o.call = "delete" /\ TouchesShare(o.vol) /\ step = "record" => c = "none"
    /\ o.call = "delete" /\ TouchesShare(o.vol) /\ r = "ok" /\ step \in {"unmountVol", "return"} => c = "none"

Done(t) == DoneAt(op[t], cpc[t], result[t], share[V(t)])

\* What an answer says of the share.
Answered(v) ==
    /\ answer[v] = "created" /\ CreatesSubDir(v) => share[v] # "none"
    /\ answer[v] = "created" /\ Source[v] \in Existing => share[v] = "data"
    /\ answer[v] = "created" /\ v \in Existing => share[v] = "data"
    /\ answer[v] = "deleted" => v \in known /\ (TouchesShare(v) => share[v] = "none")
    /\ v \in deleted => v \in known /\ (TouchesShare(v) => share[v] = "none")

Outcomes ==
    /\ result \in [Threads -> {"ok", "failed"}]
    /\ Existing \subseteq known
    /\ \A t \in Threads : Done(t)
    /\ \A v \in Volumes : Answered(v)

LEMMA OutcomesInit == Init => Outcomes
BY ControllerAssumption DEF Init, Outcomes, Done, DoneAt, Answered, V, NoOp

\* A request moves on, and has changed nothing on the share but the subdirectory of its volume.
LEMMA OutcomesMove ==
    ASSUME Control, Outcomes, NEW t \in Threads, NEW step, Moves(t, step),
           \E r \in {"ok", "failed"} : result' = [result EXCEPT ![t] = r],
           \A v \in Volumes \ {V(t)} : share'[v] = share[v],
           op[t].call = "delete" /\ share[V(t)] = "none" => share'[V(t)] = "none",
           deleted' = deleted \/ (deleted' = deleted \cup {V(t)} /\ op[t].call = "delete"
                                  /\ (TouchesShare(V(t)) => share'[V(t)] = "none")),
           Done(t)'
    PROVE  Outcomes'
<1>1. V(t) \in Volumes /\ answer[V(t)] = "nothing"
  BY TargetIsVolume DEF Moves, Control, Requests
<1>2. op[t].call \in {"create", "delete"}
  BY DEF Moves, Control, ControlTypes, Requests
<1>3. ASSUME NEW s \in Threads \ {t} PROVE Done(s)'
  <2>1. UNCHANGED <<op, cpc[s], result[s]>> /\ V(s)' = V(s)
    BY DEF Moves, Control, ControlTypes, Outcomes, V
  <2>2. CASE cpc[s] = "idle"
    BY <2>1, <2>2 DEF Done, DoneAt, MadeSteps, CopiedSteps
  <2>3. CASE cpc[s] # "idle"
    <3>1. V(s) \in Volumes \ {V(t)}
      BY <2>3, OwnPath, TargetIsVolume DEF Moves
    <3> QED
      BY <2>1, <3>1 DEF Outcomes, Done
  <2> QED
    BY <2>2, <2>3
<1>4. ASSUME NEW v \in Volumes PROVE Answered(v)'
  <2>1. CASE v # V(t)
    BY <2>1 DEF Outcomes, Answered, Moves
  <2>2. CASE v = V(t)
    <3>1. op[t].call = "delete" => v \in known
      BY <2>2 DEF Control, Requests
    <3>2. op[t].call = "create" => v \notin known
      BY <2>2 DEF Control, Requests
    <3> QED
      BY <1>1, <1>2, <2>2, <3>1, <3>2 DEF Outcomes, Answered, Moves
  <2> QED
    BY <2>1, <2>2
<1>5. result' \in [Threads -> {"ok", "failed"}] /\ (Existing \subseteq known)'
  BY DEF Outcomes, Moves
<1> QED
  BY <1>3, <1>4, <1>5 DEF Outcomes

LEMMA OutcomesCallEnds ==
    ASSUME Control, Paths, Outcomes, NEW t \in Threads, InternalReturn(t) \/ InternalAborted(t)
    PROVE  Outcomes'
<1>1. PICK ok \in BOOLEAN : CallEnds(t, ok)
  BY PathsCallEnds
<1>2. cpc[t] \in StageCalls \cup UnstageCalls
  BY PathsCallEnds
<1>3. Moves(t, AfterCall(t, ok)) /\ UNCHANGED <<share, deleted, op>>
  BY <1>1, <1>2, AfterCallMoves DEF CallEnds, shareVars
<1>4. op[t] \in [call : {"create", "delete"}, vol : Volumes] /\ MayBeAt(op[t], cpc[t])
  BY <1>2 DEF Control, ControlTypes, Requests, Positions, StageCalls, UnstageCalls
<1>5. /\ cpc'[t] = AfterCall(t, ok) /\ V(t)' = V(t)
      /\ result'[t] = IF ok \/ cpc[t] \in UnstageCalls THEN result[t] ELSE "failed"
      /\ \E r \in {"ok", "failed"} : result' = [result EXCEPT ![t] = r]
  BY <1>1, <1>3 DEF CallEnds, Fail, Moves, V, Outcomes, Control, ControlTypes
<1>6. Done(t)'
  <2>1. Done(t)
    BY DEF Outcomes
  <2>2. result'[t] = "ok" => result[t] = "ok" /\ (ok \/ cpc[t] \in UnstageCalls)
    BY <1>5
  <2>3. op[t].call = "create" /\ result'[t] = "ok" /\ AfterCall(t, ok) \in MadeSteps => cpc[t] \in MadeSteps
    BY <1>2, <2>2 DEF AfterCall, Unwind, MadeSteps, StageCalls, UnstageCalls
  <2>4. op[t].call = "create" /\ result'[t] = "ok" /\ AfterCall(t, ok) \in CopiedSteps => cpc[t] \in CopiedSteps
    BY <1>2, <2>2 DEF AfterCall, Unwind, CopiedSteps, StageCalls, UnstageCalls
  <2>5. AfterCall(t, ok) # "record"
    BY <1>2 DEF AfterCall, Unwind, StageCalls, UnstageCalls
  <2>6. op[t].call = "delete" /\ result'[t] = "ok" /\ AfterCall(t, ok) \in {"unmountVol", "return"} =>
           cpc[t] \in {"unmountVol", "return"}
    BY <1>2, <1>4, <2>2 DEF AfterCall, Unwind, StageCalls, UnstageCalls, MayBeAt, CloneSteps
  <2> QED
    BY <1>3, <1>5, <2>1, <2>2, <2>3, <2>4, <2>5, <2>6 DEF Done, DoneAt, V
<1> QED
  BY <1>3, <1>5, <1>6, OutcomesMove, TargetIsVolume, Zenon DEF Moves

LEMMA OutcomesShareWork ==
    ASSUME Control, Paths, Outcomes, NEW t \in Threads, ShareWork(t)
    PROVE  Outcomes'
<1>1. PICK step \in CallSteps : Moves(t, step)
  BY ShareWorkMoves
<1>2. V(t) \in Volumes /\ cpc[t] # "idle" /\ UNCHANGED op /\ V(t)' = V(t) /\ cpc'[t] = step
  BY <1>1, TargetIsVolume DEF Moves, V, Control, ControlTypes
<1>3. /\ op[t] \in [call : {"create", "delete"}, vol : Volumes] /\ MayBeAt(op[t], cpc[t]) /\ Done(t)
      /\ share \in [Volumes -> Contents] /\ cpc \in [Threads -> CallSteps]
      /\ result \in [Threads -> {"ok", "failed"}]
  BY <1>2 DEF Control, ControlTypes, Requests, Positions, Outcomes
<1>4. cpc[t] # "record" => mnt[V(t)] > 0
  BY ShareWorkFrame DEF Paths, WorksOnShare, ShareSteps
<1> USE DEF CGoto, Fail, shareVars
<1>5. \A v \in Volumes \ {V(t)} : share'[v] = share[v]
  <2>1. CASE MakeSubDir(t) \/ MakeSubDirFails(t)
    BY <1>3, <2>1 DEF MakeSubDir, MakeSubDirFails
  <2>2. CASE Copy(t) \/ CopyFails(t)
    BY <1>3, <2>2 DEF Copy, CopyFails
  <2>3. CASE Remove(t) \/ RemoveFails(t)
    BY <1>3, <2>3 DEF Remove, RemoveFails
  <2>4. CASE RemoveArchivedCopy(t) \/ Rename(t) \/ RenameFails(t) \/ Record(t)
    BY <1>3, <2>4 DEF RemoveArchivedCopy, Rename, RenameFails, Record
  <2> QED
    BY <2>1, <2>2, <2>3, <2>4 DEF ShareWork
<1>6. \E r \in {"ok", "failed"} : result' = [result EXCEPT ![t] = r]
  BY <1>3, ShareWorkFrame
<1>7. CASE MakeSubDir(t)
  <2>1. op[t].call = "create" /\ UNCHANGED <<deleted, result>>
    BY <1>3, <1>7 DEF MakeSubDir, MayBeAt
  <2>2. share'[V(t)] # "none" /\ (step \in CopiedSteps => Source[V(t)] = NoVolume)
    BY <1>2, <1>3, <1>4, <1>7 DEF MakeSubDir, Contents, CopiedSteps
  <2>3. Done(t)'
    BY <1>2, <2>1, <2>2, ControllerAssumption DEF Done, DoneAt, V
  <2> QED
    BY <1>1, <1>5, <1>6, <2>1, <2>3, OutcomesMove, Zenon
<1>8. CASE Copy(t)
  <2>1. op[t].call = "create" /\ Source[V(t)] # NoVolume /\ UNCHANGED <<deleted, result>>
    BY <1>3, <1>8 DEF Copy, MayBeAt, CloneSteps, V
  <2>2. Source[V(t)] \in Volumes /\ answer[Source[V(t)]] = "created"
    BY <1>2, <2>1, ControllerAssumption DEF Control, Sources
  <2>3. SourceSeen(V(t)) = share[Source[V(t)]] /\ SourceSeen(V(t)) # "none"
    BY <1>8, <2>2 DEF Copy, SourceSeen, Paths, PathTypes
  <2>4. Source[V(t)] \in Existing => share[Source[V(t)]] = "data"
    BY <2>2 DEF Outcomes, Answered
  <2>5. share'[V(t)] # "none" /\ (Source[V(t)] \in Existing => share'[V(t)] = "data")
    BY <1>2, <1>3, <1>4, <1>8, <2>3, <2>4 DEF Copy
  <2>6. Done(t)'
    BY <1>2, <2>1, <2>5 DEF Done, DoneAt, V
  <2> QED
    BY <1>1, <1>5, <1>6, <2>1, <2>6, OutcomesMove, Zenon
<1>9. CASE MakeSubDirFails(t) \/ CopyFails(t) \/ RemoveFails(t) \/ RenameFails(t)
  <2>1. result'[t] = "failed" /\ step # "record" /\ UNCHANGED deleted
    BY <1>2, <1>3, <1>9 DEF MakeSubDirFails, CopyFails, RemoveFails, RenameFails
  <2>2. op[t].call = "delete" /\ share[V(t)] = "none" => share'[V(t)] = "none"
    BY <1>2, <1>3, <1>9 DEF MakeSubDirFails, CopyFails, RemoveFails, RenameFails, MayBeAt, CloneSteps
  <2>3. Done(t)'
    BY <1>2, <2>1 DEF Done, DoneAt, V
  <2> QED
    BY <1>1, <1>5, <1>6, <2>1, <2>2, <2>3, OutcomesMove, Zenon
<1>10. CASE Remove(t)
  <2>1. op[t].call = "delete" /\ share'[V(t)] = "none" /\ UNCHANGED deleted
    BY <1>2, <1>3, <1>4, <1>10 DEF Remove, MayBeAt
  <2>2. Done(t)'
    BY <1>2, <2>1 DEF Done, DoneAt, V
  <2> QED
    BY <1>1, <1>5, <1>6, <2>1, <2>2, OutcomesMove, Zenon
<1>11. CASE RemoveArchivedCopy(t) \/ Rename(t)
  <2>1. op[t].call = "delete" /\ DeletionPolicy(V(t)) = "archive" /\ UNCHANGED deleted
    BY <1>3, <1>11 DEF RemoveArchivedCopy, Rename, MayBeAt, V
  <2>2. share[V(t)] = "none" => share'[V(t)] = "none"
    BY <1>2, <1>3, <1>11 DEF RemoveArchivedCopy, Rename
  <2>3. step = "rename" \/ share'[V(t)] = "none"
    BY <1>2, <1>3, <1>11 DEF RemoveArchivedCopy, Rename
  <2>4. Done(t)'
    BY <1>2, <2>1, <2>3 DEF Done, DoneAt, V
  <2> QED
    BY <1>1, <1>5, <1>6, <2>1, <2>2, <2>4, OutcomesMove, Zenon
<1>12. CASE Record(t)
  <2>1. /\ op[t].call = "delete" /\ UNCHANGED <<share, result>> /\ deleted' = deleted \cup {V(t)}
        /\ cpc[t] = "record"
    BY <1>3, <1>12 DEF Record, MayBeAt
  <2>2. TouchesShare(V(t)) => share'[V(t)] = "none"
    BY <1>3, <2>1 DEF Done, DoneAt, V
  <2>3. Done(t)'
    BY <1>2, <2>1, <2>2 DEF Done, DoneAt, V
  <2> QED
    BY <1>1, <1>5, <1>6, <2>1, <2>2, <2>3, OutcomesMove, Zenon
<1> QED
  BY <1>7, <1>8, <1>9, <1>10, <1>11, <1>12 DEF ShareWork

\* Nothing is done yet when a request begins, unless there is nothing to do.
LEMMA OutcomesBegin ==
    ASSUME Control, Outcomes, NEW t \in Threads, NEW v \in Volumes,
           CreateVolume(t, v) \/ DeleteVolume(t, v)
    PROVE  Outcomes'
<1>1. /\ cpc[t] = "idle" /\ result' = [result EXCEPT ![t] = "ok"] /\ answer' = [answer EXCEPT ![v] = "nothing"]
      /\ UNCHANGED <<share, deleted, known>>
  BY DEF CreateVolume, DeleteVolume, Begin, shareVars
<1>2. \A s \in Threads \ {t} : V(s)' = V(s) /\ op'[s] = op[s] /\ cpc'[s] = cpc[s] /\ result'[s] = result[s]
  BY DEF CreateVolume, DeleteVolume, Begin, CGoto, V, Control, ControlTypes, Outcomes
<1>3. \A s \in Threads \ {t} : Done(s)'
  BY <1>1, <1>2 DEF Outcomes, Done
<1>4. \A w \in Volumes : Answered(w)'
  BY <1>1 DEF Outcomes, Answered, Control, ControlTypes
<1>5. Done(t)'
  <2>1. CASE CreateVolume(t, v)
    <3>1. op'[t] = [call |-> "create", vol |-> v] /\ V(t)' = v
      BY <2>1 DEF CreateVolume, Begin, V, Control, ControlTypes
    <3>2. /\ cpc'[t] \in MadeSteps => ~CreatesSubDir(v)
          /\ cpc'[t] \in CopiedSteps => Source[v] = NoVolume
      BY <2>1 DEF CreateVolume, CGoto, MadeSteps, CopiedSteps, Control, ControlTypes
    <3>3. DoneAt([call |-> "create", vol |-> v], cpc'[t], result'[t], share'[v])
      BY <3>2, ControllerAssumption DEF DoneAt
    <3> QED
      BY <3>1, <3>3 DEF Done
  <2>2. CASE DeleteVolume(t, v)
    <3>1. op'[t] = [call |-> "delete", vol |-> v] /\ V(t)' = v
      BY <2>2 DEF DeleteVolume, Begin, V, Control, ControlTypes
    <3>2. /\ cpc'[t] = "record" => ~TouchesShare(v)
          /\ cpc'[t] \in {"unmountVol", "return"} => v \in deleted
      BY <2>2 DEF DeleteVolume, CGoto, Control, ControlTypes
    <3>3. v \in deleted /\ TouchesShare(v) => share[v] = "none"
      BY DEF Outcomes, Answered
    <3>4. DoneAt([call |-> "delete", vol |-> v], cpc'[t], result'[t], share'[v])
      BY <1>1, <3>2, <3>3 DEF DoneAt, TouchesShare
    <3> QED
      BY <3>1, <3>4 DEF Done
  <2> QED
    BY <2>1, <2>2
<1> QED
  BY <1>1, <1>3, <1>4, <1>5 DEF Outcomes

LEMMA OutcomesAnswer ==
    ASSUME Control, Outcomes, NEW t \in Threads, Answer(t)
    PROVE  Outcomes'
<1>1. /\ cpc[t] = "return" /\ V(t) \in Volumes /\ result' = [result EXCEPT ![t] = "ok"]
      /\ UNCHANGED <<share, deleted, known>>
  BY TargetIsVolume DEF Answer, shareVars
<1>2. \A s \in Threads \ {t} : V(s)' = V(s) /\ op'[s] = op[s] /\ cpc'[s] = cpc[s] /\ result'[s] = result[s]
  BY DEF Answer, CGoto, V, Control, ControlTypes, Outcomes
<1>3. \A s \in Threads \ {t} : Done(s)'
  BY <1>1, <1>2 DEF Outcomes, Done
<1>4. Done(t)'
  BY DEF Answer, Done, DoneAt, NoOp, Control, ControlTypes
<1>5. op[t] \in [call : {"create", "delete"}, vol : Volumes]
  BY <1>1 DEF Control, ControlTypes, Requests
<1>6. /\ op[t].call = "create" => V(t) \notin known
      /\ op[t].call = "delete" => V(t) \in known
  BY DEF Control, Requests
<1>7. /\ answer'[V(t)] = IF result[t] = "failed" THEN "nothing"
                         ELSE IF op[t].call = "create" THEN "created" ELSE "deleted"
      /\ \A v \in Volumes \ {V(t)} : answer'[v] = answer[v]
  BY <1>1 DEF Answer, Control, ControlTypes
<1>8. Done(t) /\ result[t] \in {"ok", "failed"} /\ Answered(V(t))
  BY <1>1 DEF Outcomes
<1>9. ASSUME NEW v \in Volumes, v = V(t) PROVE Answered(v)'
  BY <1>1, <1>5, <1>6, <1>7, <1>8, <1>9 DEF Done, DoneAt, V, Answered, MadeSteps, CopiedSteps, Outcomes
<1>10. ASSUME NEW v \in Volumes, v # V(t) PROVE Answered(v)'
  BY <1>1, <1>7, <1>10 DEF Outcomes, Answered
<1> QED
  BY <1>1, <1>3, <1>4, <1>9, <1>10 DEF Outcomes

LEMMA OutcomesAround ==
    ASSUME Control, Outcomes
    PROVE  /\ UNCHANGED ctrlVars => Outcomes'
           /\ \A v \in Volumes : Learn(v) \/ PodWrites(v) \/ CacheExpire(v) => Outcomes'
           /\ Restart => Outcomes'
<1>1. ASSUME UNCHANGED ctrlVars PROVE Outcomes'
  BY <1>1 DEF ctrlVars, Outcomes, Done, Answered, V
<1>2. ASSUME NEW v \in Volumes, Learn(v) PROVE Outcomes'
  BY <1>2 DEF Learn, shareVars, Outcomes, Done, Answered, V
<1>3. ASSUME NEW v \in Volumes, PodWrites(v) PROVE Outcomes'
  <2>1. /\ answer[v] = "created" /\ v \in known /\ share[v] = "empty" /\ share' = [share EXCEPT ![v] = "data"]
        /\ UNCHANGED <<cpc, op, result, deleted, known, answer>>
    BY <1>3 DEF PodWrites
  <2>2. ASSUME NEW t \in Threads PROVE Done(t)'
    <3>1. CASE cpc[t] = "idle"
      BY <2>1, <3>1 DEF Done, DoneAt, MadeSteps, CopiedSteps
    <3>2. CASE cpc[t] # "idle"
      <4>1. V(t) \in Volumes \ {v} /\ V(t)' = V(t)
        BY <2>1, <3>2, TargetIsVolume DEF Control, Requests, V
      <4> QED
        BY <2>1, <4>1 DEF Outcomes, Done, Control, ControlTypes
    <3> QED
      BY <3>1, <3>2
  <2>3. \A w \in Volumes : Answered(w)'
    BY <2>1 DEF Outcomes, Answered, Control, ControlTypes
  <2> QED
    BY <2>1, <2>2, <2>3 DEF Outcomes
<1>4. ASSUME NEW v \in Volumes, CacheExpire(v) PROVE Outcomes'
  BY <1>4 DEF CacheExpire, shareVars, Outcomes, Done, Answered, V
<1>5. ASSUME Restart PROVE Outcomes'
  BY <1>5 DEF Restart, shareVars, Outcomes, Done, DoneAt, Answered, V, NoOp
<1> QED
  BY <1>1, <1>2, <1>3, <1>4, <1>5

LEMMA OutcomesNext ==
    ASSUME Control, Paths, Outcomes, [Next]_vars
    PROVE  Outcomes'
<1>1. ASSUME NEW t \in Threads, Work(t) PROVE Outcomes'
  <2>1. CASE InternalCall(t) \/ InternalStep(t)
    BY <2>1, OutcomesAround DEF InternalCall, InternalStep
  <2>2. CASE InternalAborted(t) \/ InternalReturn(t)
    BY <2>2, OutcomesCallEnds
  <2>3. CASE ShareWork(t)
    BY <2>3, OutcomesShareWork
  <2>4. CASE Answer(t)
    BY <2>4, OutcomesAnswer
  <2> QED
    BY <1>1, <2>1, <2>2, <2>3, <2>4 DEF Work, ShareWork
<1>2. CASE UNCHANGED vars
  BY <1>2, OutcomesAround DEF vars
<1> QED
  BY <1>1, <1>2, OutcomesBegin, OutcomesAround DEF Next

LEMMA AlwaysOutcomes == Spec => []Outcomes
<1>1. Outcomes /\ (Control /\ Paths) /\ [Next]_vars => Outcomes'
  BY OutcomesNext
<1> QED
  BY <1>1, OutcomesInit, ControlPaths, PTL DEF Spec

\* A volume that CreateVolume has reported as created is on the share until its deletion is
\* asked for, for any number of requests, volumes, late mounts and restarts.
THEOREM CreationIsReal == Spec => []CreatedIsOnShare
<1>1. Outcomes => CreatedIsOnShare
  BY DEF Outcomes, Answered, CreatedIsOnShare
<1> QED
  BY <1>1, AlwaysOutcomes, PTL

\* A clone that CreateVolume has reported as created has all the data of its source, however
\* many clones of the source are made at a time and whichever of them unmounts it.
THEOREM ClonesAreComplete == Spec => []CloneIsComplete
<1>1. Outcomes => CloneIsComplete
  BY DEF Outcomes, Answered, CloneIsComplete
<1> QED
  BY <1>1, AlwaysOutcomes, PTL

\* Unless the default policy of the driver is to retain or archive, a volume created with the
\* policy to delete or archive it is gone from the share once DeleteVolume has reported it as deleted,
\* also when the answer comes from volDeletionCache.
THEOREM DeletionIsReal == DefaultOnDelete \notin {"retain", "archive"} => (Spec => []DeletedIsGone)
<1> SUFFICES ASSUME DefaultOnDelete \notin {"retain", "archive"} PROVE Spec => []DeletedIsGone
  OBVIOUS
<1>1. ASSUME NEW v \in WithSecrets, CreationPolicy(v) # "retain" PROVE TouchesShare(v)
  BY <1>1 DEF TouchesShare, DeletionPolicy, PolicyInId
<1>2. Outcomes => DeletedIsGone
  BY <1>1, ControllerAssumption DEF Outcomes, Answered, DeletedIsGone
<1> QED
  BY <1>2, AlwaysOutcomes, PTL

-----------------------------------------------------------------------------
(* ControllerServer implements VolumeContract.                             *)

\* The keys that are held belong to requests that may be in progress: a volume is not created
\* once its id is known, nor deleted before.
Keys ==
    /\ \A v \in Volumes : <<"create", v>> \in opLocks => v \notin known /\ answer[v] = "nothing"
    /\ \A v \in Volumes : <<"delete", v>> \in opLocks => v \in known

LEMMA KeysNext ==
    ASSUME Control, Keys, [Next]_vars
    PROVE  Keys'
<1>1. ASSUME NEW t \in Threads, NEW v \in Volumes, CreateVolume(t, v) \/ DeleteVolume(t, v) PROVE Keys'
  BY <1>1 DEF CreateVolume, DeleteVolume, Begin, Keys, Control, ControlTypes
<1>2. ASSUME NEW t \in Threads, Answer(t) PROVE Keys'
  <2>1. V(t) \in Volumes /\ op[t] \in [call : {"create", "delete"}, vol : Volumes]
    BY <1>2, TargetIsVolume DEF Answer, Control, ControlTypes, Requests
  <2>2. /\ opLocks' = opLocks \ {<<op[t].call, V(t)>>} /\ UNCHANGED known
        /\ \A v \in Volumes \ {V(t)} : answer'[v] = answer[v]
    BY <1>2, <2>1 DEF Answer, OpKey, V, Control, ControlTypes
  <2>3. op[t].call = "delete" => V(t) \in known
    BY DEF Control, Requests
  <2> QED
    BY <2>1, <2>2, <2>3 DEF Keys
<1>3. ASSUME NEW v \in Volumes, Learn(v) PROVE Keys'
  BY <1>3 DEF Learn, Keys
<1>4. CASE Restart
  BY <1>4 DEF Restart, Keys
<1>5. CASE UNCHANGED <<opLocks, known, answer>>
  BY <1>5 DEF Keys
<1>6. ASSUME NEW t \in Threads, Work(t), ~Answer(t) PROVE UNCHANGED <<opLocks, known, answer>>
  <2>1. CASE ShareWork(t)
    BY <2>1, ShareWorkMoves DEF Moves
  <2>2. CASE InternalCall(t) \/ InternalStep(t)
    BY <2>2 DEF InternalCall, InternalStep, ctrlVars
  <2>3. CASE InternalAborted(t) \/ InternalReturn(t)
    BY <2>3 DEF InternalAborted, InternalReturn, CallEnds
  <2> QED
    BY <1>6, <2>1, <2>2, <2>3 DEF Work, ShareWork
<1>7. ASSUME NEW v \in Volumes, PodWrites(v) \/ CacheExpire(v) PROVE UNCHANGED <<opLocks, known, answer>>
  BY <1>7 DEF PodWrites, CacheExpire
<1>8. UNCHANGED ctrlVars \/ UNCHANGED vars => UNCHANGED <<opLocks, known, answer>>
  BY DEF ctrlVars, vars
<1> QED
  BY <1>1, <1>2, <1>3, <1>4, <1>5, <1>6, <1>7, <1>8 DEF Next

LEMMA AlwaysKeys == Spec => []Keys
<1>1. Init => Keys
  BY DEF Init, Keys
<1>2. Keys /\ (Control /\ Paths) /\ [Next]_vars => Keys'
  BY KeysNext
<1> QED
  BY <1>1, <1>2, ControlPaths, PTL DEF Spec

\* What the parameters of a volume ask for, as VolumeContract has it.
Asked(v) == IF CreationPolicy(v) \in {"retain", "archive"} THEN CreationPolicy(v) ELSE "delete"

\* DeleteVolume goes by the policy the volume was created with, if the id says which it is.
LEMMA AskedIsDone ==
    ASSUME DefaultOnDelete \notin {"retain", "archive"}, NEW v \in Volumes
    PROVE  /\ DeletionPolicy(v) = "retain" <=> Asked(v) = "retain"
           /\ DeletionPolicy(v) = "archive" <=> Asked(v) = "archive"
           /\ Asked(v) \in {"retain", "archive", "delete"}
  BY DEF DeletionPolicy, PolicyInId, Asked

LEMMA ContractBegins ==
    ASSUME Control, Keys, NEW t \in Threads, NEW v \in Volumes,
           CreateVolume(t, v) \/ DeleteVolume(t, v)
    PROVE  Contract!Begin(v)
<1>1. /\ <<"create", v>> \notin opLocks /\ <<"delete", v>> \notin opLocks
      /\ opLocks' = opLocks \cup {<<IF v \in known THEN "delete" ELSE "create", v>>}
  BY DEF Keys, CreateVolume, DeleteVolume, Begin
<1>2. answer' = [answer EXCEPT ![v] = "nothing"] /\ UNCHANGED <<share, archived, known>>
  BY DEF CreateVolume, DeleteVolume, Begin, shareVars
<1> QED
  BY <1>1, <1>2 DEF Contract!Begin

\* A request works on the share as the contract allows it to.
LEMMA ContractWorks ==
    ASSUME Control, Paths, ~RemoveArchived, DefaultOnDelete \notin {"retain", "archive"},
           NEW t \in Threads, ShareWork(t)
    PROVE  \/ Contract!Fill(V(t)) \/ Contract!Remove(V(t)) \/ Contract!Archive(V(t))
           \/ UNCHANGED Contract!vars
<1>1. V(t) \in Volumes /\ cpc[t] # "idle" /\ UNCHANGED <<opLocks, known, answer>>
  BY ShareWorkMoves, TargetIsVolume DEF Moves
<1>2. /\ op[t] \in [call : {"create", "delete"}, vol : Volumes] /\ MayBeAt(op[t], cpc[t])
      /\ share \in [Volumes -> Contents] /\ archived \in [Volumes -> Contents]
      /\ <<op[t].call, V(t)>> \in opLocks /\ V(t) = op[t].vol
  <2>1. op[t] \in [call : {"create", "delete"}, vol : Volumes]
    BY <1>1 DEF Control, ControlTypes, Requests
  <2>2. <<op[t].call, V(t)>> \in opLocks
    BY <1>1 DEF Control, Requests, OpKey, V
  <2>3. MayBeAt(op[t], cpc[t])
    BY <1>1 DEF Control, Positions
  <2>4. share \in [Volumes -> Contents] /\ archived \in [Volumes -> Contents]
    BY DEF Control, ControlTypes
  <2> QED
    BY <2>1, <2>2, <2>3, <2>4 DEF V
<1>3. cpc[t] # "record" => mnt[V(t)] > 0
  BY ShareWorkFrame DEF Paths, WorksOnShare, ShareSteps
<1>4. CASE MakeSubDir(t) \/ Copy(t) \/ CopyFails(t)
  <2>1. op[t].call = "create" /\ UNCHANGED archived
    BY <1>2, <1>4 DEF MakeSubDir, Copy, CopyFails, MayBeAt, CloneSteps
  <2>2. (\E c \in {"empty", "partial", "data"} : share' = [share EXCEPT ![V(t)] = c]) \/ UNCHANGED share
    <3>1. CASE MakeSubDir(t)
      BY <1>1, <1>2, <1>3, <3>1 DEF MakeSubDir, Contents
    <3>2. CASE Copy(t)
      <4>1. Source[V(t)] \in Volumes
        BY <1>1, <1>2, <3>2, ControllerAssumption DEF Copy, MayBeAt, CloneSteps
      <4>2. SourceSeen(V(t)) \in Contents \ {"none"}
        BY <1>2, <3>2, <4>1 DEF Copy, SourceSeen, Contents
      <4>3. share' = [share EXCEPT ![V(t)] =
                         IF share[V(t)] \in {"none", "empty"} \/ SourceSeen(V(t)) = "data"
                         THEN SourceSeen(V(t)) ELSE share[V(t)]]
        BY <1>1, <1>2, <1>3, <3>2 DEF Copy
      <4> QED
        BY <1>1, <1>2, <4>2, <4>3 DEF Contents
    <3>3. CASE CopyFails(t)
      BY <3>3 DEF CopyFails
    <3> QED
      BY <1>4, <3>1, <3>2, <3>3
  <2> QED
    BY <1>1, <1>2, <2>1, <2>2 DEF Contract!Fill, Contract!vars
<1>5. CASE Remove(t) \/ (RemoveFails(t) /\ cpc[t] = "remove")
  <2>1. op[t].call = "delete" /\ V(t) \in WithSecrets /\ DeletionPolicy(V(t)) \notin {"retain", "archive"}
    BY <1>2, <1>5 DEF Remove, MayBeAt
  <2>2. Asked(V(t)) = "delete"
    BY <1>1, <2>1, AskedIsDone
  <2>3. UNCHANGED archived
    BY <1>5 DEF Remove, RemoveFails
  <2>4. \/ UNCHANGED share
        \/ \E c \in {"none", "partial"} :
              (c = "partial" => share[V(t)] = "data") /\ share' = [share EXCEPT ![V(t)] = c]
    <3>1. CASE Remove(t)
      BY <1>3, <3>1 DEF Remove
    <3>2. CASE RemoveFails(t) /\ cpc[t] = "remove"
      <4>1. \E c \in IF share[V(t)] = "data" /\ mnt[V(t)] > 0 THEN {"data", "partial"} ELSE {share[V(t)]} :
               share' = [share EXCEPT ![V(t)] = c]
        BY <3>2 DEF RemoveFails
      <4>2. share[V(t)] = "data" \/ share' = [share EXCEPT ![V(t)] = share[V(t)]]
        BY <4>1
      <4>3. share[V(t)] = "data" => \E c \in {"data", "partial"} : share' = [share EXCEPT ![V(t)] = c]
        BY <4>1
      <4>4. [share EXCEPT ![V(t)] = share[V(t)]] = share
        BY <1>1, <1>2
      <4> QED
        BY <4>2, <4>3, <4>4
    <3> QED
      BY <1>5, <3>1, <3>2
  <2> QED
    BY <1>1, <1>2, <2>1, <2>2, <2>3, <2>4 DEF Contract!Remove, Contract!vars, Asked
<1>6. CASE Rename(t)
  <2>1. op[t].call = "delete" /\ V(t) \in WithSecrets /\ DeletionPolicy(V(t)) = "archive"
    BY <1>2, <1>6 DEF Rename, MayBeAt
  <2>2. Asked(V(t)) = "archive"
    BY <1>1, <2>1, AskedIsDone
  <2> QED
    BY <1>1, <1>2, <1>6, <2>1, <2>2 DEF Rename, Contract!Archive, Asked
<1>7. CASE MakeSubDirFails(t) \/ RenameFails(t) \/ Record(t) \/ RemoveArchivedCopy(t)
           \/ (RemoveFails(t) /\ cpc[t] # "remove")
  <2>1. UNCHANGED <<share, archived>>
    BY <1>1, <1>2, <1>7 DEF MakeSubDirFails, RenameFails, Record, RemoveArchivedCopy, RemoveFails, shareVars
  <2> QED
    BY <1>1, <2>1 DEF Contract!vars
<1> QED
  BY <1>4, <1>5, <1>6, <1>7 DEF ShareWork

\* A request is answered with what it has done.
LEMMA ContractAnswers ==
    ASSUME Control, Outcomes, DefaultOnDelete \notin {"retain", "archive"},
           NEW t \in Threads, Answer(t)
    PROVE  \/ Contract!Created(V(t)) \/ Contract!Deleted(V(t))
           \/ \E call \in {"create", "delete"} : Contract!Fail(call, V(t))
<1>1. /\ cpc[t] = "return" /\ V(t) \in Volumes /\ UNCHANGED <<share, archived, known>>
      /\ answer[V(t)] = "nothing" /\ answer \in [Volumes -> {"nothing", "created", "deleted"}]
  BY TargetIsVolume DEF Answer, shareVars, Control, ControlTypes, Requests
<1>2. /\ op[t] \in [call : {"create", "delete"}, vol : Volumes] /\ V(t) = op[t].vol
      /\ <<op[t].call, V(t)>> \in opLocks /\ opLocks' = opLocks \ {<<op[t].call, V(t)>>}
  BY <1>1 DEF Answer, Control, ControlTypes, Requests, OpKey, V
<1>3. Done(t) /\ result[t] \in {"ok", "failed"}
  BY DEF Outcomes
<1>4. CASE result[t] = "failed"
  <2>1. UNCHANGED answer
    BY <1>1, <1>4 DEF Answer
  <2> QED
    BY <1>1, <1>2, <2>1 DEF Contract!Fail
<1>5. CASE result[t] = "ok" /\ op[t].call = "create"
  <2>1. answer' = [answer EXCEPT ![V(t)] = "created"]
    BY <1>5 DEF Answer
  <2>2. /\ CreatesSubDir(V(t)) => share[V(t)] # "none"
        /\ Source[V(t)] \in Existing => share[V(t)] = "data"
    BY <1>1, <1>2, <1>3, <1>5 DEF Done, DoneAt, MadeSteps, CopiedSteps
  <2> QED
    BY <1>1, <1>2, <1>5, <2>1, <2>2 DEF Contract!Created
<1>6. CASE result[t] = "ok" /\ op[t].call = "delete"
  <2>1. answer' = [answer EXCEPT ![V(t)] = "deleted"]
    BY <1>6 DEF Answer
  <2>2. V(t) \in WithSecrets /\ Asked(V(t)) # "retain" => share[V(t)] = "none"
    BY <1>1, <1>2, <1>3, <1>6, AskedIsDone DEF Done, DoneAt, TouchesShare
  <2> QED
    BY <1>1, <1>2, <1>6, <2>1, <2>2 DEF Contract!Deleted, Asked
<1> QED
  BY <1>2, <1>3, <1>4, <1>5, <1>6

LEMMA ContractNext ==
    ASSUME Control, Paths, Outcomes, Keys, [Next]_vars,
           ~RemoveArchived, DefaultOnDelete \notin {"retain", "archive"}
    PROVE  [Contract!Next]_(Contract!vars)
<1>1. ASSUME NEW t \in Threads, NEW v \in Volumes, CreateVolume(t, v) \/ DeleteVolume(t, v)
      PROVE Contract!Next
  BY <1>1, ContractBegins DEF Contract!Next
<1>2. ASSUME NEW t \in Threads, Work(t) PROVE [Contract!Next]_(Contract!vars)
  <2>1. CASE InternalCall(t) \/ InternalStep(t)
    BY <2>1 DEF InternalCall, InternalStep, ctrlVars, Contract!vars
  <2>2. CASE InternalAborted(t) \/ InternalReturn(t)
    BY <2>2 DEF InternalAborted, InternalReturn, CallEnds, shareVars, Contract!vars
  <2>3. CASE ShareWork(t)
    <3>1. V(t) \in Volumes
      BY <2>3, ShareWorkMoves, TargetIsVolume DEF Moves
    <3> QED
      BY <2>3, <3>1, ContractWorks DEF Contract!Next
  <2>4. CASE Answer(t)
    <3>1. V(t) \in Volumes
      BY <2>4, TargetIsVolume DEF Answer
    <3> QED
      BY <2>4, <3>1, ContractAnswers DEF Contract!Next
  <2> QED
    BY <1>2, <2>1, <2>2, <2>3, <2>4 DEF Work, ShareWork
<1>3. ASSUME NEW v \in Volumes, Learn(v) PROVE Contract!Next
  <2>1. Contract!Learn(v)
    BY <1>3 DEF Learn, shareVars, Contract!Learn
  <2> QED
    BY <2>1 DEF Contract!Next
<1>4. ASSUME NEW v \in Volumes, PodWrites(v) PROVE Contract!Next
  <2>1. Contract!PodWrites(v)
    BY <1>4 DEF PodWrites, Contract!PodWrites
  <2> QED
    BY <2>1 DEF Contract!Next
<1>5. ASSUME Restart PROVE Contract!Next
  <2>1. Contract!Restart
    BY <1>5 DEF Restart, shareVars, Contract!Restart
  <2> QED
    BY <2>1 DEF Contract!Next
<1>6. ASSUME NEW v \in Volumes, CacheExpire(v) PROVE UNCHANGED Contract!vars
  BY <1>6 DEF CacheExpire, shareVars, Contract!vars
<1>7. UNCHANGED ctrlVars \/ UNCHANGED vars => UNCHANGED Contract!vars
  BY DEF ctrlVars, vars, Contract!vars
<1> QED
  BY <1>1, <1>2, <1>3, <1>4, <1>5, <1>6, <1>7 DEF Next

\* CreateVolume and DeleteVolume keep VolumeContract for any number of requests, volumes, late
\* mounts and restarts, unless the driver removes archived copies (which is its default), or
\* retains or archives when a volume has no policy: in the first case a repeated deletion takes the copy, in the second the id of a
\* volume to be deleted does not say so.
THEOREM ImplementsVolumeContract ==
    ~RemoveArchived /\ DefaultOnDelete \notin {"retain", "archive"} => (Spec => KeepsVolumeContract)
<1> SUFFICES ASSUME ~RemoveArchived, DefaultOnDelete \notin {"retain", "archive"}
             PROVE  Spec => KeepsVolumeContract
  OBVIOUS
<1>1. Init => Contract!Init
  BY DEF Init, Contract!Init
<1>2. Control /\ Paths /\ Outcomes /\ Keys /\ [Next]_vars => [Contract!Next]_(Contract!vars)
  BY ContractNext
<1> QED
  BY <1>1, <1>2, ControlPaths, AlwaysOutcomes, AlwaysKeys, PTL DEF Spec, KeepsVolumeContract, Contract!Spec
=============================================================================
