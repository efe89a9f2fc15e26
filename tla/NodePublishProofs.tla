------------------------- MODULE NodePublishProofs -------------------------
(***************************************************************************)
(* Proofs about NodePublish, for every number of goroutines, volumes and   *)
(* targets: first when the orchestrator keeps its calls for one target     *)
(* apart, then what is left when it does not.                              *)
(***************************************************************************)
EXTENDS NodePublish, TLAPS, SequenceTheorems

Labels == {"idle"} \cup PublishSteps \cup UnpublishSteps \cup StatsSteps \cup Returns

\* A publish or unpublish call is in progress.
Calling(t) == pc[t] \notin {"idle"} \cup StatsSteps

\* One such call at a time for a target, whose answer is withdrawn when the call starts.
Apart ==
    /\ abandoned = {}
    /\ \A t \in Threads : tgt[t] = NoTarget <=> pc[t] = "idle"
    /\ \A s, t \in Threads : Calling(s) /\ Calling(t) /\ tgt[s] = tgt[t] => s = t
    /\ \A t \in Threads : Calling(t) => answer[tgt[t]] = "nothing"
    /\ \A t \in Threads : pc[t] \in {"mkdir", "mounting"} => tgt[t] \in Inline
    /\ \A t \in Threads : pc[t] = "bind" => tgt[t] \notin Inline

\* What StagingContract promises, and a volume that is being published stays staged.
Staged ==
    /\ \A v \in Volumes : call[v] # "none" => told[v] = "nothing"
    /\ \A v \in Volumes : told[v] = "staged" => mounted[v]
    /\ \A t \in Threads : pc[t] \in {"ensure", "bind"} /\ tgt[t] \notin Inline
                             => told[VolumeOf[tgt[t]]] = "staged"

\* Only the share is ever mounted on a target, and what a call knows stays true.
Served ==
    /\ stack \in [Targets -> Seq({"share"})]
    /\ \A p \in Targets : stack[p] # <<>> => p \in dirs
    /\ \A t \in Threads : pc[t] \in {"readDir", "published"} => stack[tgt[t]] # <<>>
    /\ \A t \in Threads : pc[t] = "unpublished" => tgt[t] \notin dirs
    /\ PublishedServesShare /\ UnpublishedIsClean

PInv == TypeOK /\ Apart /\ Staged /\ Served

\* A mount on top of others, and the mounts that are left when the topmost one goes.
LEMMA Pushed ==
    ASSUME NEW S, NEW fs \in S, NEW s \in Seq(S)
    PROVE  <<fs>> \o s \in Seq(S) /\ <<fs>> \o s # <<>>
<1>1. <<fs>> \in Seq(S) /\ Len(<<fs>>) = 1
  OBVIOUS
<1>2. /\ <<fs>> \o s \in Seq(S)
      /\ Len(<<fs>> \o s) = Len(<<fs>>) + Len(s)
  BY <1>1, ConcatProperties
<1>3. Len(s) \in Nat
  OBVIOUS
<1>4. Len(<<fs>> \o s) > 0
  BY <1>1, <1>2, <1>3
<1>5. Len(<<>>) = 0
  OBVIOUS
<1> QED
  BY <1>2, <1>4, <1>5

LEMMA Popped ==
    ASSUME NEW S, NEW s \in Seq(S), s # <<>>
    PROVE  Tail(s) \in Seq(S) /\ Head(s) \in S
BY HeadTailProperties

LEMMA PopShare ==
    ASSUME NEW s \in Seq({"share"}), s # <<>>
    PROVE  Tail(s) \in Seq({"share"}) /\ Head(s) = "share"
BY Popped

LEMMA SharesOnly ==
    ASSUME Served, NEW p \in Targets
    PROVE  Content(p) = "share" <=> stack[p] # <<>>
BY PopShare DEF Served, Content

LEMMA PInit == Init => PInv
<1> SUFFICES ASSUME Init
             PROVE  PInv
  OBVIOUS
<1>1. <<>> \in Seq({"share"}) /\ <<>> \in Seq({"share", "local"})
  OBVIOUS
<1>2. TypeOK
  BY <1>1 DEF Init, Staging!Init, TypeOK
<1>3. Apart /\ Staged
  BY PublishAssumption DEF Init, Staging!Init, Apart, Calling, Staged
<1>4. Served
  BY <1>1 DEF Init, Served, PublishedServesShare, UnpublishedIsClean
<1> QED
  BY <1>2, <1>3, <1>4 DEF PInv

-----------------------------------------------------------------------------
(* A step inside a publish or unpublish call.                              *)

Moves(t) ==
    /\ Calling(t)
    /\ \E step \in Labels \ ({"idle"} \cup StatsSteps) : pc' = [pc EXCEPT ![t] = step]
    /\ UNCHANGED <<mounted, present, call, told, locks, tgt, cached, abandoned, answer>>

\* The path of t's target, and of no other, changes, to one that t's next step expects.
OwnPath(t) ==
    /\ dirs' \subseteq Targets
    /\ stack' \in [Targets -> Seq({"share"})]
    /\ \A p \in Targets \ {tgt[t]} : stack'[p] = stack[p] /\ (p \in dirs' <=> p \in dirs)
    /\ stack'[tgt[t]] # <<>> => tgt[t] \in dirs'
    /\ pc'[t] \in {"readDir", "published"} => stack'[tgt[t]] # <<>>
    /\ pc'[t] = "unpublished" => tgt[t] \notin dirs'

LEMMA MovesPreserve ==
    ASSUME PInv, NEW t \in Threads, Moves(t), OwnPath(t), late' \in [Inline -> Nat],
           pc'[t] \in {"mkdir", "mounting"} => tgt[t] \in Inline,
           pc'[t] = "bind" => tgt[t] \notin Inline,
           pc'[t] \in {"ensure", "bind"} /\ tgt[t] \notin Inline => pc[t] = "ensure"
    PROVE  PInv'
<1>1. tgt[t] \in Targets /\ answer[tgt[t]] = "nothing"
  BY PublishAssumption DEF PInv, TypeOK, Apart, Moves, Calling
<1>2. /\ pc'[t] \in Labels \ ({"idle"} \cup StatsSteps)
      /\ \A s \in Threads \ {t} : pc'[s] = pc[s] /\ (Calling(s) => tgt[s] \in Targets \ {tgt[t]})
  BY <1>1, PublishAssumption DEF PInv, TypeOK, Apart, Moves, Calling
<1>3. TypeOK'
  <2>1. stack' \in [Targets -> Seq({"share", "local"})]
    BY DEF OwnPath
  <2>2. pc' \in [Threads -> Labels]
    BY <1>2 DEF PInv, TypeOK, Moves, Labels
  <2> QED
    BY <2>1, <2>2 DEF PInv, TypeOK, Moves, OwnPath, Labels
<1>4. Apart'
  BY <1>1, <1>2 DEF PInv, Apart, Moves, Calling, Labels
<1>5. Staged'
  BY <1>2 DEF PInv, Staged, Moves
<1>6. Served'
  <2>1. \A p \in Targets : stack'[p] # <<>> => p \in dirs'
    BY DEF PInv, Served, OwnPath
  <2>2. \A s \in Threads : pc'[s] \in {"readDir", "published"} => stack'[tgt'[s]] # <<>>
    BY <1>2 DEF PInv, Served, OwnPath, Moves, Calling, StatsSteps
  <2>3. \A s \in Threads : pc'[s] = "unpublished" => tgt'[s] \notin dirs'
    BY <1>2 DEF PInv, Served, OwnPath, Moves, Calling, StatsSteps
  <2>4. PublishedServesShare' /\ UnpublishedIsClean'
    BY <1>1 DEF PInv, Served, OwnPath, Moves, PublishedServesShare, UnpublishedIsClean, Content
  <2> QED
    BY <2>1, <2>2, <2>3, <2>4 DEF Served, OwnPath
<1> QED
  BY <1>3, <1>4, <1>5, <1>6 DEF PInv

LEMMA UnmountShares ==
    ASSUME Served, TypeOK, NEW p \in Targets, Unmount(p)
    PROVE  /\ stack' \in [Targets -> Seq({"share"})] /\ dirs' = dirs
           /\ \A q \in Targets \ {p} : stack'[q] = stack[q]
           /\ stack'[p] # <<>> => stack[p] # <<>>
<1>1. CASE stack[p] # <<>> /\ stack' = [stack EXCEPT ![p] = Tail(@)] /\ UNCHANGED dirs
  <2>1. Tail(stack[p]) \in Seq({"share"})
    BY <1>1, PopShare DEF Served
  <2> QED
    BY <1>1, <2>1 DEF Served
<1>2. CASE UNCHANGED pathVars
  BY <1>2 DEF pathVars, Served
<1> QED
  BY <1>1, <1>2 DEF Unmount

LEMMA PushShares ==
    ASSUME Served, TypeOK, NEW p \in Targets, Push(p, "share")
    PROVE  /\ stack' \in [Targets -> Seq({"share"})] /\ dirs' = dirs /\ p \in dirs
           /\ \A q \in Targets \ {p} : stack'[q] = stack[q]
           /\ stack'[p] # <<>>
<1>1. <<"share">> \o stack[p] \in Seq({"share"}) /\ <<"share">> \o stack[p] # <<>>
  BY Pushed DEF Served
<1>2. stack' = [stack EXCEPT ![p] = <<"share">> \o stack[p]] /\ dirs' = dirs /\ p \in dirs
  BY DEF Push
<1> QED
  BY <1>1, <1>2 DEF Served

\* The steps of a publish or unpublish call, but for its return.
CallStep(t) ==
    \/ Fails(t)
    \/ Mkdir(t) \/ AlreadyMounted(t) \/ NotMounted(t) \/ ReadDir(t) \/ UnmountBad(t)
    \/ Bind(t) \/ BindFails(t) \/ MountDone(t) \/ MountTimeout(t)
    \/ PathGone(t) \/ PathExists(t) \/ NotMnt(t) \/ UnmountPath(t) \/ RemovePath(t)

LEMMA CallSteps ==
    ASSUME PInv, NEW t \in Threads, CallStep(t)
    PROVE  PInv'
<1> DEFINE p == tgt[t]
<1> USE DEF Goto, stagingVars, pathVars
<1>1. Moves(t)
  <2> USE DEF Moves, Calling, Labels, PublishSteps, UnpublishSteps, StatsSteps, Returns
  <2>1. CASE Fails(t) \/ Mkdir(t) \/ AlreadyMounted(t) \/ NotMounted(t) \/ ReadDir(t)
    BY <2>1 DEF Fails, Mkdir, AlreadyMounted, NotMounted, ReadDir
  <2>2. CASE UnmountBad(t) \/ Bind(t) \/ BindFails(t) \/ MountDone(t) \/ MountTimeout(t)
    BY <2>2 DEF UnmountBad, Bind, BindFails, MountDone, MountTimeout
  <2>3. CASE PathGone(t) \/ PathExists(t) \/ NotMnt(t) \/ UnmountPath(t) \/ RemovePath(t)
    BY <2>3 DEF PathGone, PathExists, NotMnt, UnmountPath, RemovePath
  <2> QED
    BY <2>1, <2>2, <2>3 DEF CallStep
<1>2. /\ p \in Targets
      /\ dirs \subseteq Targets
      /\ stack \in [Targets -> Seq({"share"})]
      /\ stack[p] # <<>> => p \in dirs
      /\ pc \in [Threads -> Labels]
      /\ pc[t] = "readDir" => stack[p] # <<>>
      /\ pc[t] \in {"mkdir", "mounting"} => p \in Inline
      /\ pc[t] = "bind" => p \notin Inline
  BY <1>1, PublishAssumption DEF PInv, TypeOK, Apart, Served, Moves, Calling, Labels
<1> HIDE DEF p
<1>3. late' \in [Inline -> Nat]
  <2>1. CASE MountTimeout(t)
    BY <1>2, <2>1 DEF MountTimeout, PInv, TypeOK, p
  <2>2. CASE late' = late
    BY <2>2 DEF PInv, TypeOK
  <2> QED
    BY <2>1, <2>2 DEF CallStep, Fails, Mkdir, AlreadyMounted, NotMounted, ReadDir, UnmountBad,
       Bind, BindFails, MountDone, PathGone, PathExists, NotMnt, UnmountPath, RemovePath
<1>4. /\ pc'[t] \in {"mkdir", "mounting"} => p \in Inline
      /\ pc'[t] = "bind" => p \notin Inline
      /\ pc'[t] \in {"ensure", "bind"} /\ p \notin Inline => pc[t] = "ensure"
  BY <1>2 DEF p, CallStep, Fails, Mkdir, AlreadyMounted, NotMounted, ReadDir, UnmountBad,
     Bind, BindFails, MountDone, MountTimeout, PathGone, PathExists, NotMnt, UnmountPath, RemovePath
<1>5. OwnPath(t)
  <2> USE <1>2
  <2>1. CASE Fails(t) \/ MountTimeout(t) \/ AlreadyMounted(t) \/ ReadDir(t)
    BY <2>1 DEF Fails, MountTimeout, AlreadyMounted, ReadDir, OwnPath, p
  <2>2. CASE PathGone(t) \/ PathExists(t) \/ NotMnt(t)
    BY <2>2 DEF PathGone, PathExists, NotMnt, OwnPath, p
  <2>3. CASE Mkdir(t) \/ NotMounted(t)
    BY <2>3 DEF Mkdir, NotMounted, OwnPath, p
  <2>4. CASE BindFails(t) \/ RemovePath(t)
    BY <2>4 DEF BindFails, RemovePath, OwnPath, p
  <2>5. CASE UnmountBad(t) \/ UnmountPath(t)
    <3>1. Unmount(p) /\ pc'[t] \notin {"readDir", "published", "unpublished"}
      BY <2>5 DEF UnmountBad, UnmountPath, p
    <3>2. Served /\ TypeOK
      BY DEF PInv
    <3> QED
      BY <3>1, <3>2, UnmountShares DEF OwnPath, p
  <2>6. CASE Bind(t) \/ MountDone(t)
    <3>1. Push(p, "share") /\ pc'[t] # "unpublished"
      <4>1. CASE MountDone(t)
        BY <4>1 DEF MountDone, p
      <4>2. CASE Bind(t)
        <5>1. VolumeOf[p] \in Volumes /\ told[VolumeOf[p]] = "staged"
          BY <1>2, <4>2, PublishAssumption DEF Bind, PInv, Staged, p
        <5>2. mounted[VolumeOf[p]]
          BY <5>1 DEF PInv, Staged
        <5> QED
          BY <4>2, <5>2 DEF Bind, p
      <4> QED
        BY <2>6, <4>1, <4>2
    <3>2. Served /\ TypeOK
      BY DEF PInv
    <3> QED
      BY <3>1, <3>2, PushShares DEF OwnPath, p
  <2> QED
    BY <2>1, <2>2, <2>3, <2>4, <2>5, <2>6 DEF CallStep
<1> QED
  BY <1>1, <1>3, <1>4, <1>5, MovesPreserve DEF p

-----------------------------------------------------------------------------
(* The start and the end of a request.                                     *)

\* A call for p begins at a step that expects nothing of the target.
LEMMA EnterPreserves ==
    ASSUME PInv, NEW t \in Threads, NEW p \in Targets,
           NEW step \in {"ensure", "mkdir", "cleanup"}, Enter(t, p, step), CallsFor(p) = {},
           locks' \subseteq Threads \X Inline, abandoned' = {},
           answer' = [answer EXCEPT ![p] = "nothing"],
           step = "mkdir" => p \in Inline,
           step = "ensure" => p \notin Inline /\ told[VolumeOf[p]] = "staged"
    PROVE  PInv'
<1>1. /\ pc[t] = "idle" /\ pc' = [pc EXCEPT ![t] = step] /\ tgt' = [tgt EXCEPT ![t] = p]
      /\ UNCHANGED <<mounted, present, call, told, dirs, stack, late, cached>>
  BY DEF Enter, Goto, stagingVars, pathVars
<1>2. /\ pc'[t] = step /\ tgt'[t] = p
      /\ \A s \in Threads \ {t} : pc'[s] = pc[s] /\ tgt'[s] = tgt[s]
  BY <1>1 DEF PInv, TypeOK
<1>3. p # NoTarget
  BY PublishAssumption
<1>4. answer'[p] = "nothing" /\ \A q \in Targets \ {p} : answer'[q] = answer[q]
  BY DEF PInv, TypeOK
<1>5. \A s \in Threads : Calling(s) => tgt[s] \in Targets \ {p}
  BY DEF PInv, TypeOK, Apart, CallsFor, Calling
<1>6. TypeOK'
  <2>1. pc' \in [Threads -> Labels] /\ tgt' \in [Threads -> Targets \cup {NoTarget}]
    BY <1>1 DEF PInv, TypeOK, Labels, PublishSteps, UnpublishSteps, StatsSteps
  <2>2. answer' \in [Targets -> {"nothing", "published", "unpublished"}]
    BY DEF PInv, TypeOK
  <2> QED
    BY <1>1, <2>1, <2>2 DEF PInv, TypeOK, Labels
<1>7. Apart'
  <2>1. \A s \in Threads : tgt'[s] = NoTarget <=> pc'[s] = "idle"
    <3>1. \A s \in Threads : tgt[s] = NoTarget <=> pc[s] = "idle"
      BY DEF PInv, Apart
    <3>2. tgt'[t] # NoTarget /\ pc'[t] # "idle"
      BY <1>2, <1>3
    <3> QED
      BY <1>2, <3>1, <3>2
  <2>2. \A r, s \in Threads : Calling(r)' /\ Calling(s)' /\ tgt'[r] = tgt'[s] => r = s
    BY <1>2, <1>5 DEF PInv, Apart, Calling
  <2>3. \A s \in Threads : Calling(s)' => answer'[tgt'[s]] = "nothing"
    BY <1>2, <1>4, <1>5 DEF PInv, Apart, Calling
  <2>4. \A s \in Threads : /\ pc'[s] \in {"mkdir", "mounting"} => tgt'[s] \in Inline
                           /\ pc'[s] = "bind" => tgt'[s] \notin Inline
    BY <1>2 DEF PInv, Apart
  <2> QED
    BY <2>1, <2>2, <2>3, <2>4 DEF Apart
<1>8. Staged'
  <2>1. \A v \in Volumes : (call'[v] # "none" => told'[v] = "nothing") /\ (told'[v] = "staged" => mounted'[v])
    BY <1>1 DEF PInv, Staged
  <2>2. ASSUME NEW s \in Threads, pc'[s] \in {"ensure", "bind"}, tgt'[s] \notin Inline
        PROVE  told[VolumeOf[tgt'[s]]] = "staged"
    <3>1. CASE s = t
      BY <1>2, <2>2, <3>1
    <3>2. CASE s # t
      BY <1>2, <2>2, <3>2 DEF PInv, Staged
    <3> QED
      BY <3>1, <3>2
  <2> QED
    BY <1>1, <2>1, <2>2 DEF Staged
<1>9. Served'
  <2>1. \A q \in Targets : answer'[q] # "nothing" => answer'[q] = answer[q]
    BY <1>4
  <2>2. PublishedServesShare' /\ UnpublishedIsClean'
    BY <1>1, <2>1, ZenonT(30) DEF PInv, Served, PublishedServesShare, UnpublishedIsClean, Content
  <2> QED
    BY <1>1, <1>2, <2>2 DEF PInv, Served
<1> QED
  BY <1>6, <1>7, <1>8, <1>9 DEF PInv

LEMMA Enters ==
    ASSUME PInv, ~Overlap, NEW t \in Threads, NEW p \in Targets,
           NodePublishVolume(t, p) \/ NodeUnpublishVolume(t, p)
    PROVE  PInv'
<1>1. abandoned = {} /\ locks \subseteq Threads \X Inline
  BY DEF PInv, TypeOK, Apart
<1>2. ASSUME Supersede(p)
      PROVE  /\ abandoned' = {} /\ answer' = [answer EXCEPT ![p] = "nothing"]
             /\ CallsFor(p) = {}
  BY <1>1, <1>2 DEF Supersede
<1>3. CASE PublishStaged(t, p)
  BY <1>1, <1>2, <1>3, EnterPreserves, Zenon DEF PublishStaged
<1>4. CASE PublishInline(t, p)
  <2>1. /\ p \in Inline /\ Enter(t, p, "mkdir") /\ Supersede(p)
        /\ locks' = locks \cup {<<t, p>>}
    BY <1>4 DEF PublishInline
  <2>2. locks' \subseteq Threads \X Inline
    BY <1>1, <2>1
  <2>3. abandoned' = {} /\ answer' = [answer EXCEPT ![p] = "nothing"] /\ CallsFor(p) = {}
    BY <1>2, <2>1
  <2> QED
    BY <2>1, <2>2, <2>3, EnterPreserves, Zenon
<1>5. CASE NodeUnpublishVolume(t, p)
  BY <1>1, <1>2, <1>5, EnterPreserves, Zenon DEF NodeUnpublishVolume
<1> QED
  BY <1>3, <1>4, <1>5 DEF NodePublishVolume

\* The end of a call leaves its target as it is, with the answer ans.
LEMMA LeavePreserves ==
    ASSUME PInv, NEW t \in Threads, Calling(t),
           pc' = [pc EXCEPT ![t] = "idle"], tgt' = [tgt EXCEPT ![t] = NoTarget],
           NEW ans \in {"nothing", "published", "unpublished"},
           answer' = [answer EXCEPT ![tgt[t]] = ans],
           ans = "published" => tgt[t] \in dirs /\ Content(tgt[t]) = "share",
           ans = "unpublished" => tgt[t] \notin dirs /\ stack[tgt[t]] = <<>>,
           locks' \subseteq locks, abandoned' = {},
           UNCHANGED <<mounted, present, call, told, dirs, stack, late, cached>>
    PROVE  PInv'
<1>1. /\ pc'[t] = "idle" /\ tgt'[t] = NoTarget
      /\ \A s \in Threads \ {t} : pc'[s] = pc[s] /\ tgt'[s] = tgt[s]
  BY DEF PInv, TypeOK
<1>2. tgt[t] \in Targets
  BY DEF PInv, TypeOK, Apart, Calling
<1>3. answer'[tgt[t]] = ans /\ \A q \in Targets \ {tgt[t]} : answer'[q] = answer[q]
  BY <1>2 DEF PInv, TypeOK
<1>4. \A s \in Threads \ {t} : Calling(s) => tgt[s] \in Targets \ {tgt[t]}
  BY <1>2, PublishAssumption DEF PInv, TypeOK, Apart, Calling
<1>5. TypeOK'
  <2>1. pc' \in [Threads -> Labels] /\ tgt' \in [Threads -> Targets \cup {NoTarget}]
    BY DEF PInv, TypeOK, Labels
  <2>2. answer' \in [Targets -> {"nothing", "published", "unpublished"}]
    BY <1>2 DEF PInv, TypeOK
  <2> QED
    BY <2>1, <2>2 DEF PInv, TypeOK, Labels
<1>6. Apart'
  <2>1. \A s \in Threads : tgt'[s] = NoTarget <=> pc'[s] = "idle"
    BY <1>1 DEF PInv, Apart
  <2>2. \A r, s \in Threads : Calling(r)' /\ Calling(s)' /\ tgt'[r] = tgt'[s] => r = s
    BY <1>1 DEF PInv, Apart, Calling
  <2>3. \A s \in Threads : Calling(s)' => answer'[tgt'[s]] = "nothing"
    BY <1>1, <1>3, <1>4 DEF PInv, Apart, Calling
  <2>4. \A s \in Threads : /\ pc'[s] \in {"mkdir", "mounting"} => tgt'[s] \in Inline
                           /\ pc'[s] = "bind" => tgt'[s] \notin Inline
    BY <1>1 DEF PInv, Apart
  <2> QED
    BY <2>1, <2>2, <2>3, <2>4 DEF Apart
<1>7. Staged'
  <2>1. \A s \in Threads : pc'[s] \in {"ensure", "bind"} /\ tgt'[s] \notin Inline
                             => told[VolumeOf[tgt'[s]]] = "staged"
    BY <1>1 DEF PInv, Staged
  <2> QED
    BY <2>1 DEF PInv, Staged
<1>8. Served'
  <2>1. PublishedServesShare' /\ UnpublishedIsClean'
    BY <1>2, <1>3 DEF PInv, Served, PublishedServesShare, UnpublishedIsClean, Content
  <2>2. /\ \A s \in Threads : pc'[s] \in {"readDir", "published"} => stack'[tgt'[s]] # <<>>
        /\ \A s \in Threads : pc'[s] = "unpublished" => tgt'[s] \notin dirs'
    BY <1>1 DEF PInv, Served
  <2> QED
    BY <2>1, <2>2 DEF PInv, Served
<1> QED
  BY <1>5, <1>6, <1>7, <1>8 DEF PInv

LEMMA Returning ==
    ASSUME PInv, NEW t \in Threads, Return(t)
    PROVE  PInv'
<1> DEFINE ans == IF pc[t] = "failed" THEN "nothing" ELSE pc[t]
<1>1. /\ pc[t] \in Returns /\ Calling(t) /\ tgt[t] \in Targets
      /\ abandoned = {} /\ Served
  BY DEF Return, Returns, PInv, TypeOK, Apart, Calling, StatsSteps
<1>2. /\ pc' = [pc EXCEPT ![t] = "idle"] /\ tgt' = [tgt EXCEPT ![t] = NoTarget]
      /\ answer' = [answer EXCEPT ![tgt[t]] = ans]
      /\ locks' \subseteq locks /\ abandoned' = {}
      /\ UNCHANGED <<mounted, present, call, told, dirs, stack, late, cached>>
  BY <1>1 DEF Return, Goto, stagingVars, pathVars
<1>3. ans \in {"nothing", "published", "unpublished"}
  BY <1>1 DEF Returns
<1>4. ans = "published" => tgt[t] \in dirs /\ Content(tgt[t]) = "share"
  BY <1>1, SharesOnly DEF Served, Returns
<1>5. ans = "unpublished" => tgt[t] \notin dirs /\ stack[tgt[t]] = <<>>
  BY <1>1 DEF Served, Returns
<1> HIDE DEF ans
<1> QED
  BY <1>1, <1>2, <1>3, <1>4, <1>5, LeavePreserves, Zenon

\* Statistics change nothing but the cache, and no call depends on them.
LEMMA Measuring ==
    ASSUME PInv, NEW t \in Threads,
           \/ \E p \in Targets : NodeGetVolumeStats(t, p)
           \/ Statfs(t) \/ StatsDone(t)
    PROVE  PInv'
<1>1. PICK step \in {"idle"} \cup StatsSteps, p \in Targets \cup {NoTarget} :
         /\ pc' = [pc EXCEPT ![t] = step] /\ tgt' = [tgt EXCEPT ![t] = p]
         /\ p = NoTarget <=> step = "idle"
  <2>1. CASE \E p \in Targets : NodeGetVolumeStats(t, p)
    BY <2>1, PublishAssumption DEF NodeGetVolumeStats, Enter, Goto, StatsSteps
  <2>2. CASE Statfs(t)
    <3>1. tgt' = [tgt EXCEPT ![t] = tgt[t]] /\ tgt[t] \in Targets /\ tgt[t] # NoTarget
      BY <2>2, PublishAssumption DEF Statfs, PInv, TypeOK, Apart
    <3> QED
      BY <2>2, <3>1 DEF Statfs, Goto, StatsSteps
  <2>3. CASE StatsDone(t)
    BY <2>3 DEF StatsDone, Goto
  <2> QED
    BY <2>1, <2>2, <2>3
<1>2. /\ pc[t] \in {"idle"} \cup StatsSteps
      /\ UNCHANGED <<mounted, present, call, told, dirs, stack, locks, late, abandoned, answer>>
  BY DEF NodeGetVolumeStats, Enter, Statfs, StatsDone, StatsSteps, stagingVars, pathVars
<1>3. /\ pc'[t] = step /\ tgt'[t] = p
      /\ \A s \in Threads \ {t} : pc'[s] = pc[s] /\ tgt'[s] = tgt[s]
  BY <1>1 DEF PInv, TypeOK
<1>4. cached' \subseteq Volumes \cup Inline
  <2>1. CASE StatsDone(t)
    <3>1. tgt[t] \in Targets /\ cached \subseteq Volumes \cup Inline
      BY <2>1 DEF StatsDone, StatsSteps, PInv, TypeOK, Apart
    <3>2. VolumeId(tgt[t]) \in Volumes \cup Inline
      BY <3>1, PublishAssumption DEF VolumeId
    <3> QED
      BY <2>1, <3>1, <3>2 DEF StatsDone
  <2>2. CASE cached' = cached
    BY <2>2 DEF PInv, TypeOK
  <2> QED
    BY <2>1, <2>2 DEF NodeGetVolumeStats, Enter, Statfs
<1>5. TypeOK'
  <2>1. pc' \in [Threads -> Labels] /\ tgt' \in [Threads -> Targets \cup {NoTarget}]
    BY <1>1 DEF PInv, TypeOK, Labels
  <2> QED
    BY <1>2, <1>4, <2>1 DEF PInv, TypeOK, Labels
<1>6. \A s \in Threads : Calling(s)' => s # t /\ Calling(s) /\ tgt'[s] = tgt[s]
  BY <1>3 DEF Calling
<1>7. Apart'
  <2>1. \A s \in Threads : tgt'[s] = NoTarget <=> pc'[s] = "idle"
    BY <1>1, <1>3 DEF PInv, Apart
  <2>2. \A s \in Threads : /\ pc'[s] \in {"mkdir", "mounting"} => tgt'[s] \in Inline
                           /\ pc'[s] = "bind" => tgt'[s] \notin Inline
    BY <1>3 DEF PInv, Apart, StatsSteps
  <2>3. \A r, s \in Threads : Calling(r)' /\ Calling(s)' /\ tgt'[r] = tgt'[s] => r = s
    BY <1>6 DEF PInv, Apart
  <2>4. abandoned' = {} /\ \A s \in Threads : Calling(s)' => answer'[tgt'[s]] = "nothing"
    BY <1>2, <1>6 DEF PInv, Apart
  <2> QED
    BY <2>1, <2>2, <2>3, <2>4 DEF Apart
<1>8. Staged'
  <2>1. \A s \in Threads : pc'[s] \in {"ensure", "bind"} => pc[s] = pc'[s] /\ tgt'[s] = tgt[s]
    BY <1>3 DEF StatsSteps
  <2> QED
    BY <1>2, <2>1 DEF PInv, Staged
<1>9. Served'
  <2>1. \A s \in Threads : pc'[s] \in {"readDir", "published", "unpublished"} =>
                              pc[s] = pc'[s] /\ tgt'[s] = tgt[s]
    BY <1>3 DEF StatsSteps
  <2>2. PublishedServesShare' /\ UnpublishedIsClean'
    BY <1>2 DEF PInv, Served, PublishedServesShare, UnpublishedIsClean, Content
  <2> QED
    BY <1>2, <2>1, <2>2 DEF PInv, Served
<1> QED
  BY <1>5, <1>7, <1>8, <1>9 DEF PInv

-----------------------------------------------------------------------------
(* Staging and the environment.                                            *)

\* A staging call changes the variables of its own volume only.
LEMMA StagingTypes ==
    ASSUME TypeOK, NEW v \in Volumes,
           StagingSteps(v) \/ \E op \in {"stage", "unstage"} : StagingBegins(v, op)
    PROVE  /\ \A w \in Volumes \ {v} : mounted'[w] = mounted[w] /\ call'[w] = call[w] /\ told'[w] = told[w]
           /\ mounted' \in [Volumes -> BOOLEAN] /\ present' \in [Volumes -> BOOLEAN]
           /\ call' \in [Volumes -> {"none", "stage", "unstage"}]
           /\ told' \in [Volumes -> {"nothing", "staged", "unstaged"}]
<1> USE DEF TypeOK
<1>1. CASE \E op \in {"stage", "unstage"} : StagingBegins(v, op)
  BY <1>1 DEF StagingBegins, Staging!Begin
<1>2. CASE Staging!Work(v) \/ Staging!Fail(v)
  <2>1. PICK m \in BOOLEAN, p \in BOOLEAN :
           mounted' = [mounted EXCEPT ![v] = m] /\ present' = [present EXCEPT ![v] = p]
    BY <1>2 DEF Staging!Work, Staging!Fail, Staging!PathChanges
  <2>2. mounted' \in [Volumes -> BOOLEAN] /\ \A w \in Volumes \ {v} : mounted'[w] = mounted[w]
    BY <2>1
  <2>3. present' \in [Volumes -> BOOLEAN]
    BY <2>1
  <2>4. /\ \A w \in Volumes \ {v} : call'[w] = call[w] /\ told'[w] = told[w]
        /\ call' \in [Volumes -> {"none", "stage", "unstage"}]
        /\ told' \in [Volumes -> {"nothing", "staged", "unstaged"}]
    BY <1>2, ZenonT(30) DEF Staging!Work, Staging!Fail
  <2> QED
    BY <2>2, <2>3, <2>4
<1>3. CASE Staging!Succeed(v)
  <2>1. mounted' = mounted /\ present' = present
    BY <1>3 DEF Staging!Succeed
  <2>2. /\ \A w \in Volumes \ {v} : call'[w] = call[w] /\ told'[w] = told[w]
        /\ call' \in [Volumes -> {"none", "stage", "unstage"}]
        /\ told' \in [Volumes -> {"nothing", "staged", "unstaged"}]
    BY <1>3, ZenonT(30) DEF Staging!Succeed
  <2> QED
    BY <2>1, <2>2
<1> QED
  BY <1>1, <1>2, <1>3 DEF StagingSteps

\* A volume with a goroutine about to bind it is staged: no staging call is in progress
\* for it, and none begins.
LEMMA StagingPreserves ==
    ASSUME PInv, NEW v \in Volumes,
           StagingSteps(v) \/ \E op \in {"stage", "unstage"} : StagingBegins(v, op)
    PROVE  PInv'
<1>1. UNCHANGED <<dirs, stack, locks, pc, tgt, late, cached, abandoned, answer>>
  BY DEF StagingSteps, StagingBegins, pathVars
<1>2. /\ \A w \in Volumes \ {v} : mounted'[w] = mounted[w] /\ call'[w] = call[w] /\ told'[w] = told[w]
      /\ mounted' \in [Volumes -> BOOLEAN] /\ present' \in [Volumes -> BOOLEAN]
      /\ call' \in [Volumes -> {"none", "stage", "unstage"}]
      /\ told' \in [Volumes -> {"nothing", "staged", "unstaged"}]
  BY StagingTypes DEF PInv
<1>3. call'[v] # "none" => told'[v] = "nothing"
  <2>1. /\ call[v] # "none" => told[v] = "nothing"
        /\ call \in [Volumes -> {"none", "stage", "unstage"}]
        /\ told \in [Volumes -> {"nothing", "staged", "unstaged"}]
    BY DEF PInv, TypeOK, Staged
  <2>2. CASE Staging!Work(v)
    BY <2>1, <2>2 DEF Staging!Work
  <2>3. CASE Staging!Fail(v) \/ Staging!Succeed(v)
    BY <2>1, <2>3 DEF Staging!Fail, Staging!Succeed
  <2>4. CASE \E op \in {"stage", "unstage"} : StagingBegins(v, op)
    BY <2>1, <2>4 DEF StagingBegins, Staging!Begin
  <2> QED
    BY <2>2, <2>3, <2>4 DEF StagingSteps
<1>4. told'[v] = "staged" => mounted'[v]
  <2>1. CASE Staging!Work(v) \/ Staging!Fail(v) \/ \E op \in {"stage", "unstage"} : StagingBegins(v, op)
    BY <2>1 DEF PInv, TypeOK, StagingBegins, Staging!Begin, Staging!Work, Staging!Fail
  <2>2. CASE Staging!Succeed(v)
    BY <2>2 DEF PInv, TypeOK, Staging!Succeed
  <2> QED
    BY <2>1, <2>2 DEF StagingSteps
<1>5. ASSUME NEW t \in Threads, pc[t] \in {"ensure", "bind"}, tgt[t] \notin Inline
      PROVE  VolumeOf[tgt[t]] \in Volumes \ {v} /\ told[VolumeOf[tgt[t]]] = "staged"
  <2>1. tgt[t] \in Targets \ Inline /\ VolumeOf[tgt[t]] \in Volumes /\ abandoned = {}
    BY <1>5, PublishAssumption DEF PInv, TypeOK, Apart
  <2>2. told[VolumeOf[tgt[t]]] = "staged"
    BY <1>5 DEF PInv, Staged
  <2>3. CASE \E op \in {"stage", "unstage"} : StagingBegins(v, op)
    BY <1>5, <2>1, <2>2, <2>3 DEF StagingBegins, TargetsOf, CallsFor, StatsSteps
  <2>4. CASE StagingSteps(v)
    BY <2>1, <2>2, <2>4
    DEF StagingSteps, Staging!Work, Staging!Fail, Staging!Succeed, PInv, Staged
  <2> QED
    BY <2>1, <2>2, <2>3, <2>4
<1>6. Staged'
  <2>1. \A w \in Volumes : call'[w] # "none" => told'[w] = "nothing"
    BY <1>2, <1>3 DEF PInv, Staged
  <2>2. \A w \in Volumes : told'[w] = "staged" => mounted'[w]
    BY <1>2, <1>4 DEF PInv, Staged
  <2>3. ASSUME NEW t \in Threads, pc[t] \in {"ensure", "bind"}, tgt[t] \notin Inline
        PROVE  told'[VolumeOf[tgt[t]]] = "staged"
    BY <1>2, <1>5, <2>3
  <2> QED
    BY <1>1, <2>1, <2>2, <2>3 DEF Staged
<1>7. TypeOK'
  BY <1>1, <1>2 DEF PInv, TypeOK
<1>8. Apart' /\ Served'
  BY <1>1 DEF PInv, Apart, Calling, Served, PublishedServesShare, UnpublishedIsClean, Content
<1> QED
  BY <1>6, <1>7, <1>8 DEF PInv

\* The mount of an inline call that timed out finds a target in use, or none at all.
LEMMA LatePreserves ==
    ASSUME PInv, NEW p \in Inline, LateMount(p)
    PROVE  PInv'
<1>1. p \in Targets /\ Served /\ TypeOK
  BY PublishAssumption DEF PInv
<1>2. /\ UNCHANGED <<mounted, present, call, told, locks, pc, tgt, cached, abandoned, answer>>
      /\ late' \in [Inline -> Nat]
  BY <1>1 DEF LateMount, TypeOK, stagingVars
<1>3. /\ stack' \in [Targets -> Seq({"share"})] /\ dirs' = dirs
      /\ \A q \in Targets : stack'[q] = stack[q] \/ (stack'[q] # <<>> /\ q \in dirs)
  BY <1>1, PushShares DEF LateMount, pathVars, Served
<1>4. TypeOK'
  <2>1. stack' \in [Targets -> Seq({"share", "local"})]
    BY <1>3
  <2> QED
    BY <1>1, <1>2, <1>3, <2>1 DEF TypeOK
<1>5. Apart' /\ Staged'
  BY <1>2 DEF PInv, Apart, Calling, Staged
<1>6. Served'
  <2>1. \A q \in Targets : stack'[q] # <<>> => q \in dirs' /\ Content(q)' = "share"
    BY <1>1, <1>3, PopShare DEF Served, Content
  <2>2. PublishedServesShare'
    BY <1>1, <1>2, <1>3, <2>1, SharesOnly DEF Served, PublishedServesShare
  <2>3. UnpublishedIsClean'
    BY <1>1, <1>2, <1>3 DEF Served, UnpublishedIsClean
  <2>4. \A t \in Threads : pc[t] \in {"readDir", "published"} => tgt[t] \in Targets
    BY <1>1 DEF TypeOK, PInv, Apart
  <2>5. \A t \in Threads : pc[t] \in {"readDir", "published"} => stack'[tgt[t]] # <<>>
    BY <1>1, <1>3, <2>4 DEF Served
  <2>6. \A t \in Threads : pc'[t] = "unpublished" => tgt'[t] \notin dirs'
    BY <1>1, <1>2, <1>3 DEF Served
  <2> QED
    BY <1>2, <1>3, <2>1, <2>2, <2>3, <2>5, <2>6 DEF Served
<1> QED
  BY <1>4, <1>5, <1>6 DEF PInv

LEMMA ProcessPreserves ==
    ASSUME PInv, Restart \/ \E i \in Volumes \cup Inline : StatsExpire(i)
    PROVE  PInv'
<1>1. CASE Restart
  <2>1. TypeOK'
    BY <1>1 DEF PInv, TypeOK, Restart, Staging!Restart, pathVars
  <2>2. Apart' /\ Staged'
    BY <1>1 DEF PInv, Apart, Calling, Staged, Restart, Staging!Restart
  <2>3. Served'
    BY <1>1 DEF PInv, Served, Restart, pathVars, PublishedServesShare, UnpublishedIsClean, Content
  <2> QED
    BY <2>1, <2>2, <2>3 DEF PInv
<1>2. ASSUME NEW i \in Volumes \cup Inline, StatsExpire(i)
      PROVE  PInv'
  <2>1. /\ UNCHANGED <<mounted, present, call, told, dirs, stack, locks, pc, tgt, late,
                       abandoned, answer>>
        /\ cached' \subseteq Volumes \cup Inline
    BY <1>2 DEF StatsExpire, stagingVars, pathVars, PInv, TypeOK
  <2>2. TypeOK'
    BY <2>1 DEF PInv, TypeOK
  <2>3. Apart' /\ Staged'
    BY <2>1 DEF PInv, Apart, Calling, Staged
  <2>4. Served'
    BY <2>1 DEF PInv, Served, PublishedServesShare, UnpublishedIsClean, Content
  <2> QED
    BY <2>2, <2>3, <2>4 DEF PInv
<1> QED
  BY <1>1, <1>2

LEMMA PNext == PInv /\ ~Overlap /\ [Next]_vars => PInv'
<1> SUFFICES ASSUME PInv, ~Overlap, [Next]_vars
             PROVE  PInv'
  OBVIOUS
<1>1. CASE UNCHANGED vars
  <2>1. UNCHANGED <<mounted, present, call, told, dirs, stack, locks, pc, tgt, late, cached,
                    abandoned, answer>>
    BY <1>1 DEF vars, stagingVars
  <2>2. TypeOK'
    BY <2>1 DEF PInv, TypeOK
  <2>3. Apart' /\ Staged'
    BY <2>1 DEF PInv, Apart, Calling, Staged
  <2>4. Served'
    BY <2>1 DEF PInv, Served, PublishedServesShare, UnpublishedIsClean, Content
  <2> QED
    BY <2>2, <2>3, <2>4 DEF PInv
<1>2. ASSUME NEW t \in Threads, Step(t)
      PROVE  PInv'
  BY <1>2, CallSteps, Returning, Measuring DEF Step, CallStep
<1>3. CASE Next
  BY <1>2, <1>3, Enters, Measuring, LatePreserves, StagingPreserves, ProcessPreserves DEF Next
<1> QED
  BY <1>1, <1>3

\* The invariant holds as long as the orchestrator has one publish or unpublish call at a time
\* for a target in progress; statistics it may ask for at any time.
LEMMA PInvHolds ==
    ASSUME ~Overlap
    PROVE  Spec => []PInv
<1>1. PInv /\ [Next]_vars => PInv'
  BY PNext
<1> QED
  BY <1>1, PInit, PTL DEF Spec

\* Without overlapping calls for a target, one that NodePublishVolume reported as published
\* shows the share, for every number of pods, volumes and goroutines.
THEOREM PublishedShowsShare ==
    ASSUME ~Overlap
    PROVE  Spec => []PublishedServesShare
<1>1. PInv => PublishedServesShare
  BY DEF PInv, Served
<1> QED
  BY <1>1, PInvHolds, PTL

\* Without overlapping calls for a target, one that NodeUnpublishVolume reported as
\* unpublished has neither bind mount nor directory.
THEOREM UnpublishedStaysClean ==
    ASSUME ~Overlap
    PROVE  Spec => []UnpublishedIsClean
<1>1. PInv => UnpublishedIsClean
  BY DEF PInv, Served
<1> QED
  BY <1>1, PInvHolds, PTL

-----------------------------------------------------------------------------
(* What holds even if the orchestrator does not keep its calls apart.      *)

InlinePublish(t) == tgt[t] \in Inline /\ pc[t] \in PublishSteps \cup {"published"}

\* volumeLocks in NodePublishVolume of inline volumes: a call that may mount the share on an
\* inline target holds the key of the target, no two keys are for one target, and a key
\* belongs to a call for its target.
InlineLocks ==
    /\ \A t \in Threads : InlinePublish(t) => <<t, tgt[t]>> \in locks
    /\ \A k \in locks : tgt[k[1]] = k[2] /\ pc[k[1]] \in PublishSteps \cup {"published", "failed"}
    /\ \A k, l \in locks : k[2] = l[2] => k = l

TInv ==
    /\ TypeOK
    /\ \A t \in Threads : tgt[t] = NoTarget <=> pc[t] = "idle"
    /\ \A t \in Threads : pc[t] \in {"mkdir", "mounting"} => tgt[t] \in Inline
    /\ InlineLocks

\* A call goes on: what the steps of publish, unpublish and statistics calls have in common.
LEMMA TMove ==
    ASSUME TInv, NEW t \in Threads, NEW step \in Labels \ {"idle"}, pc[t] # "idle",
           pc' = [pc EXCEPT ![t] = step],
           step \in {"mkdir", "mounting"} => tgt[t] \in Inline,
           step \in PublishSteps \cup {"published"} => pc[t] \in PublishSteps,
           pc[t] \in PublishSteps \cup {"published", "failed"} =>
              step \in PublishSteps \cup {"published", "failed"},
           dirs' \subseteq Targets, stack' \in [Targets -> Seq({"share", "local"})],
           late' \in [Inline -> Nat],
           UNCHANGED <<mounted, present, call, told, locks, tgt, cached, abandoned, answer>>
    PROVE  TInv'
<1>1. pc'[t] = step /\ \A s \in Threads \ {t} : pc'[s] = pc[s]
  BY DEF TInv, TypeOK
<1>2. TypeOK'
  BY DEF TInv, TypeOK, Labels
<1>3. InlineLocks'
  <2>1. locks' = locks /\ tgt' = tgt /\ locks \subseteq Threads \X Inline
    BY DEF TInv, TypeOK
  <2>2. \A s \in Threads : InlinePublish(s)' => <<s, tgt'[s]>> \in locks'
    <3>1. \A s \in Threads : InlinePublish(s)' => InlinePublish(s)
      BY <1>1, <2>1 DEF InlinePublish
    <3> QED
      BY <2>1, <3>1 DEF TInv, InlineLocks
  <2>3. \A k \in locks' : tgt'[k[1]] = k[2] /\ pc'[k[1]] \in PublishSteps \cup {"published", "failed"}
    <3>1. \A k \in locks : /\ k[1] \in Threads /\ tgt[k[1]] = k[2]
                           /\ pc[k[1]] \in PublishSteps \cup {"published", "failed"}
      BY <2>1 DEF TInv, InlineLocks
    <3> QED
      BY <1>1, <2>1, <3>1
  <2> QED
    BY <2>1, <2>2, <2>3 DEF TInv, InlineLocks
<1> QED
  BY <1>1, <1>2, <1>3 DEF TInv

LEMMA TCallSteps ==
    ASSUME TInv, NEW t \in Threads, CallStep(t) \/ Statfs(t)
    PROVE  TInv'
<1> DEFINE p == tgt[t]
<1> USE DEF Goto, stagingVars, pathVars
<1>1. /\ pc[t] # "idle" /\ UNCHANGED <<mounted, present, call, told, locks, tgt, cached, abandoned, answer>>
      /\ \E step \in Labels \ {"idle"} :
            /\ pc' = [pc EXCEPT ![t] = step]
            /\ step \in {"mkdir", "mounting"} => p \in Inline
            /\ step \in PublishSteps \cup {"published"} => pc[t] \in PublishSteps
            /\ pc[t] \in PublishSteps \cup {"published", "failed"} =>
                  step \in PublishSteps \cup {"published", "failed"}
  <2> USE DEF Labels, PublishSteps, UnpublishSteps, StatsSteps, Returns
  <2>1. CASE Fails(t) \/ Mkdir(t) \/ AlreadyMounted(t) \/ NotMounted(t) \/ ReadDir(t)
    BY <2>1 DEF Fails, Mkdir, AlreadyMounted, NotMounted, ReadDir
  <2>2. CASE UnmountBad(t) \/ Bind(t) \/ BindFails(t) \/ MountDone(t) \/ MountTimeout(t)
    BY <2>2 DEF UnmountBad, Bind, BindFails, MountDone, MountTimeout
  <2>3. CASE PathGone(t) \/ PathExists(t) \/ NotMnt(t) \/ UnmountPath(t) \/ RemovePath(t)
    BY <2>3 DEF PathGone, PathExists, NotMnt, UnmountPath, RemovePath
  <2>4. CASE Statfs(t)
    BY <2>4 DEF Statfs
  <2> QED
    BY <2>1, <2>2, <2>3, <2>4 DEF CallStep
<1>2. /\ p \in Targets /\ dirs \subseteq Targets /\ stack \in [Targets -> Seq({"share", "local"})]
      /\ late \in [Inline -> Nat]
      /\ pc[t] \in {"mkdir", "mounting"} => p \in Inline
  BY <1>1 DEF TInv, TypeOK
<1> HIDE DEF p
<1>3. dirs' \subseteq Targets /\ stack' \in [Targets -> Seq({"share", "local"})]
  <2>1. ASSUME NEW fs \in {"share", "local"}, Push(p, fs)
        PROVE  dirs' \subseteq Targets /\ stack' \in [Targets -> Seq({"share", "local"})]
    <3>1. <<fs>> \o stack[p] \in Seq({"share", "local"})
      BY <1>2, Pushed
    <3> QED
      BY <1>2, <2>1, <3>1 DEF Push
  <2>2. ASSUME Unmount(p)
        PROVE  dirs' \subseteq Targets /\ stack' \in [Targets -> Seq({"share", "local"})]
    <3>1. stack[p] # <<>> => Tail(stack[p]) \in Seq({"share", "local"})
      BY <1>2, Popped
    <3> QED
      BY <1>2, <2>2, <3>1 DEF Unmount
  <2>3. CASE Bind(t) \/ MountDone(t)
    BY <2>1, <2>3 DEF Bind, MountDone, p
  <2>4. CASE UnmountBad(t) \/ UnmountPath(t)
    BY <2>2, <2>4 DEF UnmountBad, UnmountPath, p
  <2>5. CASE Mkdir(t) \/ NotMounted(t) \/ BindFails(t) \/ RemovePath(t)
    BY <1>2, <2>5 DEF Mkdir, NotMounted, BindFails, RemovePath, p
  <2>6. CASE UNCHANGED <<dirs, stack>>
    BY <1>2, <2>6
  <2> QED
    BY <2>3, <2>4, <2>5, <2>6 DEF CallStep, Fails, AlreadyMounted, ReadDir, MountTimeout, PathGone,
       PathExists, NotMnt, Statfs
<1>4. late' \in [Inline -> Nat]
  <2>1. CASE MountTimeout(t)
    BY <1>2, <2>1 DEF MountTimeout, p
  <2>2. CASE late' = late
    BY <1>2, <2>2
  <2> QED
    BY <2>1, <2>2 DEF CallStep, Fails, Mkdir, AlreadyMounted, NotMounted, ReadDir, UnmountBad, Bind,
       BindFails, MountDone, PathGone, PathExists, NotMnt, UnmountPath, RemovePath, Statfs
<1> QED
  BY <1>1, <1>3, <1>4, TMove, Zenon DEF p

\* A call begins.
LEMMA TEnters ==
    ASSUME TInv, NEW t \in Threads, NEW p \in Targets,
           NodePublishVolume(t, p) \/ NodeUnpublishVolume(t, p) \/ NodeGetVolumeStats(t, p)
    PROVE  TInv'
<1>1. PICK step \in {"mkdir", "ensure", "cleanup", "statfs"} :
         /\ Enter(t, p, step)
         /\ step = "mkdir" => PublishInline(t, p)
         /\ step = "ensure" => p \notin Inline
         /\ step # "mkdir" => locks' = locks
         /\ UNCHANGED <<abandoned, answer>> \/ Supersede(p)
  BY DEF NodePublishVolume, PublishStaged, PublishInline, NodeUnpublishVolume, NodeGetVolumeStats
<1>2. /\ pc[t] = "idle" /\ pc' = [pc EXCEPT ![t] = step] /\ tgt' = [tgt EXCEPT ![t] = p]
      /\ UNCHANGED <<mounted, present, call, told, dirs, stack, late, cached>>
  BY <1>1 DEF Enter, Goto, stagingVars, pathVars
<1>3. /\ pc'[t] = step /\ tgt'[t] = p /\ p # NoTarget /\ tgt[t] = NoTarget
      /\ \A s \in Threads \ {t} : pc'[s] = pc[s] /\ tgt'[s] = tgt[s]
  BY <1>2, PublishAssumption DEF TInv, TypeOK
<1>4. step = "mkdir" => /\ p \in Inline /\ locks' = locks \cup {<<t, p>>}
                        /\ \A k \in locks : k[2] # p
  BY <1>1 DEF PublishInline
<1>5. TypeOK'
  <2>1. pc' \in [Threads -> Labels] /\ tgt' \in [Threads -> Targets \cup {NoTarget}]
    BY <1>2 DEF TInv, TypeOK, Labels, PublishSteps, UnpublishSteps, StatsSteps
  <2>2. locks' \subseteq Threads \X Inline
    BY <1>1, <1>4 DEF TInv, TypeOK
  <2>3. abandoned' \subseteq Threads /\ answer' \in [Targets -> {"nothing", "published", "unpublished"}]
    BY <1>1 DEF TInv, TypeOK, Supersede, CallsFor
  <2> QED
    BY <1>2, <2>1, <2>2, <2>3 DEF TInv, TypeOK, Labels
<1>6. InlineLocks'
  <2>1. \A k \in locks : /\ k[1] \in Threads \ {t} /\ k[2] \in Inline /\ tgt'[k[1]] = k[2]
                          /\ pc'[k[1]] \in PublishSteps \cup {"published", "failed"}
    <3>1. \A k \in locks : /\ k[1] \in Threads /\ k[2] \in Inline /\ tgt[k[1]] = k[2]
                           /\ pc[k[1]] \in PublishSteps \cup {"published", "failed"}
      <4>1. locks \subseteq Threads \X Inline
        BY DEF TInv, TypeOK
      <4>2. \A k \in locks : tgt[k[1]] = k[2] /\ pc[k[1]] \in PublishSteps \cup {"published", "failed"}
        BY DEF TInv, InlineLocks
      <4> QED
        BY <4>1, <4>2
    <3>2. \A k \in locks : k[1] # t
      BY <1>3, <3>1, PublishAssumption
    <3> QED
      BY <1>3, <3>1, <3>2
  <2>2. \A s \in Threads : InlinePublish(s)' => <<s, tgt'[s]>> \in locks'
    BY <1>1, <1>3, <1>4 DEF TInv, InlineLocks, InlinePublish, PublishSteps
  <2>3. \A k \in locks' : tgt'[k[1]] = k[2] /\ pc'[k[1]] \in PublishSteps \cup {"published", "failed"}
    <3>1. locks' = locks \/ (locks' = locks \cup {<<t, p>>} /\ step = "mkdir")
      BY <1>1, <1>4
    <3>2. CASE locks' = locks
      BY <2>1, <3>2
    <3>3. CASE locks' = locks \cup {<<t, p>>} /\ step = "mkdir"
      <4>1. tgt'[t] = p /\ pc'[t] \in PublishSteps
        BY <1>3, <3>3 DEF PublishSteps
      <4> QED
        BY <2>1, <3>3, <4>1
    <3> QED
      BY <3>1, <3>2, <3>3
  <2>4. \A k, l \in locks' : k[2] = l[2] => k = l
    <3>1. \A k, l \in locks : k[2] = l[2] => k = l
      BY DEF TInv, InlineLocks
    <3>2. CASE step = "mkdir"
      BY <1>4, <3>1, <3>2
    <3>3. CASE step # "mkdir"
      <4>1. UNCHANGED locks
        BY <1>1, <3>3
      <4> QED
        BY <3>1, <4>1
    <3> QED
      BY <3>2, <3>3
  <2> QED
    BY <2>2, <2>3, <2>4 DEF InlineLocks
<1> QED
  BY <1>1, <1>3, <1>4, <1>5, <1>6 DEF TInv

\* A call ends.
LEMMA TLeaves ==
    ASSUME TInv, NEW t \in Threads, Return(t) \/ StatsDone(t)
    PROVE  TInv'
<1>1. /\ pc[t] # "idle" /\ pc' = [pc EXCEPT ![t] = "idle"] /\ tgt' = [tgt EXCEPT ![t] = NoTarget]
      /\ UNCHANGED <<mounted, present, call, told, dirs, stack, late>>
  BY DEF Return, Returns, StatsDone, StatsSteps, Goto, stagingVars, pathVars
<1>2. /\ pc'[t] = "idle" /\ tgt'[t] = NoTarget /\ tgt[t] \in Targets
      /\ \A s \in Threads \ {t} : pc'[s] = pc[s] /\ tgt'[s] = tgt[s]
  BY <1>1 DEF TInv, TypeOK
<1>3. TypeOK'
  <2>1. pc' \in [Threads -> Labels] /\ tgt' \in [Threads -> Targets \cup {NoTarget}]
    BY <1>1 DEF TInv, TypeOK, Labels
  <2>2. locks' \subseteq Threads \X Inline /\ abandoned' \subseteq Threads
    BY DEF Return, StatsDone, TInv, TypeOK
  <2>3. answer' \in [Targets -> {"nothing", "published", "unpublished"}]
    <3>1. answer \in [Targets -> {"nothing", "published", "unpublished"}]
      BY DEF TInv, TypeOK
    <3>2. CASE Return(t)
      BY <3>1, <3>2 DEF Return, Returns
    <3>3. CASE StatsDone(t)
      BY <3>1, <3>3 DEF StatsDone
    <3> QED
      BY <3>2, <3>3
  <2>4. cached' \subseteq Volumes \cup Inline
    <3>1. cached \subseteq Volumes \cup Inline
      BY DEF TInv, TypeOK
    <3>2. VolumeId(tgt[t]) \in Volumes \cup Inline
      BY <1>2, PublishAssumption DEF VolumeId
    <3> QED
      BY <3>1, <3>2 DEF Return, StatsDone
  <2> QED
    BY <1>1, <2>1, <2>2, <2>3, <2>4 DEF TInv, TypeOK, Labels
<1>4. InlineLocks'
  <2>1. CASE Return(t)
    <3>1. locks' = {k \in locks : k[1] # t} /\ locks \subseteq Threads \X Inline
      BY <2>1 DEF Return, TInv, TypeOK
    <3>2. \A s \in Threads : InlinePublish(s)' => s # t /\ InlinePublish(s) /\ tgt'[s] = tgt[s]
      BY <1>2 DEF InlinePublish, PublishSteps
    <3>3. \A s \in Threads : InlinePublish(s)' => <<s, tgt'[s]>> \in locks'
      <4>1. \A s \in Threads : InlinePublish(s) => <<s, tgt[s]>> \in locks
        BY DEF TInv, InlineLocks
      <4> QED
        BY <3>1, <3>2, <4>1
    <3>4. \A k \in locks' : tgt'[k[1]] = k[2] /\ pc'[k[1]] \in PublishSteps \cup {"published", "failed"}
      <4>1. \A k \in locks : tgt[k[1]] = k[2] /\ pc[k[1]] \in PublishSteps \cup {"published", "failed"}
        BY DEF TInv, InlineLocks
      <4>2. \A k \in locks' : k \in locks /\ k[1] \in Threads \ {t}
        BY <3>1
      <4> QED
        BY <1>2, <4>1, <4>2
    <3>5. \A k, l \in locks' : k[2] = l[2] => k = l
      BY <3>1 DEF TInv, InlineLocks
    <3> QED
      BY <3>3, <3>4, <3>5 DEF InlineLocks
  <2>2. CASE StatsDone(t)
    <3>1. locks' = locks /\ locks \subseteq Threads \X Inline /\ pc[t] \in StatsSteps
      BY <2>2 DEF StatsDone, TInv, TypeOK
    <3>2. \A s \in Threads : InlinePublish(s)' => s # t /\ InlinePublish(s) /\ tgt'[s] = tgt[s]
      BY <1>2 DEF InlinePublish, PublishSteps
    <3>3. \A k \in locks : k[1] # t
      BY <3>1 DEF TInv, InlineLocks, PublishSteps, StatsSteps
    <3>4. \A s \in Threads : InlinePublish(s)' => <<s, tgt'[s]>> \in locks'
      BY <3>1, <3>2 DEF TInv, InlineLocks
    <3>5. \A k \in locks : tgt[k[1]] = k[2] /\ pc[k[1]] \in PublishSteps \cup {"published", "failed"}
      BY DEF TInv, InlineLocks
    <3>6. \A k \in locks' : tgt'[k[1]] = k[2] /\ pc'[k[1]] \in PublishSteps \cup {"published", "failed"}
      BY <1>2, <3>1, <3>3, <3>5
    <3>7. \A k, l \in locks' : k[2] = l[2] => k = l
      BY <3>1 DEF TInv, InlineLocks
    <3> QED
      BY <3>4, <3>6, <3>7 DEF InlineLocks
  <2> QED
    BY <2>1, <2>2
<1> QED
  BY <1>2, <1>3, <1>4 DEF TInv

\* Staging, late mounts, the statistics cache and a restart.
LEMMA TAround ==
    ASSUME TInv
    PROVE  /\ \A v \in Volumes : StagingSteps(v) \/ (\E op \in {"stage", "unstage"} : StagingBegins(v, op)) => TInv'
           /\ \A p \in Inline : LateMount(p) => TInv'
           /\ \A i \in Volumes \cup Inline : StatsExpire(i) => TInv'
           /\ Restart => TInv'
           /\ UNCHANGED vars => TInv'
<1>1. ASSUME TypeOK', UNCHANGED <<locks, pc, tgt>>
      PROVE  TInv'
  BY <1>1 DEF TInv, InlineLocks, InlinePublish
<1>2. ASSUME NEW v \in Volumes,
             StagingSteps(v) \/ \E op \in {"stage", "unstage"} : StagingBegins(v, op)
      PROVE  TInv'
  <2>1. UNCHANGED <<dirs, stack, locks, pc, tgt, late, cached, abandoned, answer>>
    BY <1>2 DEF StagingSteps, StagingBegins, pathVars
  <2>2. /\ mounted' \in [Volumes -> BOOLEAN] /\ present' \in [Volumes -> BOOLEAN]
        /\ call' \in [Volumes -> {"none", "stage", "unstage"}]
        /\ told' \in [Volumes -> {"nothing", "staged", "unstaged"}]
    BY <1>2, StagingTypes DEF TInv
  <2> QED
    BY <1>1, <2>1, <2>2 DEF TInv, TypeOK
<1>3. ASSUME NEW p \in Inline, LateMount(p) PROVE TInv'
  <2>1. /\ UNCHANGED <<mounted, present, call, told, locks, pc, tgt, cached, abandoned, answer, dirs>>
        /\ late' = [late EXCEPT ![p] = @ - 1] /\ late[p] > 0
        /\ stack' = stack \/ stack' = [stack EXCEPT ![p] = <<"share">> \o stack[p]]
    BY <1>3 DEF LateMount, Push, stagingVars, pathVars
  <2>2. p \in Targets /\ <<"share">> \o stack[p] \in Seq({"share", "local"})
    <3>1. p \in Targets /\ stack[p] \in Seq({"share", "local"})
      BY PublishAssumption DEF TInv, TypeOK
    <3> QED
      BY <3>1, Pushed
  <2>3. late' \in [Inline -> Nat]
    BY <2>1 DEF TInv, TypeOK
  <2>4. stack' \in [Targets -> Seq({"share", "local"})]
    BY <2>1, <2>2 DEF TInv, TypeOK
  <2> QED
    BY <1>1, <2>1, <2>3, <2>4 DEF TInv, TypeOK
<1>4. ASSUME NEW i \in Volumes \cup Inline, StatsExpire(i) PROVE TInv'
  BY <1>1, <1>4 DEF StatsExpire, stagingVars, pathVars, TInv, TypeOK
<1>5. ASSUME Restart PROVE TInv'
  <2>1. TypeOK'
    BY <1>5 DEF Restart, Staging!Restart, pathVars, TInv, TypeOK
  <2> QED
    BY <1>5, <2>1 DEF Restart, TInv, InlineLocks, InlinePublish, PublishSteps
<1>6. ASSUME UNCHANGED vars PROVE TInv'
  BY <1>1, <1>6 DEF vars, stagingVars, TInv, TypeOK
<1> QED
  BY <1>2, <1>3, <1>4, <1>5, <1>6

LEMMA TInvHolds == Spec => []TInv
<1>1. Init => TInv
  <2> SUFFICES ASSUME Init PROVE TInv
    OBVIOUS
  <2>1. TypeOK
    BY PInit DEF PInv
  <2> QED
    BY <2>1, PublishAssumption DEF Init, TInv, InlineLocks, InlinePublish, PublishSteps
<1>2. TInv /\ [Next]_vars => TInv'
  <2> SUFFICES ASSUME TInv, [Next]_vars PROVE TInv'
    OBVIOUS
  <2>1. ASSUME NEW t \in Threads, Step(t) PROVE TInv'
    BY <2>1, TCallSteps, TLeaves DEF Step, CallStep
  <2> QED
    BY <2>1, TEnters, TAround DEF Next
<1> QED
  BY <1>1, <1>2, PTL DEF Spec

\* Type correctness of NodePublishVolume, NodeUnpublishVolume and NodeGetVolumeStats, also when
\* their calls for a target overlap.
THEOREM TypeCorrect == Spec => []TypeOK
<1>1. TInv => TypeOK
  BY DEF TInv
<1> QED
  BY <1>1, TInvHolds, PTL

\* However the orchestrator's calls overlap, the lock of NodePublishVolume for inline volumes
\* keeps two calls that mount the share on one target apart, and no unpublish call releases it.
THEOREM InlineCallsApart == Spec => []InlineLocks
<1>1. TInv => InlineLocks
  BY DEF TInv
<1> QED
  BY <1>1, TInvHolds, PTL
=============================================================================
