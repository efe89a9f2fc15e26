-------------------------- MODULE StagingContract --------------------------
(***************************************************************************)
(* What NodeStageVolume and NodeUnstageVolume promise to whoever calls     *)
(* them, for each volume: one call at a time; an answer is true when it is *)
(* given; and it stays true until the next call for the volume, whatever   *)
(* happens to other volumes, to earlier calls that timed out and to the    *)
(* driver.  Between the start of a call and an answer nothing is promised. *)
(***************************************************************************)

CONSTANT Volumes

VARIABLES
    mounted,  \* does the staging path of the volume have a mount?
    present,  \* does the staging directory exist?
    call,     \* the call in progress for the volume
    told      \* the last answer, "nothing" once a later call has started

vars == <<mounted, present, call, told>>

Init ==
    /\ mounted = [v \in Volumes |-> FALSE]
    /\ present = [v \in Volumes |-> FALSE]
    /\ call = [v \in Volumes |-> "none"]
    /\ told = [v \in Volumes |-> "nothing"]

\* The staging path of v, and of no other volume, changes.  A mount needs a directory.
PathChanges(v) ==
    \E m, p \in BOOLEAN :
        /\ m => p
        /\ mounted' = [mounted EXCEPT ![v] = m]
        /\ present' = [present EXCEPT ![v] = p]

\* A call takes the lock of the volume, and the last answer is no longer binding.
Begin(v, op) ==
    /\ call[v] = "none"
    /\ call' = [call EXCEPT ![v] = op]
    /\ told' = [told EXCEPT ![v] = "nothing"]
    /\ UNCHANGED <<mounted, present>>

\* A call works on the staging path, or a mount command that outlived its call ends.
Work(v) ==
    /\ told[v] = "nothing"
    /\ UNCHANGED <<told, call>>
    /\ PathChanges(v)

\* A call that fails may leave anything behind.
Fail(v) ==
    /\ call[v] # "none"
    /\ told[v] = "nothing"
    /\ PathChanges(v)
    /\ call' = [call EXCEPT ![v] = "none"]
    /\ UNCHANGED told

\* A call succeeds, and what it says of the staging path is so.
Succeed(v) ==
    /\ \/ call[v] = "stage" /\ mounted[v] /\ told' = [told EXCEPT ![v] = "staged"]
       \/ call[v] = "unstage" /\ ~present[v] /\ told' = [told EXCEPT ![v] = "unstaged"]
    /\ call' = [call EXCEPT ![v] = "none"]
    /\ UNCHANGED <<mounted, present>>

\* The driver restarts: the calls are forgotten, the answers stay binding.
Restart ==
    /\ call' = [v \in Volumes |-> "none"]
    /\ UNCHANGED <<mounted, present, told>>

Next ==
    \/ \E v \in Volumes : Work(v)
    \/ \E v \in Volumes, op \in {"stage", "unstage"} : Begin(v, op)
    \/ \E v \in Volumes : Fail(v) \/ Succeed(v)
    \/ Restart

Spec == Init /\ [][Next]_vars
=============================================================================
