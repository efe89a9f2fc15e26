--------------------------- MODULE VolumeContract ---------------------------
(***************************************************************************)
(* What CreateVolume and DeleteVolume promise to the orchestrator, for     *)
(* each volume: one request at a time; an answer is true when it is given; *)
(* the subdirectory changes only while a request for the volume is in      *)
(* progress, or because a pod writes to it; a request to create it never   *)
(* takes it away, and one to delete it does what the policy says.  A       *)
(* request that fails may leave its work half done.                        *)
(***************************************************************************)

CONSTANTS
    Volumes,
    Existing,  \* volumes that exist, with data in them, from the start
    Provided,  \* volumes whose creation makes the subdirectory
    Filled,    \* volumes whose creation fills it with data
    Touched,   \* volumes whose deletion may touch the share
    Policy     \* what is to become of the volume: "delete", "retain" or "archive"

VARIABLES
    share,     \* the subdirectory of each volume
    archived,  \* its archived copy
    requests,  \* the requests in progress: pairs of "create" or "delete" and a volume
    known,     \* volumes of which the orchestrator has the id
    answer     \* the last answer, "nothing" once a later request has started

vars == <<share, archived, requests, known, answer>>

Init ==
    /\ share = [v \in Volumes |-> IF v \in Existing THEN "data" ELSE "none"]
    /\ archived = [v \in Volumes |-> "none"]
    /\ requests = {}
    /\ known = Existing
    /\ answer = [v \in Volumes |-> IF v \in Existing THEN "created" ELSE "nothing"]

\* A volume is created until its id is known, and deleted by its id.
Begin(v) ==
    /\ <<"create", v>> \notin requests /\ <<"delete", v>> \notin requests
    /\ requests' = requests \cup {<<IF v \in known THEN "delete" ELSE "create", v>>}
    /\ answer' = [answer EXCEPT ![v] = "nothing"]
    /\ UNCHANGED <<share, archived, known>>

\* A request to create the volume makes or fills the subdirectory.
Fill(v) ==
    /\ <<"create", v>> \in requests
    /\ \E c \in {"empty", "partial", "data"} : share' = [share EXCEPT ![v] = c]
    /\ UNCHANGED <<archived, requests, known, answer>>

\* A request to delete the volume removes the subdirectory, or part of it.
Remove(v) ==
    /\ <<"delete", v>> \in requests
    /\ v \in Touched /\ Policy[v] = "delete"
    /\ \E c \in {"none", "partial"} :
          /\ c = "partial" => share[v] = "data"
          /\ share' = [share EXCEPT ![v] = c]
    /\ UNCHANGED <<archived, requests, known, answer>>

\* A request to delete the volume renames the subdirectory, never over another one.
Archive(v) ==
    /\ <<"delete", v>> \in requests
    /\ v \in Touched /\ Policy[v] = "archive"
    /\ archived[v] = "none"
    /\ archived' = [archived EXCEPT ![v] = share[v]]
    /\ share' = [share EXCEPT ![v] = "none"]
    /\ UNCHANGED <<requests, known, answer>>

Fail(call, v) ==
    /\ <<call, v>> \in requests
    /\ requests' = requests \ {<<call, v>>}
    /\ UNCHANGED <<share, archived, known, answer>>

Created(v) ==
    /\ <<"create", v>> \in requests
    /\ requests' = requests \ {<<"create", v>>}
    /\ answer' = [answer EXCEPT ![v] = "created"]
    /\ v \in Provided => share[v] # "none"
    /\ v \in Filled => share[v] = "data"
    /\ UNCHANGED <<share, archived, known>>

Deleted(v) ==
    /\ <<"delete", v>> \in requests
    /\ requests' = requests \ {<<"delete", v>>}
    /\ answer' = [answer EXCEPT ![v] = "deleted"]
    /\ v \in Touched /\ Policy[v] # "retain" => share[v] = "none"
    /\ UNCHANGED <<share, archived, known>>

\* The orchestrator receives the id.
Learn(v) ==
    /\ answer[v] = "created"
    /\ known' = known \cup {v}
    /\ UNCHANGED <<share, archived, requests, answer>>

PodWrites(v) ==
    /\ v \in known
    /\ answer[v] = "created"
    /\ share[v] = "empty"
    /\ share' = [share EXCEPT ![v] = "data"]
    /\ UNCHANGED <<archived, requests, known, answer>>

\* The controller restarts: the requests are forgotten, the answers stay binding.
Restart ==
    /\ requests' = {}
    /\ UNCHANGED <<share, archived, known, answer>>

Next ==
    \/ \E v \in Volumes : Begin(v) \/ Created(v) \/ Deleted(v)
    \/ \E v \in Volumes, call \in {"create", "delete"} : Fail(call, v)
    \/ \E v \in Volumes : Fill(v) \/ Remove(v) \/ Archive(v)
    \/ \E v \in Volumes : Learn(v) \/ PodWrites(v)
    \/ Restart

Spec == Init /\ [][Next]_vars
=============================================================================
