--------------------------- MODULE RestoreContract ---------------------------
(* What an AerospikeRestore promises its user, whatever happens on the way:  *)
(* it follows at most one job of the backup service and never another one,   *)
(* it reports Completed only when that job has succeeded, Completed is final *)
(* and Failed is reported only for a job that failed or was cancelled, or    *)
(* when no job could be started.                                             *)
EXTENDS Naturals

CONSTANT MaxJobs

VARIABLES
    phase,    \* status.phase, "none" before the first, "gone" when the object is deleted
    job,      \* status.jobID, 0 for none
    ended     \* how each job the service ever ran has ended

cvars == <<phase, job, ended>>

Outcomes == {"unknown", "success", "failure"}

Init ==
    /\ phase = "none"
    /\ job = 0
    /\ ended = [j \in 1..MaxJobs |-> "unknown"]

\* Work is taken up; a failed restore is taken up again.
Start ==
    /\ phase \in {"none", "Failed"}
    /\ phase' = "InProgress"
    /\ UNCHANGED <<job, ended>>

\* The job to follow is chosen once.
Follow ==
    /\ phase = "InProgress" /\ job = 0
    /\ job' \in 1..MaxJobs
    /\ UNCHANGED <<phase, ended>>

\* Jobs of the service end, each once.
JobsEnd ==
    /\ ended' \in [1..MaxJobs -> Outcomes]
    /\ \A j \in 1..MaxJobs : ended[j] # "unknown" => ended'[j] = ended[j]
    /\ UNCHANGED <<phase, job>>

Complete ==
    /\ phase = "InProgress" /\ job # 0
    /\ ended[job] = "success"
    /\ phase' = "Completed"
    /\ UNCHANGED <<job, ended>>

Fail ==
    /\ phase = "InProgress"
    /\ job # 0 => ended[job] = "failure"
    /\ phase' = "Failed"
    /\ UNCHANGED <<job, ended>>

Delete ==
    /\ phase # "gone"
    /\ phase' = "gone"
    /\ job' = 0
    /\ UNCHANGED ended

Next == Start \/ Follow \/ JobsEnd \/ Complete \/ Fail \/ Delete

Spec == Init /\ [][Next]_cvars
=============================================================================
