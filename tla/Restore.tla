------------------------------- MODULE Restore -------------------------------
(* The AerospikeRestore controller: a pass triggers a restore job at the     *)
(* backup service, writes the job's number into the status, polls the job    *)
(* until it has ended, and cancels it when the object is deleted.  Every     *)
(* write carries the resource version the pass has read, so an edit or a     *)
(* deletion in between makes it fail; calls to the service can fail after    *)
(* they took effect, the service can restart and forget its jobs, and the    *)
(* operator can restart anywhere.                                            *)
EXTENDS Naturals

CONSTANTS
    MaxJobs,        \* bound: jobs the service ever starts
    MaxTouches,     \* bound: edits of metadata
    MaxChanges,     \* bound: changes of the service's configuration
    MaxLosses,      \* bound: calls whose answer is lost
    MaxRestarts,    \* bound: restarts of the operator
    MaxOutages,     \* bound: restarts of the backup service
    MayVanish       \* whether the AerospikeBackupService may be deleted

ASSUME BoundsAssumption ==
    /\ {MaxJobs, MaxTouches, MaxChanges, MaxLosses, MaxRestarts, MaxOutages} \subseteq Nat
    /\ MaxJobs >= 1 + MaxTouches + MaxLosses + MaxRestarts  \* never what stops a trigger
    /\ MayVanish \in BOOLEAN

VARIABLES
    cr,         \* the AerospikeRestore in the API server
    jobs,       \* the state of each job; "none" when the service does not know it
    service,    \* whether the backup service answers
    rejects,    \* whether the service refuses the request as a bad one
    pass,       \* the pass in progress: where it is, the object it read and
                \* whether that is stale, the last answer of the service
    queued,     \* a pass is due
    used,       \* how much of each bound is used
    ended,      \* history: how each job ended
    disturbed   \* history: a job was started whose number cannot reach the status

vars == <<cr, jobs, service, rejects, pass, queued, used, ended, disturbed>>

Phases == {"none", "InProgress", "Completed", "Failed"}
JobStates == {"none", "running", "success", "failure", "canceled"}
Job == 1..MaxJobs

Types == {"Full", "Incremental", "Timestamp"}
Object == [exists : BOOLEAN, deleting : BOOLEAN, finalizer : BOOLEAN, phase : Phases, jobID : 0..MaxJobs]
NewObject == [exists |-> TRUE, deleting |-> FALSE, finalizer |-> FALSE, phase |-> "none", jobID |-> 0]
Gone == [NewObject EXCEPT !.exists = FALSE]
Idle == [at |-> "idle", obj |-> Gone, stale |-> FALSE, job |-> 0, status |-> "none"]
Stages == {"idle", "start", "cancel", "unfinalize", "phase", "finalizer", "trigger", "saveJob", "reject",
           "check", "saveStatus"}

-----------------------------------------------------------------------------
(* The user, the service and the operator's fate *)

\* The fields a restore of a type must have, and may have.
ValidRequest(type, fields) == fields = (IF type = "Timestamp" THEN {"routine", "time"} ELSE {})

\* A routine or a time is refused for a full or incremental restore, and the
\* library checks the request against the service's configuration.
validateRestoreConfig(type, fields) ==
    /\ type \in {"Full", "Incremental"} => fields \cap {"routine", "time"} = {}
    /\ ~rejects /\ ValidRequest(type, fields)

\* Admission reads the service and its ConfigMap.
ValidateCreate(type, fields) == service # "gone" /\ validateRestoreConfig(type, fields)

Create ==
    /\ cr = Gone /\ ~used.created
    /\ \E type \in Types, fields \in SUBSET {"routine", "time"} : ValidateCreate(type, fields)
    /\ cr' = NewObject
    /\ queued' = TRUE
    /\ used' = [used EXCEPT !.created = TRUE]
    /\ UNCHANGED <<jobs, service, rejects, pass, ended, disturbed>>

\* The object changes under a pass that has read it.
Outdate(p) == [p EXCEPT !.stale = p.at # "idle"]

\* An edit of labels or annotations; ValidateUpdate keeps the spec immutable,
\* so no edit starts a pass.
ValidateUpdate ==
    /\ cr.exists /\ used.touches < MaxTouches
    /\ pass' = Outdate(pass)
    /\ used' = [used EXCEPT !.touches = @ + 1]
    /\ UNCHANGED <<cr, jobs, service, rejects, queued, ended, disturbed>>

\* kubectl delete: at once without a finalizer, else a mark and an event.
Delete ==
    /\ cr.exists /\ ~cr.deleting
    /\ cr' = IF cr.finalizer THEN [cr EXCEPT !.deleting = TRUE] ELSE Gone
    /\ pass' = Outdate(pass)
    /\ queued' = TRUE
    /\ UNCHANGED <<jobs, service, rejects, used, ended, disturbed>>

JobEnds ==
    \E j \in Job, s \in {"success", "failure"} :
        /\ jobs[j] = "running"
        /\ jobs' = [jobs EXCEPT ![j] = s]
        /\ ended' = [ended EXCEPT ![j] = s]
        /\ UNCHANGED <<cr, service, rejects, pass, queued, used, disturbed>>

\* The jobs go with the process that runs them.
ForgetJobs ==
    /\ jobs' = [j \in Job |-> "none"]
    /\ ended' = [j \in Job |-> IF jobs[j] = "running" THEN "failure" ELSE ended[j]]

\* The service restarts; it keeps its jobs in memory only.
ServiceStops ==
    /\ service = "up" /\ used.outages < MaxOutages
    /\ service' = "down"
    /\ ForgetJobs
    /\ used' = [used EXCEPT !.outages = @ + 1]
    /\ UNCHANGED <<cr, rejects, pass, queued, disturbed>>

ServiceStarts ==
    /\ service = "down"
    /\ service' = "up"
    /\ UNCHANGED <<cr, jobs, rejects, pass, queued, used, ended, disturbed>>

\* The user deletes the AerospikeBackupService.
ServiceVanishes ==
    /\ MayVanish /\ service = "up"
    /\ service' = "gone"
    /\ ForgetJobs
    /\ UNCHANGED <<cr, rejects, pass, queued, used, disturbed>>

\* The routine or the storage a restore names is taken out of the service's
\* configuration, or put back.
ConfigChanges ==
    /\ used.changes < MaxChanges
    /\ rejects' = ~rejects
    /\ used' = [used EXCEPT !.changes = @ + 1]
    /\ UNCHANGED <<cr, jobs, service, pass, queued, ended, disturbed>>

\* The operator restarts; its watch lists every object again.
Restart ==
    /\ used.restarts < MaxRestarts
    /\ pass' = Idle
    /\ queued' = cr.exists
    /\ used' = [used EXCEPT !.restarts = @ + 1]
    /\ disturbed' = (disturbed \/ pass.at = "saveJob")
    /\ UNCHANGED <<cr, jobs, service, rejects, ended>>

-----------------------------------------------------------------------------
(* The pass *)

\* An error: the pass ends and is retried.
Retry == /\ pass' = Idle
         /\ queued' = TRUE

\* The pass ends, with another one due or not.
Return(again) == /\ pass' = Idle
                 /\ queued' = (queued \/ again)

GoTo(stage) == /\ pass' = [pass EXCEPT !.at = stage]
               /\ UNCHANGED queued

\* A write of the object the pass has read, changed to obj.  The API server
\* refuses it when the object has changed since.
Write(obj, stage) ==
    IF pass.stale THEN Retry /\ UNCHANGED cr
    ELSE /\ cr' = obj
         /\ pass' = [pass EXCEPT !.at = stage, !.obj = obj]
         /\ UNCHANGED queued

\* A write that ends the pass.
WriteAndReturn(obj, again) ==
    IF pass.stale THEN Retry /\ UNCHANGED cr
    ELSE cr' = obj /\ Return(again)

Fetch ==
    /\ pass.at = "idle" /\ queued
    /\ queued' = FALSE
    /\ pass' = IF cr.exists THEN [Idle EXCEPT !.at = "start", !.obj = cr] ELSE Idle
    /\ UNCHANGED <<cr, jobs, service, rejects, used, ended, disturbed>>

\* Mutant: the job of a deleted object is left running.
ReconcileNoCancel ==
    /\ pass.at = "start"
    /\ IF pass.obj.deleting
       THEN IF pass.obj.finalizer THEN GoTo("unfinalize") ELSE Return(FALSE)
       ELSE IF pass.obj.phase = "Completed" THEN Return(FALSE) ELSE GoTo("phase")
    /\ UNCHANGED <<cr, jobs, service, rejects, used, ended, disturbed>>

\* Mutant: a completed object is worked on like any other.
ReconcileCompletedAgain ==
    /\ pass.at = "start"
    /\ IF pass.obj.deleting
       THEN IF pass.obj.finalizer THEN GoTo(IF pass.obj.jobID # 0 THEN "cancel" ELSE "unfinalize") ELSE Return(FALSE)
       ELSE GoTo("phase")
    /\ UNCHANGED <<cr, jobs, service, rejects, used, ended, disturbed>>

\* Deleted objects are cleaned up, completed ones left alone, and all others
\* are worked on.
Reconcile ==
    /\ pass.at = "start"
    /\ IF pass.obj.deleting
       THEN IF pass.obj.finalizer THEN GoTo(IF pass.obj.jobID # 0 THEN "cancel" ELSE "unfinalize") ELSE Return(FALSE)
       ELSE IF pass.obj.phase = "Completed" THEN Return(FALSE) ELSE GoTo("phase")
    /\ UNCHANGED <<cr, jobs, service, rejects, used, ended, disturbed>>

setStatusPhase ==
    /\ pass.at = "phase"
    /\ IF pass.obj.phase = "InProgress" THEN GoTo("finalizer") /\ UNCHANGED cr
       ELSE Write([pass.obj EXCEPT !.phase = "InProgress"], "finalizer")
    /\ UNCHANGED <<jobs, service, rejects, used, ended, disturbed>>

\* Then the job is triggered, or followed if the status has one.
addFinalizer ==
    /\ pass.at = "finalizer"
    /\ LET next == IF pass.obj.jobID = 0 THEN "trigger" ELSE "check" IN
         IF pass.obj.finalizer THEN GoTo(next) /\ UNCHANGED cr
         ELSE Write([pass.obj EXCEPT !.finalizer = TRUE], next)
    /\ UNCHANGED <<jobs, service, rejects, used, ended, disturbed>>

\* A job not started before.
FreshJob(j) == j = used.jobs + 1 /\ j <= MaxJobs

\* POST /restore/<type>: the job starts; the answer may be lost.
TriggerRestoreWithType ==
    /\ pass.at = "trigger" /\ service = "up" /\ ~rejects
    /\ \E j \in Job, delivered \in BOOLEAN :
         /\ FreshJob(j)
         /\ delivered \/ used.losses < MaxLosses
         /\ jobs' = [jobs EXCEPT ![j] = "running"]
         /\ used' = [used EXCEPT !.jobs = j, !.losses = IF delivered THEN @ ELSE @ + 1]
         /\ IF delivered THEN pass' = [pass EXCEPT !.at = "saveJob", !.job = j] /\ UNCHANGED queued
            ELSE Retry
         /\ disturbed' = (disturbed \/ ~delivered)
    /\ UNCHANGED <<cr, service, rejects, ended>>

\* 400: the restore fails.  No connection: the pass is retried.
TriggerRefused ==
    /\ pass.at = "trigger" /\ (service # "up" \/ rejects)
    /\ IF service = "up" THEN GoTo("reject") ELSE Retry
    /\ UNCHANGED <<cr, jobs, service, rejects, used, ended, disturbed>>

\* Failed is reported and the error is terminal: no retry.
reportBadRequest ==
    /\ pass.at = "reject"
    /\ WriteAndReturn([pass.obj EXCEPT !.phase = "Failed"], FALSE)
    /\ UNCHANGED <<jobs, service, rejects, used, ended, disturbed>>

\* The job's number is written; when that fails the number is lost.
saveJobID ==
    /\ pass.at = "saveJob"
    /\ WriteAndReturn([pass.obj EXCEPT !.jobID = pass.job], TRUE)
    /\ disturbed' = (disturbed \/ pass.stale)
    /\ UNCHANGED <<jobs, service, rejects, used, ended>>

\* GET /restore/status/<job>: no answer, an answer other than 200 (the job is
\* not known) or an answer lost make the pass fail.
CheckRestoreStatus ==
    /\ pass.at = "check"
    /\ IF service = "up" /\ jobs[pass.obj.jobID] # "none"
       THEN pass' = [pass EXCEPT !.at = "saveStatus", !.status = jobs[pass.obj.jobID]] /\ UNCHANGED queued
       ELSE Retry
    /\ UNCHANGED <<cr, jobs, service, rejects, used, ended, disturbed>>

statusToPhase(status) ==
    CASE status = "running" -> "InProgress"
      [] status = "success" -> "Completed"
      [] status \in {"failure", "canceled"} -> "Failed"

\* Mutant: a job that still runs is not polled again.
checkRestoreStatusOnce ==
    /\ pass.at = "saveStatus"
    /\ WriteAndReturn([pass.obj EXCEPT !.phase = statusToPhase(pass.status)], FALSE)
    /\ UNCHANGED <<jobs, service, rejects, used, ended, disturbed>>

\* A job that still runs is polled again.
checkRestoreStatus ==
    /\ pass.at = "saveStatus"
    /\ LET phase == statusToPhase(pass.status) IN
         WriteAndReturn([pass.obj EXCEPT !.phase = phase], phase = "InProgress")
    /\ UNCHANGED <<jobs, service, rejects, used, ended, disturbed>>

\* POST /restore/cancel/<job>, whatever becomes of the answer.
CancelRestoreJob(j) ==
    LET hit == service = "up" /\ jobs[j] = "running" IN
    /\ jobs' = IF hit THEN [jobs EXCEPT ![j] = "canceled"] ELSE jobs
    /\ ended' = IF hit THEN [ended EXCEPT ![j] = "failure"] ELSE ended

\* Mutant: a job that is not known is an error.
cancelRestoreJobStrict ==
    /\ pass.at = "cancel"
    /\ CancelRestoreJob(pass.obj.jobID)
    /\ IF service = "up" /\ jobs[pass.obj.jobID] # "none" THEN GoTo("unfinalize") ELSE Retry
    /\ UNCHANGED <<cr, service, rejects, used, disturbed>>

\* A job that is not known is as good as cancelled.  The answer may be lost
\* after the job is cancelled.
cancelRestoreJob ==
    /\ pass.at = "cancel"
    /\ \E delivered \in BOOLEAN :
         /\ delivered \/ (service = "up" /\ used.losses < MaxLosses)
         /\ CancelRestoreJob(pass.obj.jobID)
         /\ used' = [used EXCEPT !.losses = IF delivered THEN @ ELSE @ + 1]
         /\ IF service = "up" /\ delivered THEN GoTo("unfinalize") ELSE Retry
    /\ UNCHANGED <<cr, service, rejects, disturbed>>

\* Without its finalizer the deleted object goes.
cleanUpAndRemoveFinalizer ==
    /\ pass.at = "unfinalize"
    /\ WriteAndReturn(Gone, FALSE)
    /\ UNCHANGED <<jobs, service, rejects, used, ended, disturbed>>

-----------------------------------------------------------------------------
Init ==
    /\ cr = Gone
    /\ jobs = [j \in Job |-> "none"]
    /\ service = "up"
    /\ rejects = FALSE
    /\ pass = Idle
    /\ queued = FALSE
    /\ used = [created |-> FALSE, touches |-> 0, changes |-> 0, losses |-> 0, restarts |-> 0, outages |-> 0,
               jobs |-> 0]
    /\ ended = [j \in Job |-> "unknown"]
    /\ disturbed = FALSE

User == Create \/ ValidateUpdate \/ Delete \/ ConfigChanges \/ ServiceVanishes
Service == JobEnds \/ ServiceStops \/ ServiceStarts
Pass == \/ Fetch \/ Reconcile \/ setStatusPhase \/ addFinalizer
        \/ TriggerRestoreWithType \/ TriggerRefused \/ reportBadRequest \/ saveJobID
        \/ CheckRestoreStatus \/ checkRestoreStatus
        \/ cancelRestoreJob \/ cleanUpAndRemoveFinalizer

Next == User \/ Service \/ Restart \/ Pass

Spec == Init /\ [][Next]_vars

\* The work queue runs the passes that are due, the Deployment restarts the
\* service's pod and a job ends one day.
FairSpec == /\ Spec
            /\ WF_vars(Pass)
            /\ WF_vars(ServiceStarts)
            /\ WF_vars(JobEnds)

-----------------------------------------------------------------------------
(* Properties *)

PassType == [at : Stages, obj : Object, stale : BOOLEAN, job : 0..MaxJobs, status : JobStates]
UsedType == [created : BOOLEAN, touches : Nat, changes : Nat, losses : Nat, restarts : Nat, outages : Nat,
             jobs : 0..MaxJobs]

\* The variables have their types: the object of the API server, the jobs of
\* the service, and what a pass of SingleRestoreReconciler holds.
TypeOK ==
    /\ cr \in Object
    /\ jobs \in [Job -> JobStates]
    /\ service \in {"up", "down", "gone"}
    /\ rejects \in BOOLEAN
    /\ pass \in PassType
    /\ queued \in BOOLEAN
    /\ used \in UsedType
    /\ ended \in [Job -> {"unknown", "success", "failure"}]
    /\ disturbed \in BOOLEAN

\* A job runs only for an object that exists and is going to cancel it: its
\* number is in the status, or in the hands of a pass about to write it.  The
\* exception is a job whose number was lost (disturbed): the answer to its
\* trigger was lost, the operator restarted before the number was written, or
\* an edit or the deletion of the object made that write fail.  So a restore
\* restores once, and deleting it stops it.
NoStrayJob ==
    ~disturbed =>
        /\ used.jobs <= 1
        /\ \A j \in Job : jobs[j] = "running" =>
             /\ cr.exists /\ cr.finalizer
             /\ cr.jobID = j \/ (pass.at = "saveJob" /\ pass.job = j)

\* The phase the user sees.
UserPhase == IF cr.exists THEN cr.phase ELSE IF used.created THEN "gone" ELSE "none"

Contract == INSTANCE RestoreContract WITH
    phase <- UserPhase,
    job <- cr.jobID

\* The controller implements the contract of a restore.
ImplementsContract == Contract!Spec

AtRest == pass = Idle /\ ~queued

\* The job the status names is not one the service knows.
JobForgotten == cr.jobID # 0 /\ jobs[cr.jobID] = "none"

\* A restore ends: it is Completed, Failed or gone and no pass is due.  The
\* exceptions: the service forgot the job in a restart, and its status is
\* asked for ever; or the AerospikeBackupService was deleted.
Settles ==
    \/ <>[](AtRest /\ (cr.exists => ~cr.deleting /\ cr.phase \in {"Completed", "Failed"}))
    \/ <>[](JobForgotten /\ ~cr.deleting)
    \/ <>[](service = "gone")

\* A deleted restore goes, also when the service has forgotten its job, unless
\* the AerospikeBackupService is deleted while the status names a job.
DeletionCompletes == (cr.exists /\ cr.deleting) ~> (~cr.exists \/ (service = "gone" /\ cr.jobID # 0))
=============================================================================
