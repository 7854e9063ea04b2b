--------------------------- MODULE Restore_proofs ---------------------------
(* For every number of edits, losses and restarts: the types of Restore, that *)
(* no job runs astray, and that the controller implements RestoreContract.    *)
EXTENDS Restore, TLAPS

\* Most steps are about sets and cases; those with arithmetic cite SMT.
USE ZenonT(30)

-----------------------------------------------------------------------------
(* The inductive invariant *)

\* A gone object has no status, and nothing happens before it is created.
ObjectInv ==
    /\ ~cr.exists => cr = Gone
    /\ ~used.created => cr = Gone /\ pass.at = "idle" /\ used.jobs = 0

\* What a pass has read stays true of the object where only passes write it:
\* the finalizer and the number of the job.  An object with a finalizer goes
\* only by a pass.
PassInv ==
    pass.at # "idle" =>
        /\ pass.obj.exists
        /\ ~pass.stale => cr = pass.obj
        /\ cr.exists => cr.finalizer = pass.obj.finalizer /\ cr.jobID = pass.obj.jobID
        /\ pass.obj.finalizer => cr.exists
        /\ pass.at = "phase" => pass.obj.phase # "Completed"
        /\ pass.at \in {"finalizer", "trigger", "saveJob", "reject", "check", "saveStatus"} =>
             pass.obj.phase = "InProgress"
        /\ pass.at \in {"trigger", "saveJob", "reject"} => pass.obj.jobID = 0
        /\ pass.at \in {"trigger", "saveJob"} => pass.obj.finalizer
        /\ pass.at \in {"check", "saveStatus", "cancel"} => pass.obj.jobID # 0
        /\ pass.at = "saveJob" => pass.job \in Job

\* What a state of a job says about its end.
Outcome(state, end) ==
    /\ state = "running" => end = "unknown"
    /\ state = "success" => end = "success"
    /\ state \in {"failure", "canceled"} => end = "failure"

\* The service reports of a job what became of it, and knows no job that was not started.
JobInv ==
    /\ \A j \in Job : Outcome(jobs[j], ended[j])
    /\ \A j \in Job : j > used.jobs => jobs[j] = "none" /\ ended[j] = "unknown"
    /\ pass.at = "saveStatus" =>
         /\ pass.status # "none"
         /\ pass.status = "success" => ended[pass.obj.jobID] = "success"
         /\ pass.status \in {"failure", "canceled"} => ended[pass.obj.jobID] = "failure"

\* The one job is recorded or about to be, and has stopped when the finalizer is removed.
StrayInv ==
    /\ NoStrayJob
    /\ ~disturbed =>
         /\ used.jobs = 1 /\ cr.exists => cr.jobID # 0 \/ pass.at = "saveJob"
         /\ pass.at = "unfinalize" => \A j \in Job : jobs[j] # "running"

IInv == TypeOK /\ ObjectInv /\ PassInv /\ JobInv /\ StrayInv

-----------------------------------------------------------------------------
\* The bounds are natural numbers.
LEMMA Bounds ==
    /\ MaxJobs \in Nat \ {0}
    /\ MaxTouches \in Nat /\ MaxChanges \in Nat /\ MaxLosses \in Nat /\ MaxRestarts \in Nat /\ MaxOutages \in Nat
  <1>1. MaxJobs \in Nat /\ MaxTouches \in Nat /\ MaxChanges \in Nat /\ MaxLosses \in Nat /\ MaxRestarts \in Nat
        /\ MaxOutages \in Nat
    BY BoundsAssumption DEF BoundsAssumption
  <1>2. MaxJobs >= 1 + MaxTouches + MaxLosses + MaxRestarts
    BY BoundsAssumption DEF BoundsAssumption
  <1> QED BY SMT, <1>1, <1>2

\* The object as created, the object that is gone and the pass that is over.
LEMMA Constants ==
    /\ NewObject \in Object /\ NewObject.exists /\ NewObject.jobID = 0 /\ NewObject.phase = "none"
    /\ Gone \in Object /\ ~Gone.exists /\ Gone.jobID = 0
    /\ Idle \in PassType /\ Idle.at = "idle" /\ Idle.obj = Gone
  <1>1. NewObject \in Object /\ NewObject.exists /\ NewObject.jobID = 0 /\ NewObject.phase = "none"
    BY SMT, Bounds DEF NewObject, Object, Phases
  <1>2. Gone \in Object /\ ~Gone.exists /\ Gone.jobID = 0
    BY <1>1 DEF Gone, Object
  <1>3. Idle \in PassType /\ Idle.at = "idle" /\ Idle.obj = Gone
    BY SMT, <1>2, Bounds DEF Idle, PassType, JobStates, Stages
  <1> QED BY <1>1, <1>2, <1>3

-----------------------------------------------------------------------------
(* What the parts of a step do *)

\* The fields of an AerospikeRestore.
LEMMA ObjectFields ==
    ASSUME NEW o \in Object
    PROVE  /\ o.exists \in BOOLEAN /\ o.deleting \in BOOLEAN /\ o.finalizer \in BOOLEAN
           /\ o.phase \in Phases /\ o.jobID \in 0..MaxJobs
  BY DEF Object

\* The fields of a pass.
LEMMA PassFields ==
    ASSUME TypeOK
    PROVE  /\ pass.at \in Stages /\ pass.obj \in Object /\ pass.stale \in BOOLEAN
           /\ pass.job \in 0..MaxJobs /\ pass.status \in JobStates
  BY DEF TypeOK, PassType

\* An object with one field changed.
LEMMA ChangedPhase ==
    ASSUME NEW o \in Object, NEW p \in Phases
    PROVE  LET n == [o EXCEPT !.phase = p] IN
           /\ n \in Object /\ n.exists = o.exists /\ n.deleting = o.deleting /\ n.finalizer = o.finalizer
           /\ n.phase = p /\ n.jobID = o.jobID
  BY DEF Object

\* A write of the finalizer leaves the other fields alone.
LEMMA ChangedFinalizer ==
    ASSUME NEW o \in Object, NEW b \in BOOLEAN
    PROVE  LET n == [o EXCEPT !.finalizer = b] IN
           /\ n \in Object /\ n.exists = o.exists /\ n.deleting = o.deleting /\ n.finalizer = b
           /\ n.phase = o.phase /\ n.jobID = o.jobID
  BY DEF Object

\* A deletion leaves the other fields alone.
LEMMA ChangedDeleting ==
    ASSUME NEW o \in Object, NEW b \in BOOLEAN
    PROVE  LET n == [o EXCEPT !.deleting = b] IN
           /\ n \in Object /\ n.exists = o.exists /\ n.deleting = b /\ n.finalizer = o.finalizer
           /\ n.phase = o.phase /\ n.jobID = o.jobID
  BY DEF Object

\* A write of the job leaves the other fields alone.
LEMMA ChangedJob ==
    ASSUME NEW o \in Object, NEW j \in 0..MaxJobs
    PROVE  LET n == [o EXCEPT !.jobID = j] IN
           /\ n \in Object /\ n.exists = o.exists /\ n.deleting = o.deleting /\ n.finalizer = o.finalizer
           /\ n.phase = o.phase /\ n.jobID = j
  BY DEF Object

\* A pass that goes on keeps what it has read.
LEMMA GoToEffect ==
    ASSUME TypeOK, NEW stage \in Stages, GoTo(stage)
    PROVE  /\ pass' \in PassType /\ queued' = queued /\ pass'.at = stage
           /\ pass'.obj = pass.obj /\ pass'.stale = pass.stale
           /\ pass'.job = pass.job /\ pass'.status = pass.status
  BY DEF TypeOK, PassType, GoTo

\* A write by another party makes the copy of the pass stale.
LEMMA OutdateEffect ==
    ASSUME TypeOK, pass' = Outdate(pass)
    PROVE  /\ pass' \in PassType /\ pass'.at = pass.at /\ pass'.stale = (pass.at # "idle")
           /\ pass'.obj = pass.obj /\ pass'.job = pass.job /\ pass'.status = pass.status
  BY DEF TypeOK, PassType, Outdate

\* A pass begins with the object as it is stored.
LEMMA FetchEffect ==
    ASSUME TypeOK
    PROVE  LET p == [Idle EXCEPT !.at = "start", !.obj = cr] IN
           p \in PassType /\ p.at = "start" /\ p.obj = cr /\ p.stale = FALSE
  <1>1. Idle \in PassType /\ Idle.stale = FALSE
    BY Constants DEF Idle
  <1> QED BY <1>1 DEF TypeOK, PassType, Stages

\* A write goes through with a copy that is current, and ends the pass otherwise.
LEMMA WriteEffect ==
    ASSUME TypeOK, NEW obj \in Object, NEW stage \in Stages, Write(obj, stage)
    PROVE  /\ pass' \in PassType /\ queued' \in BOOLEAN
           /\ \/ pass.stale /\ pass' = Idle /\ cr' = cr
              \/ /\ ~pass.stale /\ cr' = obj
                 /\ pass'.at = stage /\ pass'.obj = obj /\ pass'.stale = pass.stale
  BY Constants DEF TypeOK, PassType, Write, Retry

\* The same for the last write of a pass.
LEMMA WriteAndReturnEffect ==
    ASSUME TypeOK, NEW obj, NEW again \in BOOLEAN, WriteAndReturn(obj, again)
    PROVE  /\ pass' = Idle /\ queued' \in BOOLEAN
           /\ IF pass.stale THEN cr' = cr ELSE cr' = obj
  BY DEF TypeOK, WriteAndReturn, Return, Retry

-----------------------------------------------------------------------------
(* The invariant *)

\* The invariant holds before the object is created.
LEMMA InitInv == Init => IInv
  <1> SUFFICES ASSUME Init PROVE IInv
    OBVIOUS
  <1>1. TypeOK
    <2>1. used \in UsedType
      BY SMT, Bounds DEF Init, UsedType
    <2>2. jobs \in [Job -> JobStates] /\ ended \in [Job -> {"unknown", "success", "failure"}]
      BY DEF Init, JobStates
    <2>3. pass \in PassType /\ cr \in Object
      BY Constants DEF Init
    <2> QED BY <2>1, <2>2, <2>3 DEF Init, TypeOK
  <1>2. ObjectInv /\ PassInv
    BY Constants DEF Init, ObjectInv, PassInv
  <1>3. JobInv
    BY Constants DEF Init, JobInv, Outcome
  <1>4. StrayInv
    BY SMT, Constants DEF Init, StrayInv, NoStrayJob
  <1> QED BY <1>1, <1>2, <1>3, <1>4 DEF IInv

\* Create starts with an object without a status; there was none before it.
LEMMA CreateInv ==
    ASSUME IInv, Create
    PROVE  IInv'
  <1> USE DEF IInv
  <1>1. used' \in UsedType /\ used'.jobs = used.jobs /\ used'.created
    BY DEF TypeOK, UsedType, Create
  <1>2. TypeOK'
    BY <1>1, Constants DEF TypeOK, Create
  <1>3. ObjectInv'
    BY <1>1, Constants, PassFields DEF ObjectInv, PassInv, Create
  <1>4. PassInv'
    BY <1>1, Constants, ObjectFields, PassFields DEF ObjectInv, PassInv, Create
  <1>5. JobInv'
    BY <1>1, Bounds, Constants, PassFields, ObjectFields DEF TypeOK, JobInv, Outcome, Job, Create
  <1>6. StrayInv'
    BY SMT, <1>1, Bounds, Constants, PassFields, ObjectFields
    DEF TypeOK, ObjectInv, PassInv, JobInv, StrayInv, NoStrayJob, Outcome, Job, Create
  <1> QED BY <1>2, <1>3, <1>4, <1>5, <1>6

\* An edit makes what a pass has read stale.
LEMMA ValidateUpdateInv ==
    ASSUME IInv, ValidateUpdate
    PROVE  IInv'
  <1> USE DEF IInv
  <1>1. used' \in UsedType /\ used'.jobs = used.jobs /\ used'.created = used.created
    BY SMT DEF TypeOK, UsedType, ValidateUpdate
  <1>2. pass' \in PassType /\ pass'.at = pass.at /\ pass'.stale = (pass.at # "idle")
        /\ pass'.obj = pass.obj /\ pass'.job = pass.job /\ pass'.status = pass.status
    BY OutdateEffect DEF ValidateUpdate
  <1>3. TypeOK'
    BY <1>1, <1>2, Constants DEF TypeOK, ValidateUpdate
  <1>4. ObjectInv'
    BY <1>1, <1>2, Constants, PassFields DEF ObjectInv, PassInv, ValidateUpdate
  <1>5. PassInv'
    BY <1>1, <1>2, Constants, ObjectFields, PassFields DEF ObjectInv, PassInv, ValidateUpdate
  <1>6. JobInv'
    BY <1>1, <1>2, Bounds, Constants, PassFields, ObjectFields DEF TypeOK, JobInv, Outcome, Job, ValidateUpdate
  <1>7. StrayInv'
    BY SMT, <1>1, <1>2, Bounds, Constants, PassFields, ObjectFields
    DEF TypeOK, ObjectInv, PassInv, JobInv, StrayInv, NoStrayJob, Outcome, Job, ValidateUpdate
  <1> QED BY <1>3, <1>4, <1>5, <1>6, <1>7

\* A deletion does, too, and only an object without a finalizer goes at once.
LEMMA DeleteInv ==
    ASSUME IInv, Delete
    PROVE  IInv'
  <1> USE DEF IInv
  <1>1. pass' \in PassType /\ pass'.at = pass.at /\ pass'.stale = (pass.at # "idle")
        /\ pass'.obj = pass.obj /\ pass'.job = pass.job /\ pass'.status = pass.status
    BY OutdateEffect DEF Delete
  <1>2. cr.finalizer => cr' \in Object /\ cr'.exists = cr.exists /\ cr'.finalizer = cr.finalizer /\ cr'.jobID = cr.jobID
    BY ChangedDeleting DEF TypeOK, Delete
  <1>3. ~cr.finalizer => cr' = Gone
    BY DEF Delete
  <1>4. cr' \in Object
    BY <1>2, <1>3, Constants, ObjectFields DEF TypeOK
  <1>5. TypeOK'
    BY <1>1, <1>2, <1>3, <1>4, Constants DEF TypeOK, Delete
  <1>6. ObjectInv'
    BY <1>1, <1>2, <1>3, <1>4, Constants, PassFields DEF ObjectInv, PassInv, Delete
  <1>7. PassInv'
    BY <1>1, <1>2, <1>3, <1>4, Constants, ObjectFields, PassFields DEF ObjectInv, PassInv, Delete
  <1>8. JobInv'
    BY <1>1, <1>2, <1>3, <1>4, Bounds, Constants, PassFields, ObjectFields
    DEF TypeOK, JobInv, Outcome, Job, Delete
  <1>9. StrayInv'
    BY SMT, <1>1, <1>2, <1>3, <1>4, Bounds, Constants, PassFields, ObjectFields
    DEF TypeOK, ObjectInv, PassInv, JobInv, StrayInv, NoStrayJob, Outcome, Job, Delete
  <1> QED BY <1>5, <1>6, <1>7, <1>8, <1>9

\* A job that ends had not ended before.
LEMMA JobEndsInv ==
    ASSUME IInv, JobEnds
    PROVE  IInv'
  <1> USE DEF IInv
  <1>1. jobs' \in [Job -> JobStates] /\ ended' \in [Job -> {"unknown", "success", "failure"}]
    BY DEF TypeOK, JobStates, JobEnds
  <1>2. TypeOK'
    BY <1>1, Constants DEF TypeOK, JobEnds
  <1>3. ObjectInv'
    BY <1>1, Constants, PassFields DEF ObjectInv, PassInv, JobEnds
  <1>4. PassInv'
    BY <1>1, Constants, ObjectFields, PassFields DEF ObjectInv, PassInv, JobEnds
  <1>5. JobInv'
    BY SMT, <1>1, Bounds, Constants, PassFields, ObjectFields DEF TypeOK, JobInv, Outcome, Job, JobEnds
  <1>6. StrayInv'
    BY SMT, <1>1, Bounds, Constants, PassFields, ObjectFields
    DEF TypeOK, ObjectInv, PassInv, JobInv, StrayInv, NoStrayJob, Outcome, Job, JobEnds
  <1> QED BY <1>2, <1>3, <1>4, <1>5, <1>6

\* A service that stops takes its jobs with it; one that ran has failed.
LEMMA ServiceStopsInv ==
    ASSUME IInv, ServiceStops
    PROVE  IInv'
  <1> USE DEF IInv
  <1>1. used' \in UsedType /\ used'.jobs = used.jobs /\ used'.created = used.created
    BY SMT DEF TypeOK, UsedType, ServiceStops
  <1>2. jobs' \in [Job -> JobStates] /\ ended' \in [Job -> {"unknown", "success", "failure"}]
    BY DEF TypeOK, JobStates, ServiceStops, ForgetJobs
  <1>3. TypeOK'
    BY <1>1, <1>2, Constants DEF TypeOK, ServiceStops, ForgetJobs
  <1>4. ObjectInv'
    BY <1>1, <1>2, Constants, PassFields DEF ObjectInv, PassInv, ServiceStops, ForgetJobs
  <1>5. PassInv'
    BY <1>1, <1>2, Constants, ObjectFields, PassFields DEF ObjectInv, PassInv, ServiceStops, ForgetJobs
  <1>6. JobInv'
    <2>1. \A j \in Job : jobs'[j] = "none" /\ ended'[j] = (IF jobs[j] = "running" THEN "failure" ELSE ended[j])
      BY DEF ServiceStops, ForgetJobs
    <2>2. pass.at = "saveStatus" => pass.obj.jobID \in Job
      BY SMT, Bounds, PassFields, ObjectFields DEF PassInv, Job
    <2>3. \A j \in Job : ended[j] # "unknown" => ended'[j] = ended[j]
      BY <2>1 DEF JobInv, Outcome
    <2>4. pass' = pass /\ used'.jobs = used.jobs
      BY <1>1 DEF ServiceStops
    <2>5. \A j \in Job : j > used'.jobs => jobs'[j] = "none" /\ ended'[j] = "unknown"
      BY <2>1, <2>4 DEF JobInv
    <2>6. \A j \in Job : Outcome(jobs'[j], ended'[j])
      BY <2>1 DEF Outcome
    <2>7. pass.at = "saveStatus" /\ pass.status = "success" => ended'[pass.obj.jobID] = "success"
      BY <2>2, <2>3 DEF JobInv
    <2>8. pass.at = "saveStatus" /\ pass.status \in {"failure", "canceled"} => ended'[pass.obj.jobID] = "failure"
      BY <2>2, <2>3 DEF JobInv
    <2>9. pass.at = "saveStatus" => pass.status # "none"
      BY DEF JobInv
    <2> QED BY <2>4, <2>5, <2>6, <2>7, <2>8, <2>9 DEF JobInv
  <1>7. StrayInv'
    BY <1>1, <1>2, Bounds, Constants, PassFields, ObjectFields
    DEF TypeOK, ObjectInv, PassInv, JobInv, StrayInv, NoStrayJob, Outcome, Job, ServiceStops, ForgetJobs
  <1> QED BY <1>3, <1>4, <1>5, <1>6, <1>7

\* So does a service that is deleted.
LEMMA ServiceVanishesInv ==
    ASSUME IInv, ServiceVanishes
    PROVE  IInv'
  <1> USE DEF IInv
  <1>1. jobs' \in [Job -> JobStates] /\ ended' \in [Job -> {"unknown", "success", "failure"}]
    BY DEF TypeOK, JobStates, ServiceVanishes, ForgetJobs
  <1>2. TypeOK'
    BY <1>1, Constants DEF TypeOK, ServiceVanishes, ForgetJobs
  <1>3. ObjectInv'
    BY <1>1, Constants, PassFields DEF ObjectInv, PassInv, ServiceVanishes, ForgetJobs
  <1>4. PassInv'
    BY <1>1, Constants, ObjectFields, PassFields DEF ObjectInv, PassInv, ServiceVanishes, ForgetJobs
  <1>5. JobInv'
    <2>1. \A j \in Job : jobs'[j] = "none" /\ ended'[j] = (IF jobs[j] = "running" THEN "failure" ELSE ended[j])
      BY DEF ServiceVanishes, ForgetJobs
    <2>2. pass.at = "saveStatus" => pass.obj.jobID \in Job
      BY SMT, Bounds, PassFields, ObjectFields DEF PassInv, Job
    <2>3. \A j \in Job : ended[j] # "unknown" => ended'[j] = ended[j]
      BY <2>1 DEF JobInv, Outcome
    <2>4. pass' = pass /\ used'.jobs = used.jobs
      BY DEF ServiceVanishes
    <2>5. \A j \in Job : j > used'.jobs => jobs'[j] = "none" /\ ended'[j] = "unknown"
      BY <2>1, <2>4 DEF JobInv
    <2>6. \A j \in Job : Outcome(jobs'[j], ended'[j])
      BY <2>1 DEF Outcome
    <2>7. pass.at = "saveStatus" /\ pass.status = "success" => ended'[pass.obj.jobID] = "success"
      BY <2>2, <2>3 DEF JobInv
    <2>8. pass.at = "saveStatus" /\ pass.status \in {"failure", "canceled"} => ended'[pass.obj.jobID] = "failure"
      BY <2>2, <2>3 DEF JobInv
    <2>9. pass.at = "saveStatus" => pass.status # "none"
      BY DEF JobInv
    <2> QED BY <2>4, <2>5, <2>6, <2>7, <2>8, <2>9 DEF JobInv
  <1>6. StrayInv'
    BY <1>1, Bounds, Constants, PassFields, ObjectFields
    DEF TypeOK, ObjectInv, PassInv, JobInv, StrayInv, NoStrayJob, Outcome, Job, ServiceVanishes, ForgetJobs
  <1> QED BY <1>2, <1>3, <1>4, <1>5, <1>6

\* The service and its configuration are no part of the invariant.
LEMMA ServiceStartsInv ==
    ASSUME IInv, ServiceStarts
    PROVE  IInv'
  <1> USE DEF IInv
  <1>1. TypeOK'
    BY Constants DEF TypeOK, ServiceStarts
  <1>2. ObjectInv'
    BY Constants, PassFields DEF ObjectInv, PassInv, ServiceStarts
  <1>3. PassInv'
    BY Constants, ObjectFields, PassFields DEF ObjectInv, PassInv, ServiceStarts
  <1>4. JobInv'
    BY Bounds, Constants, PassFields, ObjectFields DEF TypeOK, JobInv, Outcome, Job, ServiceStarts
  <1>5. StrayInv'
    BY Bounds, Constants, PassFields, ObjectFields
    DEF TypeOK, ObjectInv, PassInv, JobInv, StrayInv, NoStrayJob, Outcome, Job, ServiceStarts
  <1> QED BY <1>1, <1>2, <1>3, <1>4, <1>5

\* Nor is a change of the configuration.
LEMMA ConfigChangesInv ==
    ASSUME IInv, ConfigChanges
    PROVE  IInv'
  <1> USE DEF IInv
  <1>1. used' \in UsedType /\ used'.jobs = used.jobs /\ used'.created = used.created
    BY SMT DEF TypeOK, UsedType, ConfigChanges
  <1>2. TypeOK'
    BY <1>1, Constants DEF TypeOK, ConfigChanges
  <1>3. ObjectInv'
    BY <1>1, Constants, PassFields DEF ObjectInv, PassInv, ConfigChanges
  <1>4. PassInv'
    BY <1>1, Constants, ObjectFields, PassFields DEF ObjectInv, PassInv, ConfigChanges
  <1>5. JobInv'
    BY <1>1, Bounds, Constants, PassFields, ObjectFields DEF TypeOK, JobInv, Outcome, Job, ConfigChanges
  <1>6. StrayInv'
    BY <1>1, Bounds, Constants, PassFields, ObjectFields
    DEF TypeOK, ObjectInv, PassInv, JobInv, StrayInv, NoStrayJob, Outcome, Job, ConfigChanges
  <1> QED BY <1>2, <1>3, <1>4, <1>5, <1>6

\* A restart takes the pass with it, and the number it held.
LEMMA RestartInv ==
    ASSUME IInv, Restart
    PROVE  IInv'
  <1> USE DEF IInv
  <1>1. used' \in UsedType /\ used'.jobs = used.jobs /\ used'.created = used.created
    BY SMT DEF TypeOK, UsedType, Restart
  <1>2. pass' \in PassType /\ pass'.at = "idle" /\ queued' \in BOOLEAN /\ disturbed' \in BOOLEAN
    BY Constants, ObjectFields DEF TypeOK, Restart
  <1>3. TypeOK'
    BY <1>1, <1>2, Constants DEF TypeOK, Restart
  <1>4. ObjectInv'
    BY <1>1, <1>2, Constants, PassFields DEF ObjectInv, PassInv, Restart
  <1>5. PassInv'
    BY <1>1, <1>2, Constants, ObjectFields, PassFields DEF ObjectInv, PassInv, Restart
  <1>6. JobInv'
    BY <1>1, <1>2, Bounds, Constants, PassFields, ObjectFields DEF TypeOK, JobInv, Outcome, Job, Restart
  <1>7. StrayInv'
    BY <1>1, <1>2, Bounds, Constants, PassFields, ObjectFields
    DEF TypeOK, ObjectInv, PassInv, JobInv, StrayInv, NoStrayJob, Outcome, Job, Restart
  <1> QED BY <1>3, <1>4, <1>5, <1>6, <1>7

\* A pass starts with the object as it is.
LEMMA FetchInv ==
    ASSUME IInv, Fetch
    PROVE  IInv'
  <1> USE DEF IInv
  <1>1. IF cr.exists THEN pass' \in PassType /\ pass'.at = "start" /\ pass'.obj = cr /\ ~pass'.stale ELSE pass' = Idle
    BY Constants, FetchEffect DEF TypeOK, Fetch
  <1>2. pass' \in PassType /\ pass'.at \in {"idle", "start"}
    BY <1>1, Constants, ObjectFields DEF TypeOK
  <1>3. TypeOK'
    BY <1>1, <1>2, Constants DEF TypeOK, Fetch
  <1>4. ObjectInv'
    BY <1>1, <1>2, Constants, PassFields DEF ObjectInv, PassInv, Fetch
  <1>5. PassInv'
    BY <1>1, <1>2, Constants, ObjectFields, PassFields DEF ObjectInv, PassInv, Fetch
  <1>6. JobInv'
    BY <1>1, <1>2, Bounds, Constants, PassFields, ObjectFields DEF TypeOK, JobInv, Outcome, Job, Fetch
  <1>7. StrayInv'
    BY SMTT(30), <1>1, <1>2, Bounds, Constants, PassFields, ObjectFields
    DEF TypeOK, ObjectInv, PassInv, JobInv, StrayInv, NoStrayJob, Outcome, Job, Fetch
  <1> QED BY <1>3, <1>4, <1>5, <1>6, <1>7

\* A deleted object is cleaned up after its job was cancelled, if it has one.
LEMMA ReconcileInv ==
    ASSUME IInv, Reconcile
    PROVE  IInv'
  <1> USE DEF IInv
  <1>1. queued' \in BOOLEAN /\ pass' \in PassType
        /\ \/ pass'.at = "idle"
           \/ /\ pass'.obj = pass.obj /\ pass'.stale = pass.stale
              /\ \/ pass'.at = "cancel" /\ pass.obj.jobID # 0
                 \/ pass'.at = "unfinalize" /\ pass.obj.jobID = 0 /\ pass.obj.finalizer
                 \/ pass'.at = "phase" /\ pass.obj.phase # "Completed"
    BY GoToEffect, Constants DEF TypeOK, Stages, Reconcile, Return
  <1>2. TypeOK'
    BY <1>1, Constants DEF TypeOK, Reconcile
  <1>3. ObjectInv'
    BY <1>1, Constants, PassFields DEF ObjectInv, PassInv, Reconcile
  <1>4. PassInv'
    BY <1>1, Constants, ObjectFields, PassFields DEF ObjectInv, PassInv, Reconcile
  <1>5. JobInv'
    BY <1>1, Bounds, Constants, PassFields, ObjectFields DEF TypeOK, JobInv, Outcome, Job, Reconcile
  <1>6. StrayInv'
    BY SMT, <1>1, Bounds, Constants, PassFields, ObjectFields
    DEF TypeOK, ObjectInv, PassInv, JobInv, StrayInv, NoStrayJob, Outcome, Job, Reconcile
  <1> QED BY <1>2, <1>3, <1>4, <1>5, <1>6

\* A status of the object is written as InProgress.
LEMMA setStatusPhaseInv ==
    ASSUME IInv, setStatusPhase
    PROVE  IInv'
  <1> USE DEF IInv
  <1>1. LET n == [pass.obj EXCEPT !.phase = "InProgress"] IN
        /\ n \in Object /\ n.exists = pass.obj.exists /\ n.finalizer = pass.obj.finalizer
        /\ n.phase = "InProgress" /\ n.jobID = pass.obj.jobID
    BY ChangedPhase, PassFields DEF Phases
  <1>2. queued' \in BOOLEAN /\ pass' \in PassType
        /\ \/ pass'.at = "idle" /\ cr' = cr
           \/ /\ pass'.at = "finalizer" /\ pass'.obj.phase = "InProgress" /\ pass'.stale = pass.stale
              /\ \/ pass'.obj = pass.obj /\ cr' = cr
                 \/ /\ ~pass.stale /\ cr' = pass'.obj /\ cr'.exists = pass.obj.exists
                    /\ cr'.finalizer = pass.obj.finalizer /\ cr'.jobID = pass.obj.jobID
    <2>1. CASE pass.obj.phase = "InProgress"
      BY <2>1, GoToEffect DEF TypeOK, setStatusPhase, Stages
    <2>2. CASE pass.obj.phase # "InProgress"
      <3>1. Write([pass.obj EXCEPT !.phase = "InProgress"], "finalizer")
        BY <2>2 DEF setStatusPhase
      <3> QED BY <3>1, <1>1, WriteEffect, Constants DEF Stages
    <2> QED BY <2>1, <2>2
  <1>3. cr' \in Object
    BY <1>2 DEF TypeOK, PassType, PassInv
  <1>4. TypeOK'
    BY <1>1, <1>2, <1>3, Constants DEF TypeOK, setStatusPhase
  <1>5. ObjectInv'
    BY <1>1, <1>2, <1>3, Constants, PassFields DEF ObjectInv, PassInv, setStatusPhase
  <1>6. PassInv'
    BY <1>1, <1>2, <1>3, Constants, ObjectFields, PassFields DEF ObjectInv, PassInv, setStatusPhase
  <1>7. JobInv'
    BY <1>1, <1>2, <1>3, Bounds, Constants, PassFields, ObjectFields
    DEF TypeOK, JobInv, Outcome, Job, setStatusPhase
  <1>8. StrayInv'
    BY SMT, <1>1, <1>2, <1>3, Bounds, Constants, PassFields, ObjectFields
    DEF TypeOK, ObjectInv, PassInv, JobInv, StrayInv, NoStrayJob, Outcome, Job, setStatusPhase
  <1> QED BY <1>4, <1>5, <1>6, <1>7, <1>8

\* The finalizer is in place before a job is triggered.
LEMMA addFinalizerInv ==
    ASSUME IInv, addFinalizer
    PROVE  IInv'
  <1> USE DEF IInv
  <1>1. LET n == [pass.obj EXCEPT !.finalizer = TRUE] IN
        /\ n \in Object /\ n.exists = pass.obj.exists /\ n.finalizer
        /\ n.phase = pass.obj.phase /\ n.jobID = pass.obj.jobID
    BY ChangedFinalizer, PassFields
  <1>2. queued' \in BOOLEAN /\ pass' \in PassType
        /\ \/ pass'.at = "idle" /\ cr' = cr
           \/ /\ pass'.at = (IF pass.obj.jobID = 0 THEN "trigger" ELSE "check")
              /\ pass'.obj.finalizer /\ pass'.stale = pass.stale
              /\ \/ pass'.obj = pass.obj /\ cr' = cr
                 \/ /\ ~pass.stale /\ cr' = pass'.obj /\ cr'.exists = pass.obj.exists
                    /\ cr'.phase = pass.obj.phase /\ cr'.jobID = pass.obj.jobID
    <2>1. CASE pass.obj.finalizer
      BY <2>1, GoToEffect DEF TypeOK, addFinalizer, Stages
    <2>2. CASE ~pass.obj.finalizer
      <3>1. Write([pass.obj EXCEPT !.finalizer = TRUE], IF pass.obj.jobID = 0 THEN "trigger" ELSE "check")
        BY <2>2 DEF addFinalizer
      <3> QED BY <3>1, <1>1, WriteEffect, Constants DEF Stages
    <2> QED BY <2>1, <2>2
  <1>3. cr' \in Object
    BY <1>2 DEF TypeOK, PassType, PassInv
  <1>4. TypeOK'
    BY <1>1, <1>2, <1>3, Constants DEF TypeOK, addFinalizer
  <1>5. ObjectInv'
    BY <1>1, <1>2, <1>3, Constants, PassFields DEF ObjectInv, PassInv, addFinalizer
  <1>6. PassInv'
    BY SMT, <1>1, <1>2, <1>3, Constants, ObjectFields, PassFields DEF ObjectInv, PassInv, addFinalizer
  <1>7. JobInv'
    BY <1>1, <1>2, <1>3, Bounds, Constants, PassFields, ObjectFields
    DEF TypeOK, JobInv, Outcome, Job, addFinalizer
  <1>8. StrayInv'
    BY SMTT(30), <1>1, <1>2, <1>3, Bounds, Constants, PassFields, ObjectFields
    DEF TypeOK, ObjectInv, PassInv, JobInv, StrayInv, NoStrayJob, Outcome, Job, addFinalizer
  <1> QED BY <1>4, <1>5, <1>6, <1>7, <1>8

\* A triggered job is the first, or an earlier one is lost.
LEMMA TriggerRestoreWithTypeInv ==
    ASSUME IInv, TriggerRestoreWithType
    PROVE  IInv'
  <1> USE DEF IInv
  <1>1. PICK j \in Job, delivered \in BOOLEAN :
          /\ FreshJob(j)
          /\ jobs' = [jobs EXCEPT ![j] = "running"]
          /\ used' = [used EXCEPT !.jobs = j, !.losses = IF delivered THEN @ ELSE @ + 1]
          /\ IF delivered THEN pass' = [pass EXCEPT !.at = "saveJob", !.job = j] /\ UNCHANGED queued ELSE Retry
          /\ disturbed' = (disturbed \/ ~delivered)
    BY DEF TriggerRestoreWithType
  <1>2. used' \in UsedType /\ used'.jobs = j /\ used'.created = used.created
    <2>1. used \in UsedType /\ j \in 0..MaxJobs
      BY SMT, Bounds DEF TypeOK, Job
    <2>2. CASE delivered
      BY <1>1, <2>1, <2>2 DEF UsedType
    <2>3. CASE ~delivered
      <3> DEFINE n == used.losses + 1
      <3>1. n \in Nat
        BY SMT, <2>1 DEF UsedType
      <3>2. used' = [used EXCEPT !.jobs = j, !.losses = n]
        BY <1>1, <2>1, <2>3 DEF UsedType
      <3> HIDE DEF n
      <3> QED BY <3>1, <3>2, <2>1 DEF UsedType
    <2> QED BY <2>2, <2>3
  <1>3. jobs' \in [Job -> JobStates] /\ ended' \in [Job -> {"unknown", "success", "failure"}]
    BY <1>1 DEF TypeOK, JobStates, TriggerRestoreWithType
  <1>4. queued' \in BOOLEAN /\ pass' \in PassType /\ disturbed' \in BOOLEAN
        /\ IF delivered THEN pass'.at = "saveJob" /\ pass'.job = j /\ pass'.obj = pass.obj /\ pass'.stale = pass.stale
           ELSE pass'.at = "idle"
    <2>1. pass \in PassType /\ j \in 0..MaxJobs /\ queued \in BOOLEAN /\ disturbed \in BOOLEAN
      BY SMT, Bounds DEF TypeOK, Job
    <2>2. CASE delivered
      BY <1>1, <2>1, <2>2 DEF PassType, Stages
    <2>3. CASE ~delivered
      BY <1>1, <2>1, <2>3, Constants DEF Retry
    <2> QED BY <2>2, <2>3
  <1>5. pass.at = "trigger" /\ cr' = cr /\ j = used.jobs + 1 /\ j \in Nat /\ used.jobs \in Nat /\ ended' = ended
    BY SMT, <1>1, Bounds DEF TriggerRestoreWithType, FreshJob, Job, TypeOK, UsedType
  <1>6. TypeOK'
    BY <1>1, <1>2, <1>3, <1>4, <1>5, Constants DEF TypeOK, TriggerRestoreWithType
  <1>7. ObjectInv'
    BY <1>1, <1>2, <1>3, <1>4, <1>5, Constants, PassFields DEF ObjectInv, PassInv, TriggerRestoreWithType
  <1>8. PassInv'
    BY <1>1, <1>2, <1>3, <1>4, <1>5, Constants, ObjectFields, PassFields
    DEF ObjectInv, PassInv, TriggerRestoreWithType
  <1>9. JobInv'
    BY SMTT(30), <1>1, <1>2, <1>3, <1>4, <1>5, Bounds, Constants, PassFields, ObjectFields
    DEF TypeOK, JobInv, Outcome, Job, TriggerRestoreWithType
  <1>10. StrayInv'
    BY SMTT(30), <1>1, <1>2, <1>3, <1>4, <1>5, Bounds, Constants, PassFields, ObjectFields
    DEF TypeOK, ObjectInv, PassInv, JobInv, StrayInv, NoStrayJob, Outcome, Job, TriggerRestoreWithType
  <1> QED BY <1>6, <1>7, <1>8, <1>9, <1>10

\* A refused trigger leaves everything as it was.
LEMMA TriggerRefusedInv ==
    ASSUME IInv, TriggerRefused
    PROVE  IInv'
  <1> USE DEF IInv
  <1>1. queued' \in BOOLEAN /\ pass' \in PassType
        /\ \/ pass'.at = "idle"
           \/ pass'.at = "reject" /\ pass'.obj = pass.obj /\ pass'.stale = pass.stale
    BY GoToEffect, Constants DEF TypeOK, Stages, TriggerRefused, Retry
  <1>2. TypeOK'
    BY <1>1, Constants DEF TypeOK, TriggerRefused
  <1>3. ObjectInv'
    BY <1>1, Constants, PassFields DEF ObjectInv, PassInv, TriggerRefused
  <1>4. PassInv'
    BY <1>1, Constants, ObjectFields, PassFields DEF ObjectInv, PassInv, TriggerRefused
  <1>5. JobInv'
    BY <1>1, Bounds, Constants, PassFields, ObjectFields DEF TypeOK, JobInv, Outcome, Job, TriggerRefused
  <1>6. StrayInv'
    BY <1>1, Bounds, Constants, PassFields, ObjectFields
    DEF TypeOK, ObjectInv, PassInv, JobInv, StrayInv, NoStrayJob, Outcome, Job, TriggerRefused
  <1> QED BY <1>2, <1>3, <1>4, <1>5, <1>6

\* A refused restore is reported as failed.
LEMMA reportBadRequestInv ==
    ASSUME IInv, reportBadRequest
    PROVE  IInv'
  <1> USE DEF IInv
  <1>1. LET n == [pass.obj EXCEPT !.phase = "Failed"] IN
        /\ n \in Object /\ n.exists = pass.obj.exists /\ n.finalizer = pass.obj.finalizer
        /\ n.phase = "Failed" /\ n.jobID = pass.obj.jobID
    BY ChangedPhase, PassFields DEF Phases
  <1>2. pass' = Idle /\ queued' \in BOOLEAN
        /\ IF pass.stale THEN cr' = cr ELSE cr' = [pass.obj EXCEPT !.phase = "Failed"]
    BY WriteAndReturnEffect DEF reportBadRequest
  <1>3. cr' \in Object /\ cr'.exists = cr.exists /\ cr'.finalizer = cr.finalizer /\ cr'.jobID = cr.jobID
    BY <1>1, <1>2, PassFields DEF reportBadRequest, PassInv, TypeOK
  <1>4. cr' = cr \/ cr'.exists
    BY <1>1, <1>2, PassFields DEF reportBadRequest, PassInv
  <1>5. TypeOK'
    BY <1>1, <1>2, <1>3, <1>4, Constants DEF TypeOK, reportBadRequest
  <1>6. ObjectInv'
    BY <1>1, <1>2, <1>3, <1>4, Constants, PassFields DEF ObjectInv, PassInv, reportBadRequest
  <1>7. PassInv'
    BY <1>1, <1>2, <1>3, <1>4, Constants, ObjectFields, PassFields DEF ObjectInv, PassInv, reportBadRequest
  <1>8. JobInv'
    BY <1>1, <1>2, <1>3, <1>4, Bounds, Constants, PassFields, ObjectFields
    DEF TypeOK, JobInv, Outcome, Job, reportBadRequest
  <1>9. StrayInv'
    BY SMTT(30), <1>1, <1>2, <1>3, <1>4, Bounds, Constants, PassFields, ObjectFields
    DEF TypeOK, ObjectInv, PassInv, JobInv, StrayInv, NoStrayJob, Outcome, Job, reportBadRequest
  <1> QED BY <1>5, <1>6, <1>7, <1>8, <1>9

\* The number of a job reaches the status, or is lost.
LEMMA saveJobIDInv ==
    ASSUME IInv, saveJobID
    PROVE  IInv'
  <1> USE DEF IInv
  <1>1. LET n == [pass.obj EXCEPT !.jobID = pass.job] IN
        /\ n \in Object /\ n.exists = pass.obj.exists /\ n.finalizer = pass.obj.finalizer /\ n.jobID = pass.job
    BY ChangedJob, PassFields
  <1>2. pass' = Idle /\ queued' \in BOOLEAN
        /\ IF pass.stale THEN cr' = cr ELSE cr' = [pass.obj EXCEPT !.jobID = pass.job]
    BY WriteAndReturnEffect DEF saveJobID
  <1>3. IF pass.stale THEN cr' = cr
        ELSE cr.exists /\ cr.finalizer /\ cr' \in Object /\ cr'.exists /\ cr'.finalizer /\ cr'.jobID = pass.job
    BY <1>1, <1>2, PassFields DEF saveJobID, PassInv
  <1>4. cr' \in Object /\ disturbed' \in BOOLEAN
    BY <1>3, PassFields DEF TypeOK, saveJobID
  <1>5. TypeOK'
    BY <1>1, <1>2, <1>3, <1>4, Constants DEF TypeOK, saveJobID
  <1>6. ObjectInv'
    BY <1>1, <1>2, <1>3, <1>4, Constants, PassFields DEF ObjectInv, PassInv, saveJobID
  <1>7. PassInv'
    BY <1>1, <1>2, <1>3, <1>4, Constants, ObjectFields, PassFields DEF ObjectInv, PassInv, saveJobID
  <1>8. JobInv'
    BY SMTT(30), <1>1, <1>2, <1>3, <1>4, Bounds, Constants, PassFields, ObjectFields
    DEF TypeOK, JobInv, Outcome, Job, saveJobID
  <1>9. StrayInv'
    BY SMTT(30), <1>1, <1>2, <1>3, <1>4, Bounds, Constants, PassFields, ObjectFields
    DEF TypeOK, ObjectInv, PassInv, JobInv, StrayInv, NoStrayJob, Outcome, Job, saveJobID
  <1> QED BY <1>5, <1>6, <1>7, <1>8, <1>9

\* The answer is what the service knows of the job.
LEMMA CheckRestoreStatusInv ==
    ASSUME IInv, CheckRestoreStatus
    PROVE  IInv'
  <1> USE DEF IInv
  <1>1. queued' \in BOOLEAN /\ pass' \in PassType
        /\ \/ pass'.at = "idle"
           \/ /\ pass'.at = "saveStatus" /\ pass'.obj = pass.obj /\ pass'.stale = pass.stale
              /\ pass'.status = jobs[pass.obj.jobID] /\ pass'.status # "none"
    <2>1. pass.obj.jobID \in Job
      BY SMT, PassFields, ObjectFields, Bounds DEF CheckRestoreStatus, PassInv, Job
    <2>2. jobs[pass.obj.jobID] \in JobStates
      BY <2>1 DEF TypeOK
    <2> QED BY <2>2, Constants
        DEF TypeOK, PassType, Stages, CheckRestoreStatus, Retry
  <1>2. TypeOK'
    BY <1>1, Constants DEF TypeOK, CheckRestoreStatus
  <1>3. ObjectInv'
    BY <1>1, Constants, PassFields DEF ObjectInv, PassInv, CheckRestoreStatus
  <1>4. PassInv'
    BY <1>1, Constants, ObjectFields, PassFields DEF ObjectInv, PassInv, CheckRestoreStatus
  <1>5. JobInv'
    <2>1. pass.obj.jobID \in Job
      BY SMT, PassFields, ObjectFields, Bounds DEF CheckRestoreStatus, PassInv, Job
    <2>2. Outcome(jobs[pass.obj.jobID], ended[pass.obj.jobID])
      BY <2>1 DEF JobInv
    <2> QED BY <1>1, <2>2 DEF JobInv, Outcome, CheckRestoreStatus
  <1>6. StrayInv'
    BY <1>1, Bounds, Constants, PassFields, ObjectFields
    DEF TypeOK, ObjectInv, PassInv, JobInv, StrayInv, NoStrayJob, Outcome, Job, CheckRestoreStatus
  <1> QED BY <1>2, <1>3, <1>4, <1>5, <1>6

\* The phase follows the answer.
LEMMA checkRestoreStatusInv ==
    ASSUME IInv, checkRestoreStatus
    PROVE  IInv'
  <1> USE DEF IInv
  <1>1. statusToPhase(pass.status) \in Phases
    BY PassFields DEF checkRestoreStatus, JobInv, statusToPhase, Phases, JobStates
  <1>2. LET n == [pass.obj EXCEPT !.phase = statusToPhase(pass.status)] IN
        n \in Object /\ n.exists = pass.obj.exists /\ n.finalizer = pass.obj.finalizer /\ n.jobID = pass.obj.jobID
    BY <1>1, ChangedPhase, PassFields
  <1>3. pass' = Idle /\ queued' \in BOOLEAN
        /\ IF pass.stale THEN cr' = cr ELSE cr' = [pass.obj EXCEPT !.phase = statusToPhase(pass.status)]
    BY WriteAndReturnEffect DEF checkRestoreStatus
  <1>4. cr' \in Object /\ cr'.exists = cr.exists /\ cr'.finalizer = cr.finalizer /\ cr'.jobID = cr.jobID
    BY <1>2, <1>3, PassFields DEF checkRestoreStatus, PassInv, TypeOK
  <1>5. cr' = cr \/ cr'.exists
    BY <1>2, <1>3, PassFields DEF checkRestoreStatus, PassInv
  <1>6. TypeOK'
    BY <1>1, <1>2, <1>3, <1>4, <1>5, Constants DEF TypeOK, checkRestoreStatus
  <1>7. ObjectInv'
    BY <1>1, <1>2, <1>3, <1>4, <1>5, Constants, PassFields DEF ObjectInv, PassInv, checkRestoreStatus
  <1>8. PassInv'
    BY <1>1, <1>2, <1>3, <1>4, <1>5, Constants, ObjectFields, PassFields
    DEF ObjectInv, PassInv, checkRestoreStatus
  <1>9. JobInv'
    BY <1>1, <1>2, <1>3, <1>4, <1>5, Bounds, Constants, PassFields, ObjectFields
    DEF TypeOK, JobInv, Outcome, Job, checkRestoreStatus
  <1>10. StrayInv'
    BY <1>1, <1>2, <1>3, <1>4, <1>5, Bounds, Constants, PassFields, ObjectFields
    DEF TypeOK, ObjectInv, PassInv, JobInv, StrayInv, NoStrayJob, Outcome, Job, checkRestoreStatus
  <1> QED BY <1>6, <1>7, <1>8, <1>9, <1>10

\* A job is cancelled before the finalizer is removed.
LEMMA cancelRestoreJobInv ==
    ASSUME IInv, cancelRestoreJob
    PROVE  IInv'
  <1> USE DEF IInv
  <1>1. queued' \in BOOLEAN /\ pass' \in PassType
    BY GoToEffect, Constants DEF TypeOK, Stages, Retry, cancelRestoreJob
  <1>2. used' \in UsedType /\ used'.jobs = used.jobs /\ used'.created = used.created
    <2>1. PICK delivered \in BOOLEAN : used' = [used EXCEPT !.losses = IF delivered THEN @ ELSE @ + 1]
      BY DEF cancelRestoreJob
    <2>2. CASE delivered
      BY <2>1, <2>2 DEF TypeOK, UsedType
    <2>3. CASE ~delivered
      BY SMT, <2>1, <2>3 DEF TypeOK, UsedType
    <2> QED BY <2>2, <2>3
  <1>3. \/ pass'.at = "idle"
        \/ pass'.at = "unfinalize" /\ service = "up" /\ pass'.obj = pass.obj /\ pass'.stale = pass.stale
    BY GoToEffect, Constants DEF Stages, Retry, cancelRestoreJob
  <1>4. /\ CancelRestoreJob(pass.obj.jobID) /\ pass.obj.jobID \in Job /\ pass.at = "cancel"
        /\ UNCHANGED <<cr, service, rejects, disturbed>>
    BY SMT, PassFields, ObjectFields, Bounds DEF cancelRestoreJob, PassInv, Job
  <1>5. jobs' \in [Job -> JobStates] /\ ended' \in [Job -> {"unknown", "success", "failure"}]
    BY <1>4 DEF TypeOK, JobStates, CancelRestoreJob
  <1>6. TypeOK'
    BY <1>1, <1>2, <1>3, <1>4, <1>5, Constants DEF TypeOK, cancelRestoreJob, CancelRestoreJob
  <1>7. ObjectInv'
    BY <1>1, <1>2, <1>3, <1>4, <1>5, Constants, PassFields
    DEF ObjectInv, PassInv, cancelRestoreJob, CancelRestoreJob
  <1>8. PassInv'
    BY <1>1, <1>2, <1>3, <1>4, <1>5, Constants, ObjectFields, PassFields
    DEF ObjectInv, PassInv, cancelRestoreJob, CancelRestoreJob
  <1>9. JobInv'
    BY SMTT(30), <1>1, <1>2, <1>3, <1>4, <1>5, Bounds, Constants, PassFields, ObjectFields
    DEF TypeOK, JobInv, Outcome, Job, cancelRestoreJob, CancelRestoreJob
  <1>10. StrayInv'
    BY SMTT(30), <1>1, <1>2, <1>3, <1>4, <1>5, Bounds, Constants, PassFields, ObjectFields
    DEF TypeOK, ObjectInv, PassInv, JobInv, StrayInv, NoStrayJob, Outcome, Job, cancelRestoreJob, CancelRestoreJob
  <1> QED BY <1>6, <1>7, <1>8, <1>9, <1>10

\* The object goes when no job is left.
LEMMA cleanUpAndRemoveFinalizerInv ==
    ASSUME IInv, cleanUpAndRemoveFinalizer
    PROVE  IInv'
  <1> USE DEF IInv
  <1>1. pass' = Idle /\ queued' \in BOOLEAN /\ (IF pass.stale THEN cr' = cr ELSE cr' = Gone)
    BY WriteAndReturnEffect DEF cleanUpAndRemoveFinalizer
  <1>2. cr' \in Object
    BY <1>1, Constants, PassFields DEF TypeOK
  <1>3. TypeOK'
    BY <1>1, <1>2, Constants DEF TypeOK, cleanUpAndRemoveFinalizer
  <1>4. ObjectInv'
    BY <1>1, <1>2, Constants, PassFields DEF ObjectInv, PassInv, cleanUpAndRemoveFinalizer
  <1>5. PassInv'
    BY <1>1, <1>2, Constants, ObjectFields, PassFields DEF ObjectInv, PassInv, cleanUpAndRemoveFinalizer
  <1>6. JobInv'
    BY <1>1, <1>2, Bounds, Constants, PassFields, ObjectFields
    DEF TypeOK, JobInv, Outcome, Job, cleanUpAndRemoveFinalizer
  <1>7. StrayInv'
    BY <1>1, <1>2, Bounds, Constants, PassFields, ObjectFields
    DEF TypeOK, ObjectInv, PassInv, JobInv, StrayInv, NoStrayJob, Outcome, Job, cleanUpAndRemoveFinalizer
  <1> QED BY <1>3, <1>4, <1>5, <1>6, <1>7

\* Every step keeps the invariant.
LEMMA NextInv == IInv /\ [Next]_vars => IInv'
  <1>1. ASSUME IInv, UNCHANGED vars PROVE IInv'
    BY SMT, <1>1 DEF vars, IInv, TypeOK, ObjectInv, PassInv, JobInv, StrayInv, NoStrayJob
  <1>2. ASSUME IInv, User \/ Service \/ Restart PROVE IInv'
    BY <1>2, CreateInv, ValidateUpdateInv, DeleteInv, ConfigChangesInv, ServiceVanishesInv, JobEndsInv,
       ServiceStopsInv, ServiceStartsInv, RestartInv DEF User, Service
  <1>3. ASSUME IInv, Pass PROVE IInv'
    BY <1>3, FetchInv, ReconcileInv, setStatusPhaseInv, addFinalizerInv, TriggerRestoreWithTypeInv,
       TriggerRefusedInv, reportBadRequestInv, saveJobIDInv, CheckRestoreStatusInv, checkRestoreStatusInv,
       cancelRestoreJobInv, cleanUpAndRemoveFinalizerInv DEF Pass
  <1> QED BY SMTT(30), <1>1, <1>2, <1>3 DEF Next

\* The invariant holds throughout.
LEMMA Invariance == Spec => []IInv
  BY InitInv, NextInv, PTL DEF Spec

-----------------------------------------------------------------------------
(* The theorems *)

\* The variables keep their types, whatever the bounds are: what a pass of the
\* restore controller reads and writes is an object with a status.
THEOREM TypeCorrect == Spec => []TypeOK
  <1>1. IInv => TypeOK
    BY DEF IInv
  <1> QED BY <1>1, Invariance, PTL

\* Unless its number was lost, a restore starts one job, and while that runs
\* the object exists with its finalizer and names it, or is about to: for any
\* number of edits, lost answers, restarts and outages.
THEOREM NoStray == Spec => []NoStrayJob
  <1>1. IInv => NoStrayJob
    BY DEF IInv, StrayInv
  <1> QED BY <1>1, Invariance, PTL

-----------------------------------------------------------------------------
(* The refinement: each step of the controller is a step of the contract or    *)
(* leaves what the user sees alone.                                            *)

Step == [Contract!Next]_(Contract!cvars)

\* A step that leaves the object and the ends of jobs alone.
LEMMA QuietStep ==
    ASSUME UNCHANGED <<cr, ended>>, used'.created = used.created
    PROVE  Step
  BY DEF Step, UserPhase, Contract!cvars

\* A write of an existing object: only its phase and its job can change.
LEMMA WriteSteps ==
    ASSUME IInv, pass.at # "idle", ended' = ended,
           \/ cr' = cr
           \/ /\ ~pass.stale /\ cr'.exists
              /\ \/ cr'.phase = cr.phase /\ cr'.jobID = cr.jobID
                 \/ cr'.phase = "InProgress" /\ cr.phase \in {"none", "Failed"} /\ cr'.jobID = cr.jobID
                 \/ cr'.phase = cr.phase /\ cr.phase = "InProgress" /\ cr.jobID = 0 /\ cr'.jobID \in Job
                 \/ /\ cr'.phase = "Completed" /\ cr.phase = "InProgress" /\ cr'.jobID = cr.jobID
                    /\ cr.jobID # 0 /\ ended[cr.jobID] = "success"
                 \/ /\ cr'.phase = "Failed" /\ cr.phase = "InProgress" /\ cr'.jobID = cr.jobID
                    /\ cr.jobID # 0 => ended[cr.jobID] = "failure",
           used'.created = used.created
    PROVE  Step
  <1>1. CASE cr' = cr
    BY <1>1, QuietStep
  <1>2. CASE ~pass.stale /\ cr'.exists /\ cr' # cr
    <2>1. cr.exists /\ UserPhase = cr.phase /\ UserPhase' = cr'.phase
      BY <1>2 DEF IInv, PassInv, UserPhase
    <2>2. CASE cr'.phase = cr.phase /\ cr'.jobID = cr.jobID
      BY <2>1, <2>2 DEF Step, Contract!cvars
    <2>3. CASE cr'.phase = "InProgress" /\ cr.phase \in {"none", "Failed"} /\ cr'.jobID = cr.jobID
      BY <2>1, <2>3 DEF Step, Contract!Next, Contract!Start
    <2>4. CASE cr'.phase = cr.phase /\ cr.phase = "InProgress" /\ cr.jobID = 0 /\ cr'.jobID \in Job
      BY <2>1, <2>4 DEF Step, Contract!Next, Contract!Follow, Job
    <2>5. CASE /\ cr'.phase = "Completed" /\ cr.phase = "InProgress" /\ cr'.jobID = cr.jobID
               /\ cr.jobID # 0 /\ ended[cr.jobID] = "success"
      BY <2>1, <2>5 DEF Step, Contract!Next, Contract!Complete
    <2>6. CASE /\ cr'.phase = "Failed" /\ cr.phase = "InProgress" /\ cr'.jobID = cr.jobID
               /\ cr.jobID # 0 => ended[cr.jobID] = "failure"
      BY <2>1, <2>6 DEF Step, Contract!Next, Contract!Fail
    <2> QED BY <1>2, <2>2, <2>3, <2>4, <2>5, <2>6
  <1> QED BY <1>1, <1>2

\* The object goes.
LEMMA GoneStep ==
    ASSUME IInv, cr.exists, cr' = Gone, ended' = ended, used'.created = used.created
    PROVE  Step
  <1>1. UserPhase = cr.phase /\ cr.phase # "gone"
    BY ObjectFields DEF IInv, TypeOK, UserPhase, Phases
  <1>2. UserPhase' = "gone" /\ cr'.jobID = 0
    BY Constants DEF IInv, ObjectInv, UserPhase
  <1> QED BY <1>1, <1>2 DEF Step, Contract!Next, Contract!Delete

\* Jobs end; one that has ended stays as it is.
LEMMA JobsEndStep ==
    ASSUME IInv, IInv', cr' = cr, used'.created = used.created,
           \A j \in Job : ended[j] # "unknown" => ended'[j] = ended[j]
    PROVE  Step
  <1>1. ended' \in [1..MaxJobs -> {"unknown", "success", "failure"}]
    BY DEF IInv, TypeOK, Job
  <1>2. UserPhase' = UserPhase /\ cr'.jobID = cr.jobID
    BY DEF UserPhase
  <1> QED BY <1>1, <1>2 DEF Step, Contract!Next, Contract!JobsEnd, Contract!Outcomes, Job

\* The user, the service and a restart take no step of the contract but those of the user.
LEMMA UserRefines ==
    ASSUME IInv, IInv', User \/ Service \/ Restart
    PROVE  Step
  <1>1. CASE Create
    <2>1. UserPhase = "none" /\ UserPhase' = "none" /\ cr.jobID = 0 /\ cr'.jobID = 0
      BY <1>1, Constants DEF Create, UserPhase
    <2> QED BY <1>1, <2>1 DEF Step, Contract!cvars, Create
  <1>2. CASE ValidateUpdate \/ ConfigChanges \/ ServiceStarts \/ Restart
    <2>1. used'.created = used.created
      BY <1>2 DEF IInv, TypeOK, UsedType, ValidateUpdate, ConfigChanges, ServiceStarts, Restart
    <2> QED BY <1>2, <2>1, QuietStep DEF ValidateUpdate, ConfigChanges, ServiceStarts, Restart
  <1>3. CASE Delete
    <2>1. CASE cr.finalizer
      <3>1. cr'.exists /\ cr'.phase = cr.phase /\ cr'.jobID = cr.jobID
        BY <1>3, <2>1, ChangedDeleting DEF Delete, IInv, TypeOK
      <3>2. UserPhase' = UserPhase
        BY <3>1, <1>3 DEF UserPhase, Delete
      <3> QED BY <1>3, <3>1, <3>2 DEF Step, Contract!cvars, Delete
    <2>2. CASE ~cr.finalizer
      BY <1>3, <2>2, GoneStep DEF Delete
    <2> QED BY <2>1, <2>2
  <1>4. CASE JobEnds
    <2>1. \A j \in Job : ended[j] # "unknown" => ended'[j] = ended[j]
      BY <1>4 DEF JobEnds, IInv, TypeOK, JobInv, Outcome
    <2> QED BY SMTT(30), <1>4, <2>1, JobsEndStep DEF JobEnds
  <1>5. CASE ServiceStops \/ ServiceVanishes
    <2>1. \A j \in Job : ended[j] # "unknown" => ended'[j] = ended[j]
      BY <1>5 DEF ServiceStops, ServiceVanishes, ForgetJobs, IInv, JobInv, Outcome
    <2>2. used'.created = used.created /\ cr' = cr
      BY <1>5 DEF ServiceStops, ServiceVanishes, IInv, TypeOK, UsedType
    <2> QED BY <2>1, <2>2, JobsEndStep
  <1> QED BY <1>1, <1>2, <1>3, <1>4, <1>5 DEF User, Service

\* A step of a pass is a step of the contract, or none.
LEMMA PassRefines ==
    ASSUME IInv, IInv', Pass
    PROVE  Step
  <1>1. CASE Fetch \/ Reconcile \/ TriggerRefused \/ CheckRestoreStatus
    BY <1>1, QuietStep
        DEF Fetch, Reconcile, TriggerRefused, CheckRestoreStatus
  <1>2. CASE setStatusPhase
    <2>1. CASE cr' = cr
      BY <1>2, <2>1, QuietStep DEF setStatusPhase
    <2>2. CASE cr' # cr
      <3>1. ~pass.stale /\ pass.obj.phase # "InProgress" /\ cr' = [pass.obj EXCEPT !.phase = "InProgress"]
        BY <1>2, <2>2 DEF setStatusPhase, Write
      <3>2. cr = pass.obj /\ cr.exists /\ cr.phase \in {"none", "Failed"}
        BY <1>2, <3>1, PassFields, ObjectFields DEF IInv, PassInv, setStatusPhase, Phases
      <3>3. cr'.exists /\ cr'.phase = "InProgress" /\ cr'.jobID = cr.jobID
        BY SMT, <3>1, <3>2, ChangedPhase, PassFields DEF IInv, Phases
      <3> QED BY <1>2, <3>1, <3>2, <3>3, WriteSteps DEF setStatusPhase
    <2> QED BY <2>1, <2>2
  <1>3. CASE addFinalizer
    <2>1. CASE cr' = cr
      BY <1>3, <2>1, QuietStep DEF addFinalizer
    <2>2. CASE cr' # cr
      <3>1. ~pass.stale /\ cr' = [pass.obj EXCEPT !.finalizer = TRUE]
        BY <1>3, <2>2 DEF addFinalizer, Write
      <3>2. cr = pass.obj /\ cr.exists
        BY <1>3, <3>1 DEF IInv, PassInv, addFinalizer
      <3>3. cr'.exists /\ cr'.phase = cr.phase /\ cr'.jobID = cr.jobID
        BY <3>1, <3>2, ChangedFinalizer, PassFields DEF IInv
      <3> QED BY <1>3, <3>1, <3>2, <3>3, WriteSteps DEF addFinalizer
    <2> QED BY <2>1, <2>2
  <1>4. CASE TriggerRestoreWithType
    <2>1. used'.created = used.created
      BY <1>4 DEF TriggerRestoreWithType, IInv, TypeOK, UsedType
    <2> QED BY <1>4, <2>1, QuietStep DEF TriggerRestoreWithType
  <1>5. CASE reportBadRequest
    <2>1. IF pass.stale THEN cr' = cr ELSE cr' = [pass.obj EXCEPT !.phase = "Failed"]
      BY <1>5 DEF reportBadRequest, WriteAndReturn
    <2>2. ~pass.stale => /\ cr.phase = "InProgress" /\ cr.jobID = 0 /\ cr.exists
                         /\ cr'.exists /\ cr'.phase = "Failed" /\ cr'.jobID = cr.jobID
      <3> SUFFICES ASSUME ~pass.stale PROVE /\ cr.phase = "InProgress" /\ cr.jobID = 0 /\ cr.exists
                                              /\ cr'.exists /\ cr'.phase = "Failed" /\ cr'.jobID = cr.jobID
        OBVIOUS
      <3>1. cr = pass.obj /\ cr.exists /\ cr.phase = "InProgress" /\ cr.jobID = 0
        BY <1>5 DEF IInv, PassInv, reportBadRequest
      <3>2. LET n == [pass.obj EXCEPT !.phase = "Failed"] IN
             n.exists = pass.obj.exists /\ n.phase = "Failed" /\ n.jobID = pass.obj.jobID
        BY <1>5, ChangedPhase, PassFields DEF IInv, Phases
      <3> QED BY <2>1, <3>1, <3>2
    <2> QED BY <1>5, <2>1, <2>2, WriteSteps, PassFields DEF reportBadRequest, IInv
  <1>6. CASE saveJobID
    <2>1. IF pass.stale THEN cr' = cr ELSE cr' = [pass.obj EXCEPT !.jobID = pass.job]
      BY <1>6 DEF saveJobID, WriteAndReturn
    <2>2. ~pass.stale => /\ cr.phase = "InProgress" /\ cr.jobID = 0
                         /\ cr'.exists /\ cr'.phase = cr.phase /\ cr'.jobID \in Job
      <3> SUFFICES ASSUME ~pass.stale PROVE /\ cr.phase = "InProgress" /\ cr.jobID = 0
                                              /\ cr'.exists /\ cr'.phase = cr.phase /\ cr'.jobID \in Job
        OBVIOUS
      <3>1. cr = pass.obj /\ cr.exists /\ cr.phase = "InProgress" /\ cr.jobID = 0 /\ pass.job \in Job
        BY <1>6 DEF IInv, PassInv, saveJobID
      <3>2. LET n == [pass.obj EXCEPT !.jobID = pass.job] IN
             n.exists = pass.obj.exists /\ n.phase = pass.obj.phase /\ n.jobID = pass.job
        BY <1>6, ChangedJob, PassFields DEF IInv
      <3> QED BY <2>1, <3>1, <3>2
    <2> QED BY <1>6, <2>1, <2>2, WriteSteps, PassFields DEF saveJobID, IInv
  <1>7. CASE checkRestoreStatus
    <2> DEFINE phase == statusToPhase(pass.status)
    <2>1. IF pass.stale THEN cr' = cr ELSE cr' = [pass.obj EXCEPT !.phase = phase]
      BY <1>7 DEF checkRestoreStatus, WriteAndReturn
    <2>2. /\ phase \in {"InProgress", "Completed", "Failed"}
          /\ phase = "Completed" => ended[pass.obj.jobID] = "success"
          /\ phase = "Failed" => ended[pass.obj.jobID] = "failure"
      BY <1>7, PassFields DEF IInv, JobInv, checkRestoreStatus, statusToPhase, JobStates
    <2> HIDE DEF phase
    <2>3. ~pass.stale => /\ cr = pass.obj /\ cr.phase = "InProgress" /\ cr.jobID # 0
                         /\ cr'.exists /\ cr'.phase = phase /\ cr'.jobID = cr.jobID
      <3> SUFFICES ASSUME ~pass.stale PROVE /\ cr = pass.obj /\ cr.phase = "InProgress" /\ cr.jobID # 0
                                              /\ cr'.exists /\ cr'.phase = phase /\ cr'.jobID = cr.jobID
        OBVIOUS
      <3>1. cr = pass.obj /\ cr.exists /\ cr.phase = "InProgress" /\ cr.jobID # 0
        BY <1>7 DEF IInv, PassInv, checkRestoreStatus
      <3>2. LET n == [pass.obj EXCEPT !.phase = phase] IN
             n.exists = pass.obj.exists /\ n.phase = phase /\ n.jobID = pass.obj.jobID
        BY SMT, <1>7, ChangedPhase, PassFields, <2>2 DEF IInv, Phases
      <3> QED BY <2>1, <3>1, <3>2
    <2>4. ended' = ended /\ used' = used /\ pass.at # "idle"
      BY <1>7 DEF checkRestoreStatus
    <2> QED BY <2>1, <2>2, <2>3, <2>4, WriteSteps, PassFields DEF IInv
  <1>8. CASE cancelRestoreJob
    <2>1. \A j \in Job : ended[j] # "unknown" => ended'[j] = ended[j]
      BY SMT, <1>8 DEF cancelRestoreJob, CancelRestoreJob, IInv, TypeOK, JobInv, Outcome
    <2>2. used'.created = used.created /\ cr' = cr
      BY <1>8 DEF cancelRestoreJob, IInv, TypeOK, UsedType
    <2> QED BY <2>1, <2>2, JobsEndStep
  <1>9. CASE cleanUpAndRemoveFinalizer
    <2>1. CASE pass.stale
      BY <1>9, <2>1, QuietStep DEF cleanUpAndRemoveFinalizer, WriteAndReturn
    <2>2. CASE ~pass.stale
      <3>1. cr.exists /\ cr' = Gone
        BY <1>9, <2>2 DEF cleanUpAndRemoveFinalizer, WriteAndReturn, IInv, PassInv
      <3> QED BY <1>9, <3>1, GoneStep DEF cleanUpAndRemoveFinalizer
    <2> QED BY <2>1, <2>2
  <1> QED BY <1>1, <1>2, <1>3, <1>4, <1>5, <1>6, <1>7, <1>8, <1>9 DEF Pass

\* The controller implements the contract: it follows one job and reports
\* Completed and Failed as that job ended, whatever is lost, edited, deleted
\* or restarted on the way and however often.
THEOREM Refinement == Spec => ImplementsContract
  <1>1. Init => Contract!Init
    <2> SUFFICES ASSUME Init PROVE Contract!Init
      OBVIOUS
    <2>1. UserPhase = "none" /\ cr.jobID = 0
      BY Constants DEF Init, UserPhase
    <2> QED BY <2>1 DEF Init, Contract!Init, Job
  <1>2. IInv /\ IInv' /\ [Next]_vars => [Contract!Next]_(Contract!cvars)
    <2> SUFFICES ASSUME IInv, IInv', [Next]_vars PROVE Step
      BY DEF Step
    <2>1. CASE UNCHANGED vars
      BY <2>1, QuietStep DEF vars
    <2> QED BY <2>1, UserRefines, PassRefines DEF Next
  <1> QED BY <1>1, <1>2, Invariance, PTL DEF Spec, ImplementsContract, Contract!Spec
=============================================================================
