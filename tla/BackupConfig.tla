---------------------------- MODULE BackupConfig ----------------------------
(***************************************************************************)
(* The configuration of a backup service and the controllers that write    *)
(* it.  The AerospikeBackupService controller owns the service part of a   *)
(* ConfigMap and the Deployment; the AerospikeBackup controller owns one    *)
(* entry per backup (its cluster and its routines).  The kubelet copies the *)
(* ConfigMap into the pod, and the process there reads the copy when it     *)
(* starts or is told to (reload).                                           *)
(*                                                                          *)
(* Passes over different objects run at the same time; a step here is the   *)
(* part of a pass up to its next call that depends on others.  A version of *)
(* a configuration is a number; an edit may bring an earlier one back.      *)
(* Static settings are the ones the process reads only when it starts.      *)
(*                                                                          *)
(* Left out: the Kubernetes Service, a ConfigMap without a hash (written by *)
(* an older operator), the two pods that run side by side for a moment      *)
(* while a Deployment is rolled out, a deleted pod on its way out, a service *)
(* created again before the resources of its predecessor are collected, a   *)
(* service older than the supported version.                                *)
(***************************************************************************)
EXTENDS Naturals

CONSTANTS
    Backups,    \* AerospikeBackups that use the service
    Svc,        \* the service controller, as a process
    None,
    MaxEdits,   \* bound on edits and deletions
    MaxFaults   \* bound on errors, timeouts and crashes

ASSUME BackupAssumption == Svc \notin Backups /\ MaxEdits \in Nat /\ MaxFaults \in Nat

VARIABLES
    svc,        \* the AerospikeBackupService; status is None until it is first written
    bk,         \* the AerospikeBackups: spec (conf, want) and status (applied, done)
    cm,         \* the ConfigMap, or None
    deploy,     \* the Deployment; observed: its controller has seen the latest template
    pod,        \* its pod: the file the kubelet wrote and what the process loaded
    pc,         \* per controller: the next step of its pass
    msvc, mbk,  \* the objects as the passes read them
    seen,       \* per controller: its copy of the ConfigMap ...
    fresh,      \* ... and whether its resourceVersion is still the current one
    queued,     \* controllers with a request in their work queue
    missed,     \* history: whose config the process may have missed
    skipped,    \* history: backups whose last request was dropped
    edits, faults

objects == <<svc, bk>>
cluster == <<cm, deploy, pod>>
pass    == <<pc, msvc, mbk, seen, fresh, queued>>
history == <<missed, skipped>>
vars    == <<objects, cluster, pass, history, edits, faults>>

Procs    == Backups \cup {Svc}
Versions == 0 .. 1
SvcSpecs == [static : Versions, dyn : Versions, tmpl : Versions]
Configs  == [static : Versions, dyn : Versions, entry : [Backups -> 0 .. 2]]   \* entry 0: not there
Objects  == [exists : BOOLEAN, deleting : BOOLEAN, finalizer : BOOLEAN, conf : 1 .. 2, applied : 0 .. 2,
             want : 0 .. 1, done : 0 .. 1]
Services == [exists : BOOLEAN, spec : SvcSpecs, status : SvcSpecs \cup {None},
             phase : {"", "InProgress", "Completed", "Error"}]

\* A ConfigMap that is not there is no ConfigMap.
ASSUME NoneAssumption == None \notin Configs

NoPod == [st |-> "none", tmpl |-> 0, file |-> None, loaded |-> None]

(***************************************************************************)
(* Types; a pod that runs has loaded a configuration.                      *)
(***************************************************************************)
TypeOK ==
    /\ svc \in Services /\ msvc \in Services
    /\ bk \in [Backups -> Objects] /\ mbk \in [Backups -> Objects]
    /\ cm \in Configs \cup {None}
    /\ deploy \in [exists : BOOLEAN, tmpl : Versions, observed : BOOLEAN]
    /\ pod \in [st : {"none", "starting", "running"}, tmpl : Versions,
                file : Configs \cup {None}, loaded : Configs \cup {None}]
    /\ pod.st = "running" => pod.loaded # None
    /\ pc \in [Procs -> {"idle", "read", "write", "deploy", "rolled", "ready", "settled", "config", "wait",
                         "apply", "trigger", "reloaded", "started", "status", "unfinalize"}]
    /\ seen \in [Procs -> Configs \cup {None}] /\ fresh \in [Procs -> BOOLEAN]
    /\ queued \subseteq Procs /\ missed \subseteq Procs /\ skipped \subseteq Backups
    /\ edits \in 0 .. MaxEdits /\ faults \in 0 .. MaxFaults

NewService == [exists |-> TRUE, spec |-> [static |-> 0, dyn |-> 0, tmpl |-> 0], status |-> None, phase |-> ""]
NewBackup == [exists |-> TRUE, deleting |-> FALSE, finalizer |-> FALSE, conf |-> 1, applied |-> 0,
              want |-> 0, done |-> 0]

(* A service and its backups, applied together by the user. *)
Init ==
    /\ svc = NewService /\ msvc = NewService
    /\ bk = [b \in Backups |-> NewBackup] /\ mbk = bk
    /\ cm = None /\ deploy = [exists |-> FALSE, tmpl |-> 0, observed |-> FALSE] /\ pod = NoPod
    /\ pc = [c \in Procs |-> "idle"]
    /\ seen = [c \in Procs |-> None] /\ fresh = [c \in Procs |-> FALSE]
    /\ queued = Procs /\ missed = {} /\ skipped = {}
    /\ edits = 0 /\ faults = 0

CountFault ==
    /\ faults < MaxFaults
    /\ faults' = faults + 1

Goto(c, step) == pc' = [pc EXCEPT ![c] = step]

\* What a pass knows ends with it.
EndPass(c) ==
    /\ Goto(c, "idle")
    /\ seen' = [seen EXCEPT ![c] = None] /\ fresh' = [fresh EXCEPT ![c] = FALSE]
    /\ IF c = Svc
       THEN msvc' = NewService /\ UNCHANGED mbk
       ELSE mbk' = [mbk EXCEPT ![c] = NewBackup] /\ UNCHANGED msvc

-----------------------------------------------------------------------------
(* A pass over a backup. *)

\* Reconcile, when it cannot read the service or its version: nothing is done, and nothing is
\* queued again.  That includes a read that fails for another reason.
SkipReconcile(b) ==
    /\ pc[b] = "idle" /\ b \in queued
    /\ \/ ~svc.exists /\ UNCHANGED faults
       \/ svc.exists /\ CountFault
    /\ skipped' = skipped \cup {b}
    /\ queued' = queued \ {b}
    /\ UNCHANGED <<objects, cluster, pc, msvc, mbk, seen, fresh, missed, edits>>

\* Reconcile up to addFinalizer.
StartBackup(b) ==
    /\ pc[b] = "idle" /\ b \in queued /\ svc.exists
    /\ bk' = [bk EXCEPT ![b].finalizer = TRUE]
    /\ mbk' = [mbk EXCEPT ![b] = bk'[b]]
    /\ queued' = queued \ {b} /\ skipped' = skipped \ {b}
    /\ Goto(b, "read")
    /\ UNCHANGED <<svc, cluster, msvc, seen, fresh, missed, edits, faults>>

specApplied(b) == mbk[b].conf = mbk[b].applied

\* reconcileConfigMap and removeBackupInfoFromConfigMap: the copy that is merged into.  A backup
\* that is deleted does not need the ConfigMap to be there.
GetConfigMap(b) ==
    /\ pc[b] = "read"
    /\ \/ cm # None /\ seen' = [seen EXCEPT ![b] = cm] /\ Goto(b, "write")
       \/ cm = None /\ mbk[b].deleting /\ Goto(b, "wait") /\ UNCHANGED seen
    /\ fresh' = [fresh EXCEPT ![b] = TRUE]
    /\ UNCHANGED <<objects, cluster, msvc, mbk, queued, history, edits, faults>>

Merged(b) == [seen[b] EXCEPT !.entry[b] = IF mbk[b].deleting THEN 0 ELSE mbk[b].conf]

WritesConfigMap(b) == mbk[b].deleting \/ Merged(b) # seen[b]

\* Mutant: the update carries no resourceVersion.
UpdateConfigMapBlindly(c, new) ==
    /\ cm' = new
    /\ fresh' = fresh

\* An update is refused when the ConfigMap has changed since it was read.
UpdateConfigMap(c, new) ==
    /\ fresh[c]
    /\ cm' = new
    /\ fresh' = IF new = cm THEN fresh ELSE [x \in Procs |-> FALSE]

\* Mutant: a backup that is deleted needs no reload.
ReconcileConfigMapOnly(b) ==
    /\ pc[b] = "write"
    /\ IF WritesConfigMap(b) THEN UpdateConfigMap(b, Merged(b)) ELSE UNCHANGED <<cm, fresh>>
    /\ Goto(b, CASE mbk[b].deleting -> "unfinalize"
                 [] ~mbk[b].deleting -> IF WritesConfigMap(b) \/ ~specApplied(b) THEN "wait" ELSE "trigger")
    /\ UNCHANGED <<objects, deploy, pod, msvc, mbk, seen, queued, history, edits, faults>>

ReconcileConfigMap(b) ==
    /\ pc[b] = "write"
    /\ IF WritesConfigMap(b) THEN UpdateConfigMap(b, Merged(b)) ELSE UNCHANGED <<cm, fresh>>
    /\ Goto(b, IF WritesConfigMap(b) \/ ~specApplied(b) THEN "wait" ELSE "trigger")
    /\ UNCHANGED <<objects, deploy, pod, msvc, mbk, seen, queued, history, edits, faults>>

\* Mutant: the reload is sent without waiting for the kubelet.
WaitForAnyConfig(c) ==
    /\ pc[c] = "wait" /\ cm # None
    /\ c \in Backups => svc.exists
    /\ pod.st = "running"
    /\ Goto(c, "apply")
    /\ UNCHANGED <<objects, cluster, msvc, mbk, seen, fresh, queued, history, edits, faults>>

\* waitForConfigInPods: the running pod has the hash that the ConfigMap has now.
WaitForConfigInPods(c) ==
    /\ pc[c] = "wait" /\ cm # None
    /\ c \in Backups => svc.exists
    /\ pod.st = "running" /\ pod.file = cm
    /\ Goto(c, "apply")
    /\ UNCHANGED <<objects, cluster, msvc, mbk, seen, fresh, queued, history, edits, faults>>

\* Backups whose entry is, in this file, what the ConfigMap says.
Loaded(file) == {b \in Backups : file.entry[b] # 0 /\ (cm # None => file.entry[b] = cm.entry[b])}

\* ApplyConfig: the process reads its file again, all but the static settings.
ApplyConfig(c) ==
    /\ pc[c] = "apply" /\ pod.st = "running"
    /\ pod' = [pod EXCEPT !.loaded = [pod.file EXCEPT !.static = pod.loaded.static]]
    /\ missed' = missed \ Loaded(pod.file)
    /\ Goto(c, CASE c = Svc -> "reloaded"
                 [] c # Svc -> IF mbk[c].deleting THEN "unfinalize" ELSE "trigger")
    /\ UNCHANGED <<objects, cm, deploy, msvc, mbk, seen, fresh, queued, skipped, edits, faults>>

Triggers(b) == mbk[b].want # 0 /\ mbk[b].want # mbk[b].done

\* The service takes requests for routines it has loaded.
TakesTrigger(b) == svc.exists /\ pod.st = "running" /\ pod.loaded.entry[b] # 0

TriggerOnDemandBackup(b) ==
    /\ pc[b] = "trigger"
    /\ Triggers(b) => TakesTrigger(b)
    /\ Goto(b, "status")
    /\ UNCHANGED <<objects, cluster, msvc, mbk, seen, fresh, queued, history, edits, faults>>

\* updateStatus replaces the status by what the pass worked on.
UpdateBackupStatus(b) ==
    /\ pc[b] = "status"
    /\ bk' = [bk EXCEPT ![b].applied = mbk[b].conf, ![b].done = mbk[b].want]
    /\ EndPass(b)
    /\ UNCHANGED <<svc, cluster, queued, history, edits, faults>>

\* cleanUpAndRemoveFinalizer, at its end: the object goes away.
RemoveFinalizer(b) ==
    /\ pc[b] = "unfinalize"
    /\ bk' = [bk EXCEPT ![b].exists = FALSE, ![b].finalizer = FALSE]
    /\ queued' = queued \ {b}
    /\ EndPass(b)
    /\ UNCHANGED <<svc, cluster, history, edits, faults>>

BackupStep(b) ==
    \/ SkipReconcile(b)
    \/ StartBackup(b)
    \/ GetConfigMap(b)
    \/ ReconcileConfigMap(b)
    \/ TriggerOnDemandBackup(b)
    \/ UpdateBackupStatus(b)
    \/ RemoveFinalizer(b)

-----------------------------------------------------------------------------
(* A pass over the service. *)

\* Reconcile up to setStatusPhase; a service that is gone needs nothing.
StartService ==
    /\ pc[Svc] = "idle" /\ Svc \in queued
    /\ queued' = queued \ {Svc}
    /\ IF svc.exists
       THEN /\ svc' = [svc EXCEPT !.phase = "InProgress"]
            /\ msvc' = svc'
            /\ Goto(Svc, "read")
       ELSE UNCHANGED <<svc, msvc, pc>>
    /\ UNCHANGED <<bk, cluster, mbk, seen, fresh, history, edits, faults>>

GetServiceConfigMap ==
    /\ pc[Svc] = "read"
    /\ seen' = [seen EXCEPT ![Svc] = cm] /\ fresh' = [fresh EXCEPT ![Svc] = TRUE]
    /\ Goto(Svc, "write")
    /\ UNCHANGED <<objects, cluster, msvc, mbk, queued, history, edits, faults>>

\* reconcileConfigMap, of the service: its keys are put in place, the entries of backups are kept.
ServiceMerged ==
    [static |-> msvc.spec.static, dyn |-> msvc.spec.dyn,
     entry |-> IF seen[Svc] = None THEN [b \in Backups |-> 0] ELSE seen[Svc].entry]

ReconcileServiceConfigMap ==
    /\ pc[Svc] = "write"
    /\ UpdateConfigMap(Svc, ServiceMerged)
    /\ Goto(Svc, "deploy")
    /\ UNCHANGED <<objects, deploy, pod, msvc, mbk, seen, queued, history, edits, faults>>

\* reconcileDeployment up to its first wait.
ReconcileDeployment ==
    /\ pc[Svc] = "deploy"
    /\ \/ /\ ~deploy.exists
          /\ deploy' = [exists |-> TRUE, tmpl |-> msvc.spec.tmpl, observed |-> FALSE]
          /\ Goto(Svc, "ready")
       \/ /\ deploy.exists /\ deploy.tmpl # msvc.spec.tmpl
          /\ deploy' = [deploy EXCEPT !.tmpl = msvc.spec.tmpl, !.observed = FALSE]
          /\ Goto(Svc, "rolled")
       \/ /\ deploy.exists /\ deploy.tmpl = msvc.spec.tmpl
          /\ Goto(Svc, "settled")
          /\ UNCHANGED deploy
    /\ UNCHANGED <<objects, cm, pod, msvc, mbk, seen, fresh, queued, history, edits, faults>>

\* updateStatus with the phase the object has, before the wait for a pod that loads the new config.
RecordBeforeWait ==
    /\ pc[Svc] = "rolled" /\ svc.exists
    /\ svc' = [svc EXCEPT !.status = msvc.spec]
    /\ msvc' = [msvc EXCEPT !.status = msvc.spec]
    /\ Goto(Svc, "ready")
    /\ UNCHANGED <<bk, cluster, mbk, seen, fresh, queued, history, edits, faults>>

\* Mutant: the rollout need not have begun.
WaitForAnyPod ==
    /\ pc[Svc] \in {"ready", "settled"}
    /\ deploy.exists /\ pod.st = "running"
    /\ Goto(Svc, IF pc[Svc] = "ready" THEN "started" ELSE "config")
    /\ UNCHANGED <<objects, cluster, msvc, mbk, seen, fresh, queued, history, edits, faults>>

WaitForDeploymentToBeReady ==
    /\ pc[Svc] \in {"ready", "settled"}
    /\ deploy.exists /\ deploy.observed /\ pod.st = "running"
    /\ Goto(Svc, IF pc[Svc] = "ready" THEN "started" ELSE "config")
    /\ UNCHANGED <<objects, cluster, msvc, mbk, seen, fresh, queued, history, edits, faults>>

HasConfig(config, spec) == config.static = spec.static /\ config.dyn = spec.dyn

SkipsReload == msvc.status # None => HasConfig(msvc.status, msvc.spec)

\* updateBackupSvcConfig: a status that is empty or equal to the spec needs no reload, a static
\* change a new pod.
UpdateBackupSvcConfig ==
    /\ pc[Svc] = "config"
    /\ \/ SkipsReload /\ Goto(Svc, "status") /\ UNCHANGED pod
       \/ ~SkipsReload /\ msvc.status.static # msvc.spec.static /\ Goto(Svc, "rolled") /\ pod' = NoPod
       \/ ~SkipsReload /\ msvc.status.static = msvc.spec.static /\ Goto(Svc, "wait") /\ UNCHANGED pod
    /\ UNCHANGED <<objects, cm, deploy, msvc, mbk, seen, fresh, queued, history, edits, faults>>

\* updateStatus with phase Completed, at the end of Reconcile.
UpdateServiceStatus ==
    /\ pc[Svc] \in {"status", "reloaded", "started"} /\ svc.exists
    /\ svc' = [svc EXCEPT !.status = msvc.spec, !.phase = "Completed"]
    /\ EndPass(Svc)
    /\ UNCHANGED <<bk, cluster, queued, history, edits, faults>>

ServiceStep ==
    \/ StartService
    \/ GetServiceConfigMap
    \/ ReconcileServiceConfigMap
    \/ ReconcileDeployment
    \/ RecordBeforeWait
    \/ WaitForDeploymentToBeReady
    \/ UpdateBackupSvcConfig
    \/ UpdateServiceStatus

-----------------------------------------------------------------------------
(* Passes that end in an error or with the operator. *)

\* The step at which the pass of c stands cannot but fail.
MustFail(c) ==
    \/ pc[c] = "read" /\ c # Svc /\ cm = None /\ ~mbk[c].deleting
    \/ pc[c] = "write" /\ ~fresh[c] /\ (c \in Backups => WritesConfigMap(c))
    \/ pc[c] = "wait" /\ (cm = None \/ (c # Svc /\ ~svc.exists))
    \/ pc[c] = "apply" /\ pod.st # "running"
    \/ pc[c] = "trigger" /\ Triggers(c) /\ ~TakesTrigger(c)
    \/ pc[c] \in {"rolled", "status", "reloaded", "started"} /\ c = Svc /\ ~svc.exists
    \/ pc[c] \in {"ready", "settled"} /\ ~deploy.exists

\* The reload of this pass is due only because the ConfigMap was changed by it.
ReloadPending(b) == pc[b] \in {"wait", "apply"} /\ ~mbk[b].deleting /\ specApplied(b)

\* Mutant: a failed reload leaves the status as it is.
MarkNothing(b) == bk' = bk

MarkConfigNotApplied(b) == bk' = [bk EXCEPT ![b].applied = 0]

\* finishReconcile with an error; the request is queued again.
FailBackup(b) ==
    /\ pc[b] # "idle"
    /\ CountFault \/ (MustFail(b) /\ UNCHANGED faults)
    /\ IF ReloadPending(b) THEN MarkConfigNotApplied(b) ELSE UNCHANGED bk
    /\ EndPass(b) /\ queued' = queued \cup {b}
    /\ UNCHANGED <<svc, cluster, history, edits>>

FailService ==
    /\ pc[Svc] # "idle"
    /\ CountFault \/ (MustFail(Svc) /\ UNCHANGED faults)
    /\ svc' = IF svc.exists THEN [svc EXCEPT !.phase = "Error"] ELSE svc
    /\ EndPass(Svc) /\ queued' = queued \cup {Svc}
    /\ UNCHANGED <<bk, cluster, history, edits>>

\* The operator restarts and starts with every object there is.  A markConfigNotApplied that
\* fails has the same effect on its backup.
Crash ==
    /\ CountFault
    /\ pc' = [c \in Procs |-> "idle"]
    /\ seen' = [c \in Procs |-> None] /\ fresh' = [c \in Procs |-> FALSE]
    /\ msvc' = NewService /\ mbk' = [b \in Backups |-> NewBackup]
    /\ queued' = {b \in Backups : bk[b].exists} \cup {Svc}
    /\ missed' = missed \cup {b \in Backups : ReloadPending(b)}
    /\ UNCHANGED <<objects, cluster, skipped, edits>>

-----------------------------------------------------------------------------
(* Users, as the webhooks let them. *)

Edit ==
    /\ edits < MaxEdits
    /\ edits' = edits + 1

\* validateOnDemandBackupsUpdate: an on-demand backup is added, or waits, only with the config applied.
ValidOnDemand(new) == new.want \notin {0, new.done} => new.conf = new.applied

EditBackup(b) ==
    /\ Edit
    /\ bk[b].exists /\ ~bk[b].deleting /\ svc.exists
    /\ ValidOnDemand([bk[b] EXCEPT !.conf = 3 - @])
    /\ bk' = [bk EXCEPT ![b].conf = 3 - @]
    /\ queued' = queued \cup {b}
    /\ UNCHANGED <<svc, cluster, pc, msvc, mbk, seen, fresh, history, faults>>

AddOnDemandBackup(b) ==
    /\ Edit
    /\ bk[b].exists /\ ~bk[b].deleting /\ svc.exists
    /\ bk[b].want = 0 /\ ValidOnDemand([bk[b] EXCEPT !.want = 1])
    /\ bk' = [bk EXCEPT ![b].want = 1]
    /\ queued' = queued \cup {b}
    /\ UNCHANGED <<svc, cluster, pc, msvc, mbk, seen, fresh, history, faults>>

DeleteBackup(b) ==
    /\ Edit
    /\ bk[b].exists /\ ~bk[b].deleting
    /\ IF bk[b].finalizer
       THEN bk' = [bk EXCEPT ![b].deleting = TRUE] /\ queued' = queued \cup {b}
       ELSE bk' = [bk EXCEPT ![b].exists = FALSE] /\ queued' = queued \ {b}
    /\ UNCHANGED <<svc, cluster, pc, msvc, mbk, seen, fresh, history, faults>>

EditService ==
    /\ Edit
    /\ svc.exists
    /\ \E field \in {"static", "dyn", "tmpl"} : svc' = [svc EXCEPT !.spec[field] = 1 - @]
    /\ queued' = queued \cup {Svc}
    /\ UNCHANGED <<bk, cluster, pc, msvc, mbk, seen, fresh, history, faults>>

DeleteService ==
    /\ Edit
    /\ svc.exists
    /\ svc' = [svc EXCEPT !.exists = FALSE]
    /\ queued' = queued \cup {Svc}
    /\ UNCHANGED <<bk, cluster, pc, msvc, mbk, seen, fresh, history, faults>>

RecreateService ==
    /\ ~svc.exists /\ cm = None /\ ~deploy.exists /\ pod.st = "none" /\ pc[Svc] = "idle"
    /\ svc' = NewService
    /\ queued' = queued \cup {Svc}
    /\ UNCHANGED <<bk, cluster, pc, msvc, mbk, seen, fresh, history, edits, faults>>

-----------------------------------------------------------------------------
(* Kubernetes and the backup service. *)

\* Backups that are worked on may have reloaded the process that goes away.
CollectGarbage ==
    /\ ~svc.exists
    /\ cm # None \/ deploy.exists \/ pod.st # "none"
    /\ cm' = None /\ deploy' = [exists |-> FALSE, tmpl |-> 0, observed |-> FALSE] /\ pod' = NoPod
    /\ fresh' = [c \in Procs |-> FALSE]
    /\ missed' = missed \cup {b \in Backups : pc[b] # "idle"}
    /\ UNCHANGED <<objects, pc, msvc, mbk, seen, queued, skipped, edits, faults>>

\* A template that is back before the rollout began keeps the pod there is.
RollOut ==
    /\ deploy.exists /\ ~deploy.observed
    /\ deploy' = [deploy EXCEPT !.observed = TRUE]
    /\ pod' = IF pod.tmpl = deploy.tmpl THEN pod ELSE NoPod
    /\ missed' = IF pod'.st = "none" THEN missed \ {Svc} ELSE missed \cup {Svc}
    /\ UNCHANGED <<objects, cm, pass, skipped, edits, faults>>

PodStarts ==
    /\ deploy.exists /\ deploy.observed /\ pod.st = "none" /\ cm # None
    /\ pod' = [st |-> "starting", tmpl |-> deploy.tmpl, file |-> cm, loaded |-> None]
    /\ UNCHANGED <<objects, cm, deploy, pass, history, edits, faults>>

ProcessStarts ==
    /\ pod.st = "starting"
    /\ pod' = [pod EXCEPT !.st = "running", !.loaded = pod.file]
    /\ missed' = missed \ Loaded(pod.file)
    /\ UNCHANGED <<objects, cm, deploy, pass, skipped, edits, faults>>

ProcessFails ==
    /\ CountFault
    /\ pod.st = "running"
    /\ pod' = [pod EXCEPT !.st = "starting", !.loaded = None]
    /\ UNCHANGED <<objects, cm, deploy, pass, history, edits>>

KubeletSyncs ==
    /\ pod.st # "none" /\ cm # None /\ pod.file # cm
    /\ pod' = [pod EXCEPT !.file = cm]
    /\ UNCHANGED <<objects, cm, deploy, pass, history, edits, faults>>

-----------------------------------------------------------------------------
Reload(c) == WaitForConfigInPods(c) \/ ApplyConfig(c)

User ==
    \/ \E b \in Backups : EditBackup(b) \/ AddOnDemandBackup(b) \/ DeleteBackup(b)
    \/ EditService
    \/ DeleteService
    \/ RecreateService

Kubernetes == CollectGarbage \/ RollOut \/ PodStarts \/ ProcessStarts \/ ProcessFails \/ KubeletSyncs

Next ==
    \/ \E b \in Backups : BackupStep(b) \/ FailBackup(b)
    \/ ServiceStep \/ FailService
    \/ \E c \in Procs : Reload(c)
    \/ Crash
    \/ User
    \/ Kubernetes

Spec == Init /\ [][Next]_vars

\* A controller goes on with its pass, and with the requests in its queue; Kubernetes keeps
\* starting the pod and writing its file.
FairSpec ==
    /\ Spec
    /\ \A b \in Backups : WF_vars(BackupStep(b) \/ Reload(b) \/ (MustFail(b) /\ FailBackup(b)))
    /\ WF_vars(ServiceStep \/ Reload(Svc) \/ (MustFail(Svc) /\ FailService))
    /\ WF_vars(RollOut) /\ WF_vars(PodStarts) /\ WF_vars(ProcessStarts) /\ WF_vars(KubeletSyncs)

-----------------------------------------------------------------------------
(***************************************************************************)
(* No controller undoes the work of another one: the service part of the   *)
(* ConfigMap changes only in a pass over the service, the entry of a        *)
(* backup only in a pass over that backup, although each of them writes     *)
(* the whole ConfigMap from a copy it read earlier.                         *)
(***************************************************************************)
EntriesHaveOneWriter ==
    [][cm # None /\ cm' # None =>
          /\ \A b \in Backups : cm'.entry[b] # cm.entry[b] => pc[b] = "write" /\ pc'[b] # "write"
          /\ <<cm'.static, cm'.dyn>> # <<cm.static, cm.dyn>> => pc[Svc] = "write" /\ pc'[Svc] # "write"]_vars

(***************************************************************************)
(* A pass over a backup that succeeds leaves the process with the config   *)
(* of that backup, unless an earlier pass broke off between the change of   *)
(* the ConfigMap and the reload, or the service was deleted meanwhile       *)
(* (missed).  The reload waits for the file (waitForConfigInPods), and      *)
(* whoever reloads loads what all of them wrote.                            *)
(***************************************************************************)
AppliedIsLoaded ==
    [][\A b \in Backups :
          pc[b] = "status" /\ pc'[b] = "idle" /\ bk'[b].applied = mbk[b].conf
          /\ pod.st = "running" /\ b \notin missed
          => pod.loaded.entry[b] = mbk[b].conf]_vars

(***************************************************************************)
(* A pass over the service that reloads it ends with a process that runs    *)
(* the dynamic config of that pass, and one that starts a pod with a        *)
(* process that runs all of it, whatever the passes over backups wrote and  *)
(* reloaded meanwhile.  Not so when the rollout kept the pod (missed).      *)
(***************************************************************************)
CompletedIsLoaded ==
    [][svc'.phase = "Completed" /\ svc.phase # "Completed" /\ pod.st = "running" =>
          /\ pc[Svc] = "reloaded" => pod.loaded.dyn = msvc.spec.dyn
          /\ pc[Svc] = "started" /\ Svc \notin missed => HasConfig(pod.loaded, msvc.spec)]_vars

(***************************************************************************)
(* An AerospikeBackup that is gone is in neither the ConfigMap nor the      *)
(* process: cleanUpAndRemoveFinalizer lets go of it only after a reload.    *)
(***************************************************************************)
DeletedIsUnloaded ==
    \A b \in Backups :
        ~bk[b].exists =>
            /\ cm # None => cm.entry[b] = 0
            /\ pod.st = "running" => pod.loaded.entry[b] = 0

(***************************************************************************)
(* In the end the service is Completed with its latest spec, and every      *)
(* backup is applied, has its on-demand backup triggered, or is gone,       *)
(* unless its request was dropped or its reload was missed.                 *)
(***************************************************************************)
Settled(b) ==
    \/ ~bk[b].exists
    \/ ~bk[b].deleting /\ bk[b].applied = bk[b].conf /\ bk[b].done = bk[b].want

BackupsSettle ==
    <>[](svc.exists =>
           /\ svc.phase = "Completed" /\ svc.status = svc.spec
           /\ \A b \in Backups : b \notin skipped \cup missed => Settled(b))

(***************************************************************************)
(* "Status is written immediately after applying the latest config via a    *)
(* pod restart or reload": a pass over the service that completes leaves    *)
(* the process with the config of that pass.                                *)
(***************************************************************************)
StatusIsLoaded ==
    [][svc'.phase = "Completed" /\ svc.phase # "Completed" /\ pod.st = "running"
       => HasConfig(pod.loaded, msvc.spec)]_vars
=============================================================================
