-------------------------- MODULE ClusterReconcile --------------------------
(***************************************************************************)
(* One AerospikeCluster object and the reconcile passes that act on it:    *)
(* internal/controller/cluster/{aerospikecluster_controller, reconciler,   *)
(* conditions}.go.                                                         *)
(*                                                                         *)
(* A pass (SingleClusterReconciler.Reconcile) works on `mem', the copy of  *)
(* the object it read when it began, and writes status back with merge     *)
(* patches and JSON patches computed from that copy.  Between two steps of *)
(* a pass the user edits, pauses or deletes the object, pods start or      *)
(* fail, and the operator may crash.  The client reads the API server      *)
(* itself (cmd/main.go:261), so a Get always sees the object as it is.     *)
(*                                                                         *)
(* Abstractions:                                                           *)
(*  - the spec is its generation and the paused flag; the copy of the spec *)
(*    in the status is the generation it was copied from (0: still empty); *)
(*  - what the rack loop has to do is, for each operation condition, the   *)
(*    number of batches the live racks still need to match generation      *)
(*    workGen; how a rack gets there is the subject of other modules;      *)
(*  - the pods of the cluster are one collective state;                    *)
(*  - a condition's message is left out (its reason is kept for Ready).    *)
(***************************************************************************)
EXTENDS Naturals, Sequences

CONSTANTS
    OpSeq,        \* the operation conditions, in the order the rack loop runs the operations
    MaxBatches,   \* bound: batches one operation takes
    MaxGen,       \* bound: generations of the spec the user creates
    LostAnswers,  \* TRUE: a write may take effect and its answer be lost
    MaxFaults     \* bound: failed or half-lost API calls, failed stages, pod failures, crashes

Ops == {OpSeq[i] : i \in DOMAIN OpSeq}

ASSUME ConstantsAssumption ==
    /\ OpSeq \in Seq(STRING)
    /\ MaxBatches \in Nat
    /\ MaxGen \in Nat \ {0}
    /\ LostAnswers \in BOOLEAN
    /\ MaxFaults \in Nat
    /\ "Paused" \notin Ops

VARIABLES
    api,      \* the AerospikeCluster object in the API server
    queued,   \* the work queue holds a request for the object
    pc,       \* the stage the pass in progress is about to run; "idle" between passes
    mem,      \* r.aeroCluster
    pending,  \* computedState.pendingOpReset
    armed,    \* pendingOpReset is not nil
    err,      \* the reason a pass failed for (recErr and failureReason); NoErr when it did not
    requeue,  \* the pass asked for a requeue (Result.RequeueAfter > 0)
    work,     \* batches of each operation the live racks need to match workGen
    workGen,  \* the generation `work' was derived from
    sts,      \* the StatefulSets of the cluster exist
    pods,     \* collective state of the cluster's pods
    pvc,      \* some PVC of the cluster exists
    faults    \* faults injected so far

cluster == <<work, workGen, sts, pods, pvc>>

vars == <<api, queued, pc, mem, pending, armed, err, requeue, cluster, faults>>

-----------------------------------------------------------------------------
(* The object.                                                             *)

Phases == {"", "InProgress", "Completed", "Error"}

\* The reasons a failed pass gives (computedState.failureReason, or ReconcileFailed);
\* PostRackFailed stands for those of the stages between the rack loop and access control.
FailureReasons == {"ReconcileFailed", "ClusterSetupFailed", "ServiceReconcileFailed",
                   "RackReconcileFailed", "PostRackFailed", "ACLReconcileFailed",
                   "RosterSetFailed", "StatusUpdateFailed"}

ReadyReasons == FailureReasons \cup
    {"", "Initializing", "Reconciling", "ReconcileComplete", "Terminating"}

NoErr == "none"

\* Conditions other than Ready: Paused and the operation conditions.
Flags == Ops \cup {"Paused"}

Gens == 0 .. MaxGen

\* A condition that is not in the list has the status "".
ReadyCond == [status : {"", "Unknown", "True", "False"}, reason : ReadyReasons, gen : Gens]
FlagCond == [status : {"", "True", "False"}, gen : Gens]
Conditions == [ready : ReadyCond, flag : [Flags -> FlagCond]]
Objects == [exists : BOOLEAN, gen : 1 .. MaxGen, paused : BOOLEAN, deleting : BOOLEAN,
            finalizer : BOOLEAN, phase : Phases, statusGen : Gens, conds : Conditions]

NoConditions == [ready |-> [status |-> "", reason |-> "", gen |-> 0],
                 flag |-> [c \in Flags |-> [status |-> "", gen |-> 0]]]

NewObject == [exists |-> TRUE, gen |-> 1, paused |-> FALSE, deleting |-> FALSE,
              finalizer |-> FALSE, phase |-> "", statusGen |-> 0, conds |-> NoConditions]

PCs == {"idle", "terminate", "deletion", "initConds", "checkPaused", "markInProgress",
        "addFinalizer", "checkFailed", "headlessSvc", "failedPods", "markRacks", "racks", "postRacks",
        "acl", "roster", "updateStatus", "recoverIgnorable", "finish"}

\* none: no pod object; starting: not failed, not ready; inGrace and failed: PodFailedInGrace
\* and PodFailed of utils.CheckPodFailedWithGrace.
PodStates == {"none", "starting", "ready", "inGrace", "failed"}

\* Every variable holds a value of the kind the code keeps in it.
TypeOK ==
    /\ api \in Objects
    /\ mem \in Objects
    /\ queued \in BOOLEAN
    /\ pc \in PCs
    /\ pending \in SUBSET Ops
    /\ armed \in BOOLEAN
    /\ err \in FailureReasons \cup {NoErr}
    /\ requeue \in BOOLEAN
    /\ work \in [Ops -> 0 .. MaxBatches]
    /\ workGen \in Gens
    /\ sts \in BOOLEAN
    /\ pods \in PodStates
    /\ pvc \in BOOLEAN
    /\ faults \in 0 .. MaxFaults

Init ==
    /\ api = NewObject
    /\ queued = TRUE
    /\ pc = "idle"
    /\ mem = NewObject
    /\ pending = {}
    /\ armed = FALSE
    /\ err = NoErr
    /\ requeue = FALSE
    /\ work = [op \in Ops |-> 0]
    /\ workGen = 0
    /\ sts = FALSE
    /\ pods = "none"
    /\ pvc = FALSE
    /\ faults = 0

-----------------------------------------------------------------------------
(* Status writes.  A write takes effect and is answered ("ok"), is refused,*)
(* or takes effect while its answer is lost; the last two, and any write to*)
(* an object that is gone, are errors to the caller.                       *)

Outcomes == {o \in {"ok", "refused", "lost"} :
                /\ o # "ok" => faults < MaxFaults
                /\ o = "lost" => LostAnswers}
CountFault(o) == faults' = IF o = "ok" THEN faults ELSE faults + 1
Applied(o) == api.exists /\ o # "refused"
Answered(o) == api.exists /\ o = "ok"

\* apimeta.SetStatusCondition for Ready, and for the flags cs, each stamped with the
\* generation in memory.
SetReady(conds, status, reason) ==
    [conds EXCEPT !.ready = [status |-> status, reason |-> reason, gen |-> mem.gen]]

\* Mutant: a condition that is reset loses its generation.
SetFlagsUnstamped(conds, cs, status) ==
    [conds EXCEPT !.flag = [c \in Flags |->
        IF c \in cs THEN [status |-> status, gen |-> IF status = "True" THEN mem.gen ELSE 0]
        ELSE conds.flag[c]]]

SetFlags(conds, cs, status) ==
    [conds EXCEPT !.flag = [c \in Flags |->
        IF c \in cs THEN [status |-> status, gen |-> mem.gen] ELSE conds.flag[c]]]

\* mergePatchStatus: nothing differs from memory, so nothing is sent.
Unchanged(phase, conds) == phase = mem.phase /\ conds = mem.conds

\* mergePatchStatus: the patch is a diff against memory, so a phase memory already has
\* is not sent; the conditions are a list, which a merge patch replaces whole.
\* A nil phase is mem.phase.
MergePatched(phase, conds) ==
    [api EXCEPT !.phase = IF phase = mem.phase THEN @ ELSE phase,
                !.conds = IF conds = mem.conds THEN @ ELSE conds]

MergePatchOK(o, phase, conds) == Unchanged(phase, conds) \/ Answered(o)

\* mergePatchStatus with outcome o.  Only the phase and the conditions of the answer are
\* copied back to memory, and nothing is when the patch fails.
MergePatchStatus(o, phase, conds) ==
    /\ Unchanged(phase, conds) => o = "ok"
    /\ CountFault(o)
    /\ api' = IF Unchanged(phase, conds) \/ ~Applied(o) THEN api ELSE MergePatched(phase, conds)
    /\ mem' = IF Unchanged(phase, conds) \/ ~Answered(o) THEN mem
              ELSE [mem EXCEPT !.phase = api'.phase, !.conds = api'.conds]

\* One field of a JSON patch: sent only when the new object differs from memory in it.
Patch(old, new, cur) == IF old = new THEN cur ELSE new

\* patchStatus: the JSON patch from memory to new, its status operations applied to api.
PatchedConds(new) ==
    [ready |->
        [status |-> Patch(mem.conds.ready.status, new.ready.status, api.conds.ready.status),
         reason |-> Patch(mem.conds.ready.reason, new.ready.reason, api.conds.ready.reason),
         gen |-> Patch(mem.conds.ready.gen, new.ready.gen, api.conds.ready.gen)],
     flag |-> [c \in Flags |->
        [status |-> Patch(mem.conds.flag[c].status, new.flag[c].status, api.conds.flag[c].status),
         gen |-> Patch(mem.conds.flag[c].gen, new.flag[c].gen, api.conds.flag[c].gen)]]]

JSONPatched(new) ==
    [api EXCEPT
        !.phase = Patch(mem.phase, new.phase, @),
        !.statusGen = Patch(mem.statusGen, new.statusGen, @),
        !.conds = PatchedConds(new.conds)]

-----------------------------------------------------------------------------
(* Where a stage sends the pass: to the next stage, or to finishReconcile. *)

Continue(stage) == pc' = stage /\ UNCHANGED <<err, requeue>>
FailWith(reason) == pc' = "finish" /\ err' = reason /\ UNCHANGED requeue
RequeueAfter == pc' = "finish" /\ requeue' = TRUE /\ UNCHANGED err

\* A stage whose only status write is mergePatchStatus(phase, conds).
PatchStage(phase, conds, next, reason) ==
    /\ \E o \in Outcomes :
         /\ MergePatchStatus(o, phase, conds)
         /\ IF MergePatchOK(o, phase, conds) THEN Continue(next) ELSE FailWith(reason)
    /\ UNCHANGED <<queued, armed, cluster>>

\* A stage that fails for a reason of its own (a read, an info call, a write elsewhere).
StageFails(reason) ==
    /\ faults < MaxFaults
    /\ faults' = faults + 1
    /\ FailWith(reason)
    /\ UNCHANGED <<api, queued, mem, pending, armed, cluster>>

\* A stage that goes on without touching the object or the cluster.
StageSucceeds(next) ==
    /\ Continue(next)
    /\ UNCHANGED <<api, queued, mem, pending, armed, cluster, faults>>

\* A stage that has to wait for something outside the operator and asks for a requeue.
StageWaits ==
    /\ faults < MaxFaults
    /\ faults' = faults + 1
    /\ RequeueAfter
    /\ UNCHANGED <<api, queued, mem, pending, armed, cluster>>

-----------------------------------------------------------------------------
(* The stages of Reconcile, in order.                                      *)

\* AerospikeClusterReconciler.Reconcile: fetch the object; a fresh
\* SingleClusterReconciler carries nothing over from an earlier pass.
StartPass ==
    /\ pc = "idle"
    /\ queued
    /\ queued' = FALSE
    /\ IF api.exists
       THEN /\ mem' = api
            /\ pc' = IF api.deleting THEN "terminate" ELSE "initConds"
       ELSE UNCHANGED <<mem, pc>>
    /\ UNCHANGED <<api, pending, armed, err, requeue, cluster, faults>>

\* handleTerminatingCluster, first half: a failed patch is only logged.
SetTerminating ==
    LET conds == SetReady(mem.conds, "False", "Terminating")
    IN  /\ pc = "terminate"
        /\ \E o \in Outcomes : MergePatchStatus(o, mem.phase, conds)
        /\ Continue("deletion")
        /\ UNCHANGED <<queued, pending, armed, cluster>>

\* Mutant: a conflict of the final update is taken for success.
DeletionIgnoresConflict ==
    /\ pc = "deletion"
    /\ \E o \in Outcomes :
         /\ CountFault(o)
         /\ api' = IF Applied(o) /\ api = mem THEN [api EXCEPT !.exists = FALSE] ELSE api
         /\ Continue("finish")
         /\ pvc' = FALSE
         /\ UNCHANGED <<queued, mem, pending, armed, work, workGen, sts, pods>>

\* handleClusterDeletion: remove the PVCs, then update the object without the finalizer.
\* The update carries the resourceVersion in memory, so it conflicts when a write of
\* SetTerminating took effect and its answer was lost.
HandleClusterDeletion ==
    /\ pc = "deletion"
    /\ \/ StageFails("ReconcileFailed")
       \/ \E o \in Outcomes :
            LET applied == Applied(o) /\ api = mem
            IN  /\ CountFault(o)
                /\ api' = IF applied THEN [api EXCEPT !.exists = FALSE] ELSE api
                /\ IF applied /\ o = "ok" THEN Continue("finish") ELSE FailWith("ReconcileFailed")
                /\ pvc' = FALSE
                /\ UNCHANGED <<queued, mem, pending, armed, work, workGen, sts, pods>>

\* initializeConditionsIfNeeded: seeds every condition of an object that has none.
InitializeConditionsIfNeeded ==
    LET seeded == SetFlags(SetReady(mem.conds, "Unknown", "Initializing"), Flags, "False")
    IN  /\ pc = "initConds"
        /\ PatchStage(mem.phase, IF mem.conds = NoConditions THEN seeded ELSE mem.conds,
                      "checkPaused", "ReconcileFailed")
        /\ UNCHANGED pending

\* The pause check: a paused object gets Paused=True and the pass ends there; any other
\* one gets Paused=False and the pass goes on.
CheckPaused ==
    /\ pc = "checkPaused"
    /\ IF mem.paused
       THEN PatchStage(mem.phase, SetFlags(mem.conds, {"Paused"}, "True"),
                       "finish", "ReconcileFailed")
       ELSE PatchStage(mem.phase, SetFlags(mem.conds, {"Paused"}, "False"),
                       "markInProgress", "ReconcileFailed")
    /\ UNCHANGED pending

\* phase=InProgress and Ready=False, unless the object is in the error phase.
MarkInProgress ==
    /\ pc = "markInProgress"
    /\ IF mem.phase = "Error"
       THEN PatchStage(mem.phase, mem.conds, "addFinalizer", "ReconcileFailed")
       ELSE PatchStage("InProgress", SetReady(mem.conds, "False", "Reconciling"),
                       "addFinalizer", "ReconcileFailed")
    /\ UNCHANGED pending

\* Mutant: a failure to add the finalizer is only logged.
AddFinalizerLogged ==
    /\ pc = "addFinalizer"
    /\ \E o \in Outcomes :
         /\ CountFault(o)
         /\ api' = IF Applied(o) THEN [api EXCEPT !.finalizer = TRUE] ELSE api
         /\ mem' = IF Answered(o) THEN api' ELSE mem
    /\ Continue("checkFailed")
    /\ UNCHANGED <<queued, pending, armed, cluster>>

\* addFinalizer: the answer of the patch replaces the whole object in memory, spec included.
AddFinalizer ==
    /\ pc = "addFinalizer"
    /\ IF mem.finalizer THEN StageSucceeds("checkFailed")
       ELSE /\ \E o \in Outcomes :
                 /\ CountFault(o)
                 /\ api' = IF Applied(o) THEN [api EXCEPT !.finalizer = TRUE] ELSE api
                 /\ IF Answered(o) THEN mem' = api' /\ Continue("checkFailed")
                    ELSE mem' = mem /\ FailWith("ClusterSetupFailed")
            /\ UNCHANGED <<queued, pending, armed, cluster>>

\* recoverFailedCreate: delete every StatefulSet, then every PVC.  It always ends the pass
\* with an error; a failure half way leaves the PVCs behind.
RecoverFailedCreate ==
    /\ sts' = FALSE
    /\ pods' = "none"
    /\ \/ pvc' = FALSE /\ UNCHANGED faults
       \/ faults < MaxFaults /\ faults' = faults + 1 /\ UNCHANGED pvc
    /\ queued' = TRUE
    /\ FailWith("ClusterSetupFailed")
    /\ UNCHANGED <<api, mem, pending, armed, work, workGen>>

\* Mutant: the pods are looked at whether or not the status is empty.
CheckPreviouslyFailedIgnoresStatus ==
    /\ pc = "checkFailed"
    /\ \/ ~sts /\ StageSucceeds("headlessSvc")
       \/ sts /\ pods \notin {"none", "failed"} /\ StageSucceeds("headlessSvc")
       \/ sts /\ pods \in {"none", "failed"} /\ RecoverFailedCreate

\* checkPreviouslyFailedCluster.  createStatus re-reads the object and updates its status
\* unchanged, but for an empty pod map.
CheckPreviouslyFailedCluster ==
    /\ pc = "checkFailed"
    /\ \/ StageFails("ClusterSetupFailed")
       \/ mem.statusGen # 0 /\ StageSucceeds("headlessSvc")
       \/ mem.statusGen = 0 /\ ~sts /\ StageSucceeds("headlessSvc")
       \/ mem.statusGen = 0 /\ sts /\ pods \in {"starting", "ready"} /\ StageSucceeds("headlessSvc")
       \/ /\ mem.statusGen = 0 /\ sts /\ pods = "inGrace"
          /\ RequeueAfter
          /\ UNCHANGED <<api, queued, mem, pending, armed, cluster, faults>>
       \/ mem.statusGen = 0 /\ sts /\ pods \in {"none", "failed"} /\ RecoverFailedCreate

\* createOrUpdateSTSHeadlessSvc, then initPendingOpConditionReset: from here on this pass
\* owns the operation conditions.  A generation the racks were not yet compared with brings
\* some number of batches of each operation.
CreateHeadlessSvc ==
    /\ pc = "headlessSvc"
    /\ \/ StageFails("ServiceReconcileFailed")
       \/ /\ Continue("failedPods")
          /\ pending' = Ops
          /\ armed' = TRUE
          /\ workGen' = mem.gen
          /\ IF workGen = mem.gen THEN UNCHANGED work
             ELSE work' \in [Ops -> 0 .. MaxBatches]
          /\ UNCHANGED <<api, queued, mem, sts, pods, pvc, faults>>

\* reconcileRacks up to the rack loop: reconcileCheckpointingPods may wait;
\* handleFailedPodsForAllRacks reconciles the racks of failed pods (RunOperation below),
\* force-restarts the pods that stay failed, and asks for a requeue.
HandleFailedPods ==
    /\ pc = "failedPods"
    /\ \/ StageFails("RackReconcileFailed")
       \/ StageWaits
       \/ pods # "failed" /\ StageSucceeds("markRacks")
       \/ /\ pods = "failed"
          /\ pods' = "starting"
          /\ RequeueAfter
          /\ UNCHANGED <<api, queued, mem, pending, armed, work, workGen, sts, pvc, faults>>

\* reconcileRacks: the racks' pods are not failed, so the phase goes back to InProgress.
MarkRacksInProgress ==
    /\ pc = "markRacks"
    /\ PatchStage("InProgress", SetReady(mem.conds, "False", "Reconciling"),
                  "racks", "RackReconcileFailed")
    /\ UNCHANGED pending

\* createEmptyRack for racks that have no StatefulSet.
CreateEmptyRack ==
    /\ pc = "racks"
    /\ ~sts
    /\ sts' = TRUE
    /\ UNCHANGED <<api, queued, pc, mem, pending, armed, err, requeue,
                   work, workGen, pods, pvc, faults>>

\* The operation the rack loop is at: the first one with batches left.
Current(op) ==
    \E i \in DOMAIN OpSeq :
        /\ OpSeq[i] = op
        /\ work[op] > 0
        /\ \A j \in 1 .. (i - 1) : work[OpSeq[j]] = 0

InRackLoop == (pc = "racks" /\ sts) \/ (pc = "failedPods" /\ pods = "failed" /\ sts)

\* An operation starts by setting its condition True, which claims it.
ClaimOperation(op) ==
    /\ InRackLoop
    /\ Current(op)
    /\ op \in pending
    /\ PatchStage(mem.phase, SetFlags(mem.conds, {op}, "True"), pc, "RackReconcileFailed")
    /\ pending' = pending \ {op}

\* Mutant: a batch counted twice.
RunOperationTwice(op) ==
    /\ InRackLoop
    /\ Current(op)
    /\ op \notin pending
    /\ work' = [work EXCEPT ![op] = @ - 2]
    /\ IF work[op] > 1 THEN RequeueAfter ELSE Continue(pc)
    /\ UNCHANGED <<api, queued, mem, pending, armed, workGen, sts, pods, pvc, faults>>

\* One batch of a claimed operation; a requeue follows while batches are left.
RunOperation(op) ==
    /\ InRackLoop
    /\ Current(op)
    /\ op \notin pending
    /\ work' = [work EXCEPT ![op] = @ - 1]
    /\ IF work[op] > 1 THEN RequeueAfter ELSE Continue(pc)
    /\ UNCHANGED <<api, queued, mem, pending, armed, workGen, sts, pods, pvc, faults>>

\* The rack loop fails, or waits for something (a pod to terminate, migrations).
FailRackLoop ==
    /\ pc = "racks"
    /\ StageFails("RackReconcileFailed") \/ StageWaits

\* waitForAllRacksReady, after the last operation.
WaitForAllRacksReady ==
    /\ pc = "racks"
    /\ sts
    /\ \A op \in Ops : work[op] = 0
    /\ \/ pods = "ready" /\ Continue("postRacks")
       \/ pods \in {"none", "starting", "inGrace"} /\ RequeueAfter
       \/ pods = "failed" /\ FailWith("RackReconcileFailed")
    /\ UNCHANGED <<api, queued, mem, pending, armed, cluster, faults>>

\* reconcilePDB, reconcileSTSLoadBalancerSvc, getIgnorablePods, newAllHostConnWithOption,
\* undoQuiesceState: none of them touches the modelled state.
PostRackStages ==
    /\ pc = "postRacks"
    /\ StageFails("PostRackFailed") \/ StageSucceeds("acl")

\* validateAndReconcileAccessControl.  With security disabled it does nothing; otherwise
\* updateAccessControlStatus re-reads the object and patches the status from memory to it,
\* so memory takes over the phase and the conditions of the re-read object.
ReconcileAccessControl ==
    /\ pc = "acl"
    /\ \/ StageFails("ACLReconcileFailed")
       \/ StageSucceeds("roster")
       \/ /\ mem' = [mem EXCEPT !.phase = api.phase, !.statusGen = api.statusGen,
                                !.conds = api.conds]
          /\ Continue("roster")
          /\ UNCHANGED <<api, queued, pending, armed, cluster, faults>>

\* revertMFDToConfig, recluster and ensureSCRoster, which may wait for cluster stability.
EnsureSCRoster ==
    /\ pc = "roster"
    /\ StageFails("RosterSetFailed") \/ StageWaits \/ StageSucceeds("updateStatus")

\* Mutants of the object updateStatus builds: the operation conditions are not cleared; the
\* status takes the re-read spec.
UpdatedObjectKeepsOps ==
    [api EXCEPT !.phase = "Completed", !.statusGen = mem.gen,
                !.conds = SetReady(mem.conds, "True", "ReconcileComplete")]

UpdatedObjectNewSpec ==
    [api EXCEPT !.phase = "Completed", !.statusGen = api.gen,
                !.conds = SetFlags(SetReady(mem.conds, "True", "ReconcileComplete"),
                                   Ops, "False")]

\* The object updateStatus builds: the one just re-read, with the spec in memory copied to
\* its status, phase Completed, and the conditions in memory with Ready=True and every
\* operation condition at rest.
UpdatedObject ==
    [api EXCEPT !.phase = "Completed",
                !.statusGen = mem.gen,
                !.conds = SetFlags(SetReady(mem.conds, "True", "ReconcileComplete"),
                                   Ops, "False")]

\* updateStatus.  The object it built, with a generation that may be newer than the one
\* this pass worked on, becomes the object in memory.
UpdateStatus ==
    /\ pc = "updateStatus"
    /\ \E o \in Outcomes :
         /\ CountFault(o)
         /\ api' = IF Applied(o) THEN JSONPatched(UpdatedObject) ELSE api
         /\ IF Answered(o) THEN mem' = UpdatedObject /\ Continue("recoverIgnorable")
            ELSE mem' = mem /\ FailWith("StatusUpdateFailed")
    /\ UNCHANGED <<queued, pending, armed, cluster>>

\* recoverIgnorablePods, when there are ignorable pods: failed ones are deleted and waited
\* for; every outcome but pods that failed again asks for a requeue.
RecoverIgnorablePods ==
    /\ pc = "recoverIgnorable"
    /\ \/ StageFails("ReconcileFailed")
       \/ StageSucceeds("finish")
       \/ /\ RequeueAfter
          /\ UNCHANGED <<api, queued, mem, pending, armed, cluster, faults>>

\* Mutants: a pass that never armed clears everything; a claim is not respected.
ClearWhenUnarmed == IF armed THEN pending ELSE Ops
ClearClaimed == IF armed THEN Ops ELSE {}

\* opConditionsToClear: an unarmed pass clears nothing.
OpConditionsToClear == IF armed THEN pending ELSE {}

\* Mutant: a failed pass sets the phase only.
TerminalConditionsPhaseOnly ==
    CASE err # NoErr -> mem.conds
      [] err = NoErr /\ mem.deleting -> mem.conds
      [] OTHER -> SetFlags(mem.conds, OpConditionsToClear, "False")

\* The phase and conditions writeTerminalStatus writes: a failed pass names its reason and
\* keeps the operation conditions; any other one resets those that nothing claimed.
TerminalPhase == IF err # NoErr THEN "Error" ELSE mem.phase

TerminalConditions ==
    CASE err # NoErr -> SetReady(mem.conds, "False", err)
      [] err = NoErr /\ mem.deleting -> mem.conds
      [] OTHER -> SetFlags(mem.conds, OpConditionsToClear, "False")

\* What a pass leaves behind: nothing but the request it asked for.
EndPass ==
    /\ pc' = "idle"
    /\ mem' = NewObject
    /\ pending' = {}
    /\ armed' = FALSE
    /\ err' = NoErr
    /\ requeue' = FALSE
    /\ UNCHANGED cluster

\* Mutant: an error of the pass is logged and not returned.
FinishReconcileSwallowsError ==
    /\ pc = "finish"
    /\ api' = MergePatched(TerminalPhase, TerminalConditions)
    /\ queued' = (queued \/ requeue)
    /\ EndPass
    /\ UNCHANGED faults

\* finishReconcile and the controller's reaction to what Reconcile returns: an error, one of
\* writeTerminalStatus included, or a requeue puts the request back on the queue.
FinishReconcile ==
    LET unchanged == Unchanged(TerminalPhase, TerminalConditions)
    IN  /\ pc = "finish"
        /\ \E o \in Outcomes :
             /\ unchanged => o = "ok"
             /\ CountFault(o)
             /\ api' = IF unchanged \/ ~Applied(o) THEN api
                       ELSE MergePatched(TerminalPhase, TerminalConditions)
             /\ queued' = (\/ queued \/ requeue \/ err # NoErr
                           \/ ~MergePatchOK(o, TerminalPhase, TerminalConditions))
        /\ EndPass

\* The operator stops in the middle of a pass; on its restart every object is queued.
Crash ==
    /\ pc # "idle"
    /\ faults < MaxFaults
    /\ faults' = faults + 1
    /\ queued' = TRUE
    /\ EndPass
    /\ UNCHANGED api

-----------------------------------------------------------------------------
(* The rest of the world.                                                  *)

pass == <<pc, mem, pending, armed, err, requeue>>

\* A change of the spec, spec.paused included; the generation passes the event filter.
UserEdit ==
    /\ api.exists
    /\ ~api.deleting
    /\ api.gen < MaxGen
    /\ \E paused \in BOOLEAN : api' = [api EXCEPT !.gen = @ + 1, !.paused = paused]
    /\ queued' = TRUE
    /\ UNCHANGED <<pass, cluster, faults>>

\* kubectl delete: the object goes at once, or waits for the operator's finalizer.
UserDelete ==
    /\ api.exists
    /\ ~api.deleting
    /\ api' = IF api.finalizer THEN [api EXCEPT !.deleting = TRUE]
              ELSE [api EXCEPT !.exists = FALSE]
    /\ queued' = TRUE
    /\ UNCHANGED <<pass, cluster, faults>>

\* The StatefulSet controller creates the pods, and a PVC for each of their volumes.
PodsCreate ==
    /\ sts
    /\ pods = "none"
    /\ pods' = "starting"
    /\ pvc' = TRUE
    /\ UNCHANGED <<api, queued, pass, work, workGen, sts, faults>>

\* Starting pods become ready; pods in their failure grace period recover or fail for good.
PodsSettle ==
    /\ \/ pods = "starting" /\ pods' = "ready"
       \/ pods = "inGrace" /\ pods' \in {"ready", "failed"}
    /\ UNCHANGED <<api, queued, pass, work, workGen, sts, pvc, faults>>

PodsFail ==
    /\ pods \in {"starting", "ready"}
    /\ faults < MaxFaults
    /\ faults' = faults + 1
    /\ pods' = "inGrace"
    /\ UNCHANGED <<api, queued, pass, work, workGen, sts, pvc>>

\* Kubernetes removes the StatefulSets and pods, which the object owned, after it is gone.
GarbageCollect ==
    /\ ~api.exists
    /\ sts
    /\ sts' = FALSE
    /\ pods' = "none"
    /\ UNCHANGED <<api, queued, pass, work, workGen, pvc, faults>>

PassStep ==
    \/ StartPass \/ SetTerminating \/ HandleClusterDeletion \/ InitializeConditionsIfNeeded
    \/ CheckPaused \/ MarkInProgress \/ AddFinalizer \/ CheckPreviouslyFailedCluster
    \/ CreateHeadlessSvc \/ HandleFailedPods \/ MarkRacksInProgress \/ CreateEmptyRack
    \/ \E op \in Ops : ClaimOperation(op) \/ RunOperation(op)
    \/ FailRackLoop \/ WaitForAllRacksReady \/ PostRackStages \/ ReconcileAccessControl
    \/ EnsureSCRoster \/ UpdateStatus \/ RecoverIgnorablePods \/ FinishReconcile

Next ==
    \/ PassStep \/ Crash
    \/ UserEdit \/ UserDelete
    \/ PodsCreate \/ PodsSettle \/ PodsFail \/ GarbageCollect

Spec == Init /\ [][Next]_vars

\* The manager keeps running passes while requests are queued and Kubernetes keeps acting.
\* PodsCreate needs strong fairness: recovery of a failed create may delete the StatefulSets
\* before their controller acted on them, but not every time.
FairSpec == Spec /\ WF_vars(PassStep) /\ SF_vars(PodsCreate) /\ WF_vars(PodsSettle)
                 /\ WF_vars(GarbageCollect)

-----------------------------------------------------------------------------
(* Properties.                                                             *)

IsReady == api.conds.ready.status = "True"

\* Ready=True and an operation condition that is True are never observed together: updateStatus
\* clears the operation conditions in the same patch that sets Ready, and every stage that
\* claims one runs after Ready was set False.
ReadyImpliesAtRest ==
    IsReady => \A op \in Ops : api.conds.flag[op].status # "True"

\* Ready=True with observed generation g means that the racks were compared with the spec of
\* generation g, every batch that took has run, and that spec is the one the status holds.
ReadyMeansApplied ==
    IsReady => /\ api.statusGen = api.conds.ready.gen
               /\ workGen = api.conds.ready.gen
               /\ \A op \in Ops : work[op] = 0

\* The phase and the Ready condition say the same although different stages write them, from
\* memory: Ready=True goes with Completed, and Completed with Ready=True until deletion.
PhaseAgreesWithReady ==
    /\ IsReady => api.phase = "Completed"
    /\ api.phase = "Completed" => IsReady \/ api.deleting

\* An object whose StatefulSets or volumes exist carries the finalizer, so that it cannot go
\* away without a pass of handleClusterDeletion.
FinalizerGuardsResources ==
    api.exists /\ (sts \/ pvc) => api.finalizer

\* No answer of a write of this pass was lost (nor is there a pass between two of them).
Informed == mem.conds = api.conds

\* A pass that has not reached the rack loop, and one that ends because of spec.paused or a
\* deletion, leaves every operation condition as it was; only seeding creates them.
FrozenUnlessArmed ==
    [][~armed /\ Informed
       => \A op \in Ops : \/ api'.conds.flag[op] = api.conds.flag[op]
                          \/ api.conds.flag[op].status = ""]_vars

\* A condition claimed in this pass stops reporting only together with Ready=True, and no pass
\* that failed stops any operation condition from reporting.
ClaimedKeepsReporting ==
    [][\A op \in Ops :
         Informed /\ api.conds.flag[op].status = "True" /\ api'.conds.flag[op].status # "True"
         => /\ err = NoErr
            /\ op \in pending \/ api'.conds.ready.status = "True"]_vars

\* The StatefulSets of a live object are deleted only to recover its first create: never once
\* its status was filled, and never while a pod is healthy or in its grace period.
RecreateOnlyFailedCreate ==
    [][api.exists /\ sts /\ ~sts' => /\ api.statusGen = 0
                                   /\ pods \in {"none", "failed"}]_vars

\* The generations the status reports never go back, although a pass stamps them from memory
\* and the spec changes under it.
ObservedGenerationMonotone ==
    [][/\ api'.statusGen >= api.statusGen
       /\ Informed => /\ api'.conds.ready.gen >= api.conds.ready.gen
                      /\ \A c \in Flags : api'.conds.flag[c].gen >= api.conds.flag[c].gen]_vars

\* Once edits and faults stop, an object that is neither paused nor deleted keeps coming back
\* to Ready=True at its current generation (recoverable pods may keep requeueing passes).
Converges ==
    []<>(\/ ~api.exists \/ api.deleting \/ api.paused
         \/ IsReady /\ api.conds.ready.gen = api.gen)

\* A deleted object goes away, whatever failed on the way.
DeletionCompletes == api.deleting ~> ~api.exists

-----------------------------------------------------------------------------
(* What comments of the code say, and the code does not always do.         *)

\* "so an operation still in flight keeps reporting" (reconciler.go:44-45): an operation
\* condition is cleared only when none of its batches is left.  A pass that asks for a requeue
\* ahead of the rack where the operation is in flight clears its condition.
OperationKeepsReporting ==
    [][\A op \in Ops :
         api.conds.flag[op].status = "True" /\ api'.conds.flag[op].status # "True"
         => work[op] = 0]_vars

=============================================================================
