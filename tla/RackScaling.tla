----------------------------- MODULE RackScaling -----------------------------
(***************************************************************************)
(* Scaling one rack up and down: reconcileRack, scaleDownRack, scaleUpRack *)
(* and the recovery of failed pods of internal/controller/cluster/rack.go, *)
(* cleanupPods and cleanupDanglingPodsRack of pod.go.                      *)
(*                                                                         *)
(* With enableParallelScaleDownAcrossRacks, parallel_scaledown.go first    *)
(* restores the pods an earlier pass quiesced and this one keeps, and      *)
(* quiesces all pods that exceed the size, whatever the size of a batch.   *)
(*                                                                         *)
(* The rack is one StatefulSet and is the whole cluster.  A pod is known   *)
(* by its ordinal.  A pass picks a batch of pods from a listing, waits for *)
(* the cluster to be safe without them, lowers spec.replicas, waits again, *)
(* and removes what the pods left: their PVCs, then their entries of       *)
(* status.pods.  Between two of these steps the StatefulSet controller     *)
(* creates and deletes pods, pods start and fail, the user changes the     *)
(* size, and the operator crashes.                                         *)
(*                                                                         *)
(* Abstractions: no upgrade or restart of a healthy pod is due; sidecars   *)
(* are left out; maxIgnorablePods is 0; scaleDownBatchSize is a number; a  *)
(* wait that polls is one step that succeeds or times out; a pod has one   *)
(* PVC; the migrations an Aerospike cluster runs are not represented; the  *)
(* user does not turn the parallel quiesce on or off.                      *)
(***************************************************************************)
EXTENDS Integers, FiniteSets

CONSTANTS
    MaxPods,             \* bound: size of the rack
    ScaleDownBatchSize,  \* rackConfig.scaleDownBatchSize
    MaxEdits,            \* bound: changes of the size by the user
    MaxFaults,           \* bound: failed waits, failing or evicted pods, crashes, dead partitions
    MaxParallelFaults    \* the same with the parallel quiesce, whose pass has more steps

ASSUME ScalingAssumption ==
    /\ MaxPods \in Nat \ {0}
    /\ ScaleDownBatchSize \in Nat
    /\ MaxEdits \in Nat
    /\ MaxFaults \in Nat
    /\ MaxParallelFaults \in 0 .. MaxFaults

VARIABLES
    parallel,  \* rackConfig.enableParallelScaleDownAcrossRacks
    size,      \* the size of the rack in the spec
    replicas,  \* spec.replicas of the StatefulSet
    pod,       \* the pods of the StatefulSet, by ordinal
    vol,       \* the PVC of each ordinal
    status,    \* the ordinals with an entry in status.pods
    quiesced,  \* the pods whose server is quiesced
    marked,    \* the pods with the quiesce annotation
    dead,      \* the removed pods whose data some partition is unavailable without
    stale,     \* history: the volumes left by pods that were cluster members when they were removed
    pc,        \* the step the pass is about to take; "idle" between passes
    queued,    \* a reconcile request is queued
    target,    \* rackState.Size of the pass
    known,     \* r.aeroCluster.Status.Pods as the pass read it
    targets,   \* allTargets of the parallel quiesce
    batch,     \* podsBatch
    anyReady,  \* isAnyPodRunningAndReady
    ignorable, \* ignorablePodNames
    failing,   \* the pass runs for server-failed pods (podFailure is not nil)
    clean,     \* the argument podNames of the cleanupPods call in progress
    resume,    \* the step that follows that call
    shifted,   \* history: targets or a batch were picked from a listing with a pod missing or one too many
    edits,     \* changes of the size so far
    faults     \* faults so far

rack == <<replicas, pod, vol, status, quiesced, marked, dead, stale>>

pass == <<pc, queued, target, known, targets, batch, anyReady, ignorable, failing, clean, resume, shifted>>

vars == <<parallel, size, rack, pass, edits, faults>>

Ordinals == 0 .. MaxPods - 1

PodStates == {"absent", "starting", "ready", "failed", "terminating"}

VolumeStates == {"none", "bound", "terminating"}

PCs == {"idle", "undo", "quiesce", "rack", "safe", "migrate", "cut", "wait", "validate",
        "volumes", "status", "raise", "tail", "restart", "ready"}

(***************************************************************************)
(* Types: the sizes stay within the largest size the user asked for, which *)
(* no scale-up, and no return to the size before a failed scale-down,      *)
(* exceeds.                                                                *)
(***************************************************************************)
TypeOK ==
    /\ parallel \in BOOLEAN
    /\ size \in 1 .. MaxPods
    /\ replicas \in 0 .. MaxPods
    /\ pod \in [Ordinals -> PodStates]
    /\ vol \in [Ordinals -> VolumeStates]
    /\ status \subseteq Ordinals
    /\ quiesced \subseteq Ordinals
    /\ marked \subseteq Ordinals
    /\ dead \subseteq Ordinals
    /\ stale \subseteq Ordinals
    /\ pc \in PCs
    /\ queued \in BOOLEAN
    /\ target \in 0 .. MaxPods
    /\ known \subseteq Ordinals
    /\ targets \subseteq Ordinals
    /\ batch \subseteq Ordinals
    /\ anyReady \in BOOLEAN
    /\ ignorable \subseteq Ordinals
    /\ failing \in BOOLEAN
    /\ clean \subseteq Ordinals
    /\ resume \in PCs
    /\ shifted \in BOOLEAN
    /\ edits \in 0 .. MaxEdits
    /\ faults \in 0 .. MaxFaults

(* A cluster at rest, of any size. *)
Init ==
    /\ parallel \in BOOLEAN
    /\ size \in 1 .. MaxPods
    /\ replicas = size
    /\ pod = [k \in Ordinals |-> IF k < size THEN "ready" ELSE "absent"]
    /\ vol = [k \in Ordinals |-> IF k < size THEN "bound" ELSE "none"]
    /\ status = 0 .. size - 1
    /\ quiesced = {} /\ marked = {} /\ dead = {} /\ stale = {}
    /\ pc = "idle" /\ queued = FALSE /\ target = 0 /\ known = {} /\ targets = {}
    /\ batch = {} /\ anyReady = FALSE /\ ignorable = {} /\ failing = FALSE
    /\ clean = {} /\ resume = "idle" /\ shifted = FALSE
    /\ edits = 0 /\ faults = 0

CountFault ==
    /\ faults < (IF parallel THEN MaxParallelFaults ELSE MaxFaults)
    /\ faults' = faults + 1

-----------------------------------------------------------------------------
(* What the pass observes. *)

Listed == {k \in Ordinals : pod[k] # "absent"}

Smaller(a, b) == IF a < b THEN a ELSE b

(* getOrderedRackPodList: refuses a listing in which an ordinal is not below its length. *)
OrderedListing == \A k \in Listed : k < Cardinality(Listed)

FailedPods == {k \in Ordinals : pod[k] = "failed"}

(* waitForSTSPodsServerReady, with waitForSTSReplicasConverged. *)
ServersReady ==
    /\ \A k \in Ordinals : k < replicas /\ k \notin ignorable => pod[k] = "ready"
    /\ Cardinality(Listed) = replicas

(* newAllHostConnWithOption: pods that terminate are skipped, the others must be running. *)
HostConns == {k \in Ordinals : pod[k] = "ready"}

AllReachable ==
    /\ HostConns # {}
    /\ \A k \in Listed : pod[k] \in {"ready", "terminating"} \/ k \in ignorable

-----------------------------------------------------------------------------
(* The pass. *)

(* A pass is over; what it held in memory goes with it. *)
EndPass ==
    /\ pc' = "idle"
    /\ target' = 0 /\ known' = {} /\ targets' = {} /\ batch' = {} /\ anyReady' = FALSE /\ ignorable' = {}
    /\ failing' = FALSE /\ clean' = {} /\ resume' = "idle"
    /\ UNCHANGED shifted

(* The pass returns an error or asks for a requeue; the request stays in the queue. *)
Requeue ==
    /\ EndPass
    /\ queued' = TRUE

Goto(next) ==
    /\ pc' = next
    /\ UNCHANGED <<queued, target, known, targets, batch, anyReady, ignorable, failing, clean, resume, shifted>>

(* cleanupPods(podNames): with no name it does nothing. *)
CleanupPods(names, next) ==
    /\ pc' = IF names = {} THEN next ELSE "volumes"
    /\ clean' = names
    /\ resume' = next
    /\ UNCHANGED <<queued, target, known, targets, batch, anyReady, ignorable, failing, shifted>>

(* mutant: the last pod of the StatefulSet counts as dangling *)
DanglingPodsOffByOne == {k \in known : k >= replicas - 1}

(* cleanupDanglingPodsRack: what status.pods, as the pass read it, has beyond the StatefulSet. *)
DanglingPods == {k \in known : k >= replicas}

(* A wait is over: what it waits for holds, or it timed out. *)
WaitSucceeds(cond) == cond /\ UNCHANGED faults

WaitFails(cond) ==
    \/ ~cond /\ UNCHANGED faults
    \/ cond /\ CountFault

(***************************************************************************)
(* The head of reconcileRacks: read the object, list the pods; with        *)
(* server-failed pods, handleFailedPodsInRack calls reconcileRack for them.*)
(***************************************************************************)
StartPass ==
    /\ pc = "idle" /\ queued
    /\ IF OrderedListing
       THEN /\ target' = size
            /\ known' = status
            /\ failing' = (FailedPods # {})
            /\ pc' = IF parallel /\ ~failing' THEN "undo" ELSE "rack"
            /\ queued' = FALSE
            /\ UNCHANGED <<targets, batch, anyReady, ignorable, clean, resume, shifted>>
       ELSE Requeue
    /\ UNCHANGED <<parallel, size, rack, edits, faults>>

(* setPodQuiesceAnnotation on each of the pods: one that fails is only logged. *)
SetPodQuiesceAnnotation(pods, add) ==
    LET Marked(done) == IF add THEN marked \cup done ELSE marked \ done
    IN  \/ marked' = Marked(pods) /\ UNCHANGED faults
        \/ \E k \in pods : marked' = Marked(pods \ {k}) /\ CountFault

(* getAllScaleDownPods: the first of the listed pods, all that exceed the size. *)
ScaleDownTargets ==
    LET n == Cardinality(Listed)
    IN  IF replicas > target THEN n - (replicas - target) .. n - 1 ELSE {}

(* mutant: a pod that is no longer to be removed stays quiesced *)
ReconcileQuiesceUndoSkipped ==
    /\ pc = "undo"
    /\ IF replicas > target /\ (~OrderedListing \/ replicas - target > Cardinality(Listed))
       THEN Requeue
       ELSE /\ targets' = ScaleDownTargets
            /\ pc' = IF ScaleDownTargets \subseteq marked THEN "rack" ELSE "quiesce"
            /\ shifted' = (shifted \/ (targets' # {} /\ Cardinality(Listed) # replicas))
            /\ UNCHANGED <<queued, target, known, batch, anyReady, ignorable, failing, clean, resume>>
    /\ UNCHANGED <<parallel, size, rack, edits, faults>>

(***************************************************************************)
(* buildScaleDownTargets, where a listing shorter than the excess panics,  *)
(* reconcileQuiesceUndo, and the fast exit of the quiesce: when all its    *)
(* targets are annotated nothing is asked of the servers.                  *)
(***************************************************************************)
ReconcileQuiesceUndo ==
    /\ pc = "undo"
    /\ LET undo == (marked \cap Listed) \ ScaleDownTargets
           next == IF ScaleDownTargets \subseteq marked THEN "rack" ELSE "quiesce"
           Proceed == /\ targets' = ScaleDownTargets
                      /\ pc' = next
                      /\ shifted' = (shifted \/ (targets' # {} /\ Cardinality(Listed) # replicas))
                      /\ UNCHANGED <<queued, target, known, batch, anyReady, ignorable, failing, clean, resume>>
       IN  IF replicas > target /\ (~OrderedListing \/ replicas - target > Cardinality(Listed))
           THEN Requeue /\ UNCHANGED <<quiesced, marked, faults>>
           ELSE IF undo = {} \/ \A k \in Listed : pod[k] = "terminating"
           THEN Proceed /\ UNCHANGED <<quiesced, marked, faults>>
           ELSE \/ /\ AllReachable
                   /\ quiesced' = quiesced \ undo
                   /\ SetPodQuiesceAnnotation(undo, FALSE)
                   /\ Proceed
                \/ /\ WaitFails(AllReachable)
                   /\ Requeue
                   /\ UNCHANGED <<quiesced, marked>>
    /\ UNCHANGED <<parallel, size, replicas, pod, vol, status, dead, stale, edits>>

Chunk == IF ScaleDownBatchSize = 0 THEN 1 ELSE ScaleDownBatchSize

(* mutant: the pods are listed in ascending order *)
PodsBatchAscending == 0 .. Smaller(Chunk, replicas - target) - 1

(* getPodsBatchList(batchSize, oldPodList[:diffPods])[0]: the first of the listed pods. *)
PodsBatch ==
    LET n == Cardinality(Listed)
        len == Smaller(Chunk, replicas - target)
    IN  n - len .. n - 1

(***************************************************************************)
(* scaleDownRack up to the safe-stop check.  A listing shorter than the    *)
(* excess makes the slice expression panic, which the controller turns     *)
(* into an error.  A pod that is not ready and has a status entry blocks   *)
(* the scale-down; one without an entry is taken to have never joined.     *)
(***************************************************************************)
SelectBatch ==
    /\ pc = "rack" /\ replicas > target
    /\ LET short == replicas - target > Cardinality(Listed)
           blocked == \E k \in PodsBatch : pod[k] # "ready" /\ k \in known
       IN  IF ~OrderedListing \/ short \/ blocked
           THEN Requeue
           ELSE /\ batch' = PodsBatch
                /\ anyReady' = (\E k \in PodsBatch : pod[k] = "ready")
                /\ ignorable' = {k \in PodsBatch : pod[k] # "ready"}
                /\ shifted' = (shifted \/ Cardinality(Listed) # replicas)
                /\ pc' = IF anyReady' THEN "safe" ELSE "migrate"
                /\ UNCHANGED <<queued, target, known, targets, failing, clean, resume>>
    /\ UNCHANGED <<parallel, size, rack, edits, faults>>

(* waitForMultipleNodesSafeStopReady, which refuses a cluster reduced to one reachable node. *)
SafeToStop(pods) ==
    /\ ServersReady
    /\ AllReachable
    /\ Cardinality(HostConns) < 2 => ignorable = {}
    /\ \A k \in pods \ ignorable : pod[k] = "ready"

(* quiescePods, its last step: the only node of a cluster is not quiesced. *)
QuiescePods(pods) ==
    quiesced' = quiesced \cup (IF Cardinality(HostConns) < 2 THEN {} ELSE pods \ ignorable)

WaitSafeStop ==
    /\ pc = "safe"
    /\ \/ WaitSucceeds(SafeToStop(batch)) /\ QuiescePods(batch) /\ Goto("migrate")
       \/ WaitFails(SafeToStop(batch)) /\ Requeue /\ UNCHANGED quiesced
    /\ UNCHANGED <<parallel, size, replicas, pod, vol, status, marked, dead, stale, edits>>

(* All pods that will go are quiesced at once, whatever the size of a batch. *)
ReconcileParallelScaleDownQuiesce ==
    /\ pc = "quiesce"
    /\ \/ /\ SafeToStop(targets)
          /\ QuiescePods(targets)
          /\ SetPodQuiesceAnnotation(targets, TRUE)
          /\ Goto("rack")
       \/ /\ WaitFails(SafeToStop(targets))
          /\ Requeue
          /\ UNCHANGED <<quiesced, marked>>
    /\ UNCHANGED <<parallel, size, replicas, pod, vol, status, dead, stale, edits>>

(* waitForMigrationToComplete *)
WaitMigration ==
    /\ pc = "migrate"
    /\ \/ WaitSucceeds(AllReachable) /\ Goto("cut")
       \/ WaitFails(AllReachable) /\ Requeue
    /\ UNCHANGED <<parallel, size, rack, edits>>

(* spec.replicas is lowered by the length of the batch. *)
CutReplicas ==
    /\ pc = "cut"
    /\ LET new == replicas - Cardinality(batch)
       IN  /\ replicas' = new
           /\ stale' = stale \cup {k \in status : k >= new /\ vol[k] # "none"}
    /\ IF anyReady THEN Goto("wait") ELSE CleanupPods(batch, "idle")
    /\ UNCHANGED <<parallel, size, quiesced, marked, pod, vol, status, dead, edits, faults>>

(* The pods that stay must be ready, and the removed ones gone, before the next check. *)
WaitRemoved ==
    /\ pc = "wait"
    /\ \/ WaitSucceeds(ServersReady) /\ Goto("validate")
       \/ WaitFails(ServersReady) /\ Requeue
    /\ UNCHANGED <<parallel, size, rack, edits>>

(* validateSCClusterState; when it fails the StatefulSet goes back to its previous size. *)
RollBack ==
    /\ dead # {}
    /\ replicas' = replicas + Cardinality(batch)
    /\ stale' = {k \in stale : k >= replicas + Cardinality(batch)}
    /\ Requeue
    /\ UNCHANGED <<pod, vol, status, quiesced, marked, dead>>

ValidateSCClusterState ==
    /\ pc = "validate"
    /\ \/ RollBack
       \/ dead = {} /\ CleanupPods(batch, "idle") /\ UNCHANGED rack
    /\ UNCHANGED <<parallel, size, quiesced, marked, edits, faults>>

(* removePVCs (cascadeDelete): delete the claims of the named pods. *)
RemovePVCs ==
    /\ pc = "volumes"
    /\ vol' = [k \in Ordinals |-> IF k \in clean /\ vol[k] = "bound" THEN "terminating" ELSE vol[k]]
    /\ Goto("status")
    /\ UNCHANGED <<parallel, size, quiesced, marked, replicas, pod, status, dead, stale, edits, faults>>

(* waitForPVCTermination, then cleanupPodMeshAndStatus *)
RemovePodStatus ==
    /\ pc = "status"
    /\ LET gone == \A k \in clean : vol[k] = "none"
       IN  \/ /\ WaitSucceeds(gone)
              /\ status' = status \ (clean \cap known)
              /\ IF resume = "idle" THEN Requeue ELSE Goto(resume)
           \/ /\ WaitFails(gone)
              /\ Requeue
              /\ UNCHANGED status
    /\ UNCHANGED <<parallel, size, quiesced, marked, replicas, pod, vol, dead, stale, edits>>

(* mutant: without the pre-check *)
ScaleUpUnchecked ==
    /\ pc = "rack" /\ replicas < target
    /\ IF ~OrderedListing \/ \E k \in Listed : k >= replicas /\ k < target
       THEN Requeue
       ELSE CleanupPods({}, "raise")
    /\ UNCHANGED <<parallel, size, rack, edits, faults>>

(***************************************************************************)
(* scaleUpRack up to the update: none of the pods to be launched may still *)
(* be there, and what earlier pods of the same name left is removed.       *)
(***************************************************************************)
ScaleUp ==
    /\ pc = "rack" /\ replicas < target
    /\ IF ~OrderedListing \/ \E k \in Listed : k >= replicas /\ k < target
       THEN Requeue
       ELSE CleanupPods(DanglingPods, "raise")
    /\ UNCHANGED <<parallel, size, rack, edits, faults>>

RaiseReplicas ==
    /\ pc = "raise"
    /\ replicas' = target
    /\ Goto("tail")
    /\ UNCHANGED <<parallel, size, quiesced, marked, pod, vol, status, dead, stale, edits, faults>>

(* The rack has its size; cleanupDanglingPodsRack ends reconcileRack. *)
RackSized ==
    /\ pc = "rack" /\ replicas = target
    /\ Goto("tail")
    /\ UNCHANGED <<parallel, size, rack, edits, faults>>

(* mutant: reconcileRack does not clean up after itself *)
CleanupDanglingSkipped ==
    /\ pc = "tail"
    /\ CleanupPods({}, IF failing THEN "restart" ELSE "ready")
    /\ UNCHANGED <<parallel, size, rack, edits, faults>>

CleanupDanglingPodsRack ==
    /\ pc = "tail"
    /\ CleanupPods(DanglingPods, IF failing THEN "restart" ELSE "ready")
    /\ UNCHANGED <<parallel, size, rack, edits, faults>>

(* handleFailedPodsInRack after reconcileRack: pods that still fail are deleted. *)
RestartFailedPods ==
    /\ pc = "restart"
    /\ pod' = IF OrderedListing
              THEN [k \in Ordinals |-> IF pod[k] = "failed" THEN "terminating" ELSE pod[k]]
              ELSE pod
    /\ Requeue
    /\ UNCHANGED <<parallel, size, quiesced, marked, replicas, vol, status, dead, stale, edits, faults>>

(* waitForAllRacksReady; a pass that comes here undoes every quiesce and clears the annotations. *)
WaitForAllRacksReady ==
    /\ pc = "ready"
    /\ \/ WaitSucceeds(ServersReady) /\ quiesced' = {} /\ marked' = {} /\ EndPass /\ UNCHANGED queued
       \/ WaitFails(ServersReady) /\ Requeue /\ UNCHANGED <<quiesced, marked>>
       \/ ServersReady /\ CountFault /\ quiesced' = {} /\ Requeue /\ UNCHANGED marked
    /\ UNCHANGED <<parallel, size, replicas, pod, vol, status, dead, stale, edits>>

(* The operator restarts; every object is reconciled when it comes up. *)
Crash ==
    /\ pc # "idle"
    /\ CountFault
    /\ Requeue
    /\ UNCHANGED <<parallel, size, rack, edits>>

-----------------------------------------------------------------------------
(* The user and Kubernetes. *)

UserScales ==
    /\ edits < MaxEdits
    /\ edits' = edits + 1
    /\ size' \in 1 .. MaxPods \ {size}
    /\ queued' = TRUE
    /\ UNCHANGED <<rack, parallel, pc, target, known, targets, batch, anyReady, ignorable, failing, clean, resume, shifted, faults>>

SetPod(k, s) == pod' = [pod EXCEPT ![k] = s]

(* The StatefulSet controller (Parallel policy) creates a missing pod, with its PVC if there is none. *)
PodCreated(k) ==
    /\ k < replicas /\ pod[k] = "absent" /\ vol[k] # "terminating"
    /\ SetPod(k, "starting")
    /\ vol' = [vol EXCEPT ![k] = "bound"]
    /\ UNCHANGED <<parallel, size, quiesced, marked, replicas, status, dead, stale, pass, edits, faults>>

(* The init container writes the pod's status entry, and the server joins the cluster. *)
PodJoins(k) ==
    /\ pod[k] = "starting"
    /\ SetPod(k, "ready")
    /\ status' = status \cup {k}
    /\ dead' = dead \ {k}
    /\ UNCHANGED <<parallel, size, quiesced, marked, replicas, vol, stale, pass, edits, faults>>

PodFails(k) ==
    /\ pod[k] \in {"starting", "ready"}
    /\ CountFault
    /\ SetPod(k, "failed")
    /\ quiesced' = quiesced \ {k}
    /\ UNCHANGED <<parallel, size, marked, replicas, vol, status, dead, stale, pass, edits>>

(* The kubelet restarts the containers of a failed pod. *)
PodRecovers(k) ==
    /\ pod[k] = "failed"
    /\ SetPod(k, "starting")
    /\ UNCHANGED <<parallel, size, quiesced, marked, replicas, vol, status, dead, stale, pass, edits, faults>>

(* A pod is evicted, or the node it runs on is drained. *)
PodEvicted(k) ==
    /\ pod[k] = "ready" /\ k < replicas
    /\ CountFault
    /\ SetPod(k, "terminating")
    /\ UNCHANGED <<parallel, size, quiesced, marked, replicas, vol, status, dead, stale, pass, edits>>

(* The StatefulSet controller deletes a pod beyond spec.replicas. *)
PodDeleted(k) ==
    /\ k >= replicas /\ pod[k] \in {"starting", "ready", "failed"}
    /\ SetPod(k, "terminating")
    /\ UNCHANGED <<parallel, size, quiesced, marked, replicas, vol, status, dead, stale, pass, edits, faults>>

(* The pod object disappears; the data of a removed member may be the last copy. *)
PodGone(k) ==
    /\ pod[k] = "terminating"
    /\ SetPod(k, "absent")
    /\ \/ UNCHANGED <<dead, faults>>
       \/ k \in stale /\ dead' = dead \cup {k} /\ CountFault
    /\ quiesced' = quiesced \ {k}
    /\ marked' = marked \ {k}
    /\ UNCHANGED <<parallel, size, replicas, vol, status, stale, pass, edits>>

(* PVC protection: a claim goes away once no pod uses it. *)
VolumeGone(k) ==
    /\ vol[k] = "terminating" /\ pod[k] = "absent"
    /\ vol' = [vol EXCEPT ![k] = "none"]
    /\ stale' = stale \ {k}
    /\ UNCHANGED <<parallel, size, quiesced, marked, replicas, pod, status, dead, pass, edits, faults>>

-----------------------------------------------------------------------------
PassStep ==
    \/ StartPass \/ ReconcileQuiesceUndo \/ ReconcileParallelScaleDownQuiesce
    \/ SelectBatch \/ WaitSafeStop \/ WaitMigration \/ CutReplicas
    \/ WaitRemoved \/ ValidateSCClusterState
    \/ RemovePVCs \/ RemovePodStatus
    \/ ScaleUp \/ RaiseReplicas \/ RackSized
    \/ CleanupDanglingPodsRack \/ RestartFailedPods \/ WaitForAllRacksReady

Progress(k) ==
    \/ PodCreated(k) \/ PodJoins(k) \/ PodRecovers(k)
    \/ PodDeleted(k) \/ PodGone(k) \/ VolumeGone(k)

Next ==
    \/ PassStep
    \/ Crash
    \/ UserScales
    \/ \E k \in Ordinals : Progress(k) \/ PodFails(k) \/ PodEvicted(k)

Spec == Init /\ [][Next]_vars

(***************************************************************************)
(* A queued request is worked on, and Kubernetes brings every pod and      *)
(* claim forward.  A pass that only waits may time out again and again     *)
(* while a pod starts, so each step of a pod is fair by itself.            *)
(***************************************************************************)
FairSpec ==
    /\ Spec
    /\ WF_vars(PassStep)
    /\ \A k \in Ordinals : WF_vars(Progress(k))

-----------------------------------------------------------------------------
(* Properties. *)

(***************************************************************************)
(* The volume of a member that was scaled away is gone before a pod of the *)
(* same name can be launched again, whatever failed in between: scaleUpRack*)
(* runs the dangling clean-up as its pre-check.                            *)
(***************************************************************************)
NoStaleVolume == \A k \in stale : k >= replicas

(***************************************************************************)
(* Once the user leaves the size alone and nothing fails any more, the     *)
(* rack gets the size and keeps it, every pod is ready and none quiesced,  *)
(* and no volume is left of the members that were removed.  The exception  *)
(* is a removal that left partitions dead and was not validated because    *)
(* its wait timed out: the next batch is removed, fails the check for the  *)
(* earlier one's partitions and is rolled back, again and again.           *)
(***************************************************************************)
AtRest ==
    /\ replicas = size
    /\ \A k \in Ordinals : pod[k] = IF k < size THEN "ready" ELSE "absent"
    /\ stale = {} /\ quiesced = {} /\ marked = {}

Settles == <>[]AtRest \/ <>[](dead # {})

(***************************************************************************)
(* CascadeDelete deletes a volume "after the pod this volume binds to is   *)
(* terminated and removed from the cluster": the operator deletes no claim *)
(* of a pod the StatefulSet keeps (pod.go, cleanupPods).                   *)
(***************************************************************************)
CascadeOnlyRemoved ==
    [][\A k \in Ordinals : vol[k] = "bound" /\ vol'[k] = "terminating" => k >= replicas']_vars

(***************************************************************************)
(* The same while every batch was picked from a listing of as many pods as *)
(* the StatefulSet has: a shifted batch is the only way to lose a volume   *)
(* that is in use, whatever fails or crashes.  In particular, when a       *)
(* scale-down that left partitions unavailable is taken back, the pods     *)
(* come back with the volumes they had: nothing of them is cleaned up      *)
(* before validateSCClusterState has passed.                               *)
(***************************************************************************)
OnlyShiftedLosesVolumes ==
    [][~shifted =>
        /\ \A k \in Ordinals : vol[k] = "bound" /\ vol'[k] = "terminating" => k >= replicas'
        /\ pc = "validate" => \A k \in replicas .. replicas' - 1 : vol[k] = "bound"]_vars

(***************************************************************************)
(* The pods a pass keeps are in service when it removes others: one that   *)
(* an earlier pass quiesced, to remove it before the user changed the      *)
(* size, is restored by reconcileQuiesceUndo first.  This rests on the     *)
(* annotation alone: a pod whose annotation could not be written, or that  *)
(* was quiesced without enableParallelScaleDownAcrossRacks or in a pass    *)
(* for failed pods, is not.                                                *)
(***************************************************************************)
KeptAreInService ==
    [][parallel /\ ~failing /\ ~shifted /\ replicas' < replicas =>
        quiesced \cap marked \cap (0 .. target - 1) = {}]_vars

(***************************************************************************)
(* The batch is the "list of removed pods" (scaleDownRack): the members    *)
(* that lowering spec.replicas takes out are the ones that were selected,  *)
(* checked and quiesced, again unless the listing was not the StatefulSet. *)
(***************************************************************************)
RemovedWereSelected ==
    [][~shifted /\ replicas' < replicas =>
        \A k \in replicas' .. replicas - 1 : pod[k] = "ready" => k \in batch]_vars

(***************************************************************************)
(* A scale-down that leaves dead partitions is rolled back so that it "can *)
(* reuse objects like pvc": the volume of a removed pod is not deleted     *)
(* while partitions are unavailable without it.                            *)
(***************************************************************************)
DeadKeepVolumes ==
    [][\A k \in dead : vol[k] = "bound" => vol'[k] = "bound"]_vars
=============================================================================
