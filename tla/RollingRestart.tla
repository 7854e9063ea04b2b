--------------------------- MODULE RollingRestart ---------------------------
(***************************************************************************)
(* Rolling a change out to the pods: upgradeOrRollingRestartRack,          *)
(* rollingRestartRack, upgradeRack and handleFailedPodsInRack of rack.go,  *)
(* the restart types, on-demand operations and dirty volumes of pod.go,    *)
(* the safe stop, migrate-fill-delay, dynamic configuration and index      *)
(* checkpoint of aero_info_calls.go, the eviction webhook.                 *)
(*                                                                         *)
(* A pass visits the racks in order.  For each it writes the ConfigMap,    *)
(* decides from the hashes recorded in status.pods which pods must be      *)
(* restarted and how, and restarts one batch: it waits until every server  *)
(* is up, sets migrate-fill-delay, quiesces the batch, may park it for an  *)
(* index checkpoint, restarts it, records the on-demand operation and      *)
(* waits.  The user edits the spec, pods fail, disappear and start,        *)
(* evictions are requested and passes die between any two of these steps.  *)
(*                                                                         *)
(* Abstractions.  A spec is five values: s, the static configuration       *)
(* (s = 0 places a block volume in a namespace, s = 1 does not); d, a      *)
(* parameter that can be set at run time; w, everything that needs a new   *)
(* pod (pod spec, ports, storage, preview flags); the image; the on-demand *)
(* operation.  The number of pods does not change, sidecars do not fail,   *)
(* and a wait that polls is one step, its time-out an Interrupt.           *)
(***************************************************************************)
EXTENDS Integers, Sequences, FiniteSets

CONSTANTS
    Pod,       \* the pods of the cluster
    NumRacks,  \* racks are 1 .. NumRacks, in the order a pass visits them
    PodsOf,    \* the pods of each rack, highest ordinal first
    Scenarios  \* the settings, edits and faults explored; Init picks one

\* An on-demand operation; NoOp is an empty spec.operations.  An empty list
\* of pods asks for all of them.
OpKinds == {"WarmRestart", "PodRestart"}
NoOp == [id |-> 0, kind |-> "none", pods |-> {}]
OpId == Nat \ {0}
Op == [id : OpId, kind : OpKinds, pods : SUBSET Pod]

SpecType == [s : 0 .. 1, d : Nat, w : Nat, image : Nat, op : Op \cup {NoOp}]
FirstSpec == [s |-> 0, d |-> 0, w |-> 0, image |-> 0, op |-> NoOp]

\* A scenario: the settings of the spec that do not change, the edits the
\* user makes, in order, and how much may go wrong.
ScenarioType ==
    [batch : Nat \ {0},       \* rackConfig.rollingUpdateBatchSize
     ignorable : Nat,         \* rackConfig.maxIgnorablePods
     dynamic : BOOLEAN,       \* enableDynamicConfigUpdate
     override : BOOLEAN,      \* restartStrategy.overrideMigrateFillDelay is positive
     checkpoint : BOOLEAN,    \* index checkpoints are configured and the server has them
     edits : Seq(SpecType),   \* the specs the user applies, in order
     fails : Nat,             \* pods that fail or do not start
     losses : Nat,            \* pods deleted or container restarts nobody asked for
     evictions : Nat,         \* eviction requests
     interrupts : Nat]        \* passes cut short: an error, a time-out, a crash

ASSUME RollingAssumption ==
    /\ IsFiniteSet(Pod)
    /\ NumRacks \in Nat \ {0}
    /\ PodsOf \in [1 .. NumRacks -> Seq(Pod)]
    /\ Scenarios \subseteq ScenarioType

Rack == 1 .. NumRacks
Members(r) == {PodsOf[r][i] : i \in 1 .. Len(PodsOf[r])}
RackOf(p) == CHOOSE r \in Rack : p \in Members(r)

\* The name of a pod holds its rack.
ASSUME RacksAssumption ==
    \A p \in Pod : \E r \in Rack : p \in Members(r) /\ \A q \in Rack : p \in Members(q) => q = r

\* A pod comes before another one of its rack.
Precedes(r, p, q) ==
    \E i, j \in 1 .. Len(PodsOf[r]) : i < j /\ PodsOf[r][i] = p /\ PodsOf[r][j] = q

VARIABLES
    spec,    \* the spec of the AerospikeCluster
    status,  \* its status: the spec last applied, the operations, the migrate-fill-delay
    cm,      \* the ConfigMap of each rack
    sts,     \* the pod template and image of each rack's StatefulSet
    pods,    \* the pods and what status.pods records of them
    queued,  \* a reconcile request is queued
    pass,    \* the reconcile pass in progress
    scen,    \* the scenario and what is left of it
    asked,   \* history: the operations the user has asked for
    served,  \* history: for each pod the operations it was restarted for
    empty,   \* history: operations recorded with an empty list of pods
    upgraded, \* history: pods of the racks whose last look was an upgrade
    skipped, \* history: pods the last look at their rack passed over though they may be due
    passed,  \* history: ignorable pods the last complete pass left as they were
    undone   \* history: pods whose dirty volume may be in use (see WipeOnlyRemoved)

vars == <<spec, status, cm, sts, pods, queued, pass, scen, asked, served, empty, upgraded, skipped, passed, undone>>
cluster == <<spec, cm, sts, scen, asked, passed, undone>>
looks == <<upgraded, skipped>>
history == <<asked, served, empty, looks, passed, undone>>

MFD == {"config", "zero", "override"}

\* A pod.  s, d: the configuration file its server started with, also the
\* hash recorded in status.pods.  hash: the recorded pod spec hash, read
\* from the ConfigMap when the pod starts.  w, image: what it really runs,
\* from the StatefulSet.  live: the run-time value of d.
Half == -1  \* some of the commands that set d have failed
PodType ==
    [server : {"up", "down", "failed", "pending"},
     s : 0 .. 1, d : Nat, w : Nat, image : Nat, hash : Nat, live : Nat \cup {Half},
     unsaved : BOOLEAN,   \* live was set and the file was not written
     partial : BOOLEAN,   \* dynamicConfigUpdateStatus is PartiallyFailed
     dirty : BOOLEAN,     \* the volume is in dirtyVolumes
     evict : BOOLEAN,     \* the eviction-blocked annotation
     quiesced : BOOLEAN, mfd : MFD,
     park : {"no", "saving", "saved"},
     noted : BOOLEAN,     \* the checkpoint annotation names the running container
     out : BOOLEAN]       \* taken out by a planned restart and not yet back

\* What status.pods says of a pod; a pass works on a copy.
Recorded(p) == [s |-> pods[p].s, d |-> pods[p].d, hash |-> pods[p].hash,
                partial |-> pods[p].partial, dirty |-> pods[p].dirty]

RestartTypes == {"noRestart", "noRestartUpdateConf", "quickRestart", "podRestart"}

\* The pass: pc is the step it is about to take.
PCs == {"idle", "parked", "failed", "rack", "plan", "stop", "setMFD", "saveMFD", "stable", "raise",
        "quiesce", "removal", "checkpoint", "restart", "record", "wait", "after", "force", "dynamic",
        "ignored", "next", "unquiesce", "revert", "finish", "recover"}

PassType ==
    [pc : PCs,
     spec : SpecType,                \* r.aeroCluster.Spec
     seen : [Pod -> [s : 0 .. 1, d : Nat, hash : Nat, partial : BOOLEAN, dirty : BOOLEAN]],
     ignorable : SUBSET Pod,         \* ignorablePodNames
     rack : Rack,                    \* the rack being reconciled
     failed : SUBSET Pod,            \* podFailure.pods; empty when podFailure is nil
     upgrade : BOOLEAN,              \* upgradeNeeded
     types : [Pod -> RestartTypes],  \* restartTypeMap
     batch : SUBSET Pod,             \* podsBatch
     group : SUBSET Pod,             \* the argument of restartPods
     planned : BOOLEAN,              \* not isFailureRecovery
     active : SUBSET Pod,            \* activePods still to restart
     again : BOOLEAN,                \* the pass ends with a requeue after the batch
     done : SUBSET Pod,              \* pods restarted, deleted or updated so far
     mfd : MFD,                      \* the argument of setMigrateFillDelay
     resume : PCs]                   \* the step that follows that call

NoTypes == [p \in Pod |-> "noRestart"]
Idle == [pc |-> "idle", spec |-> FirstSpec, seen |-> [p \in Pod |-> [s |-> 0, d |-> 0, hash |-> 0,
         partial |-> FALSE, dirty |-> FALSE]], ignorable |-> {}, rack |-> 1, failed |-> {}, upgrade |-> FALSE,
         types |-> NoTypes, batch |-> {}, group |-> {}, planned |-> FALSE, active |-> {}, again |-> FALSE,
         done |-> {}, mfd |-> "config", resume |-> "idle"]

\* What a pod is created from: the StatefulSet; a pod that waits for its node
\* was created before.
Template(p) == IF pods[p].server = "pending" THEN [w |-> pods[p].w, image |-> pods[p].image] ELSE sts[RackOf(p)]

\* A pod that starts: initialisation copies the ConfigMap, wipes a dirty
\* volume that the configuration uses and records the hashes.
Fresh(p) ==
    LET r == RackOf(p)
    IN [server |-> "up", s |-> cm[r].s, d |-> cm[r].d, w |-> Template(p).w, image |-> Template(p).image,
        hash |-> cm[r].w, live |-> cm[r].d, unsaved |-> FALSE, partial |-> FALSE,
        dirty |-> pods[p].dirty /\ cm[r].s = 1, evict |-> FALSE, quiesced |-> FALSE, mfd |-> "config",
        park |-> "no", noted |-> FALSE, out |-> FALSE]

\* The server process starts again inside the same pod: what was set at run
\* time is gone.
Restarted(pod) ==
    [pod EXCEPT !.server = "up", !.live = pod.d, !.unsaved = FALSE, !.quiesced = FALSE, !.mfd = "config",
                !.park = "no", !.noted = FALSE, !.out = FALSE]

Init ==
    /\ scen \in Scenarios
    /\ spec = FirstSpec
    /\ status = [spec |-> FirstSpec, ops |-> {}, mfd |-> "config"]
    /\ cm = [r \in Rack |-> [s |-> 0, d |-> 0, w |-> 0]]
    /\ sts = [r \in Rack |-> [w |-> 0, image |-> 0]]
    /\ pods = [p \in Pod |->
                  [server |-> "up", s |-> 0, d |-> 0, w |-> 0, image |-> 0, hash |-> 0, live |-> 0,
                   unsaved |-> FALSE, partial |-> FALSE, dirty |-> FALSE, evict |-> FALSE, quiesced |-> FALSE,
                   mfd |-> "config", park |-> "no", noted |-> FALSE, out |-> FALSE]]
    /\ queued = FALSE
    /\ pass = Idle
    /\ asked = {}
    /\ served = [p \in Pod |-> {}]
    /\ empty = {}
    /\ upgraded = {}
    /\ skipped = {}
    /\ passed = {}
    /\ undone = {}

-----------------------------------------------------------------------------
(* The user and the admission webhook *)

OpPods(o) == IF o.pods = {} THEN Pod ELSE o.pods
StatusOps(o) == IF o = NoOp THEN {} ELSE {o}

\* validateOperationUpdate: an operation keeps its ID only unchanged, names
\* existing pods, and a new one does not come with another image.
validateOperationUpdate(new) ==
    new.op # NoOp =>
        /\ new.op.id = spec.op.id => new.op = spec.op
        /\ new.op.pods \subseteq Pod
        /\ status.ops # {new.op} => new.image = spec.image /\ new.image = status.spec.image

\* The user changes the spec.
Edit ==
    /\ scen.edits # <<>>
    /\ LET new == Head(scen.edits)
       IN /\ validateOperationUpdate(new)
          /\ spec' = new
          /\ asked' = asked \cup StatusOps(new.op)
          /\ undone' = IF spec.s = 1 /\ new.s = 0 /\ status.spec.s = 0 THEN Pod ELSE undone
    /\ scen' = [scen EXCEPT !.edits = Tail(@)]
    /\ queued' = TRUE
    /\ UNCHANGED <<status, cm, sts, pods, pass, served, empty, looks, passed>>

\* Handle of the eviction webhook: the eviction is refused and the pod
\* annotated, which the operator watches.
EvictionRequest(p) ==
    /\ scen.evictions > 0
    /\ pods[p].server = "up"
    /\ ~pods[p].evict
    /\ pods' = [pods EXCEPT ![p] = [pods[p] EXCEPT !.evict = TRUE]]
    /\ scen' = [scen EXCEPT !.evictions = @ - 1]
    /\ queued' = TRUE
    /\ UNCHANGED <<spec, status, cm, sts, pass, history>>

-----------------------------------------------------------------------------
(* Pods and the StatefulSet controller *)

SetPod(p, pod) == pods' = [pods EXCEPT ![p] = pod]
outside == <<spec, status, cm, sts, queued, pass, history>>

\* Pods in ps are restarted: in their pod (quickRestart) or as a new pod.
Serve(ps, type) ==
    served' = [p \in Pod |->
                  IF p \notin ps THEN served[p]
                  ELSE served[p] \cup {o.id : o \in {x \in asked : type = "podRestart" \/ x.kind = "WarmRestart"}}]

\* A deleted pod starts again.
PodStarts(p) ==
    /\ pods[p].server \in {"down", "pending"}
    /\ SetPod(p, Fresh(p))
    /\ Serve({p}, "podRestart")
    /\ UNCHANGED <<cluster, status, queued, pass, empty, looks>>

\* It is initialised but its server does not come up.
PodStartFails(p) ==
    /\ pods[p].server = "down"
    /\ scen.fails > 0
    /\ SetPod(p, [Fresh(p) EXCEPT !.server = "failed", !.out = pods[p].out])
    /\ Serve({p}, "podRestart")
    /\ scen' = [scen EXCEPT !.fails = @ - 1]
    /\ UNCHANGED <<spec, status, cm, sts, queued, pass, asked, empty, looks, passed, undone>>

\* It is created but cannot be scheduled.
PodPends(p) ==
    /\ pods[p].server = "down"
    /\ scen.fails > 0
    /\ SetPod(p, [pods[p] EXCEPT !.server = "pending", !.w = Template(p).w, !.image = Template(p).image,
                                 !.evict = FALSE])
    /\ scen' = [scen EXCEPT !.fails = @ - 1]
    /\ UNCHANGED outside

\* A running server crashes, or a crashed one comes back by itself.
PodCrashes(p) ==
    /\ pods[p].server = "up"
    /\ scen.fails > 0
    /\ SetPod(p, [Restarted(pods[p]) EXCEPT !.server = "failed"])
    /\ scen' = [scen EXCEPT !.fails = @ - 1]
    /\ UNCHANGED outside

PodRecovers(p) ==
    /\ pods[p].server = "failed"
    /\ SetPod(p, Restarted(pods[p]))
    /\ UNCHANGED <<scen, outside>>

\* Someone else deletes the pod.
Down(pod) == [pod EXCEPT !.server = "down", !.quiesced = FALSE, !.park = "no", !.noted = FALSE]

PodLost(p) ==
    /\ pods[p].server \in {"up", "failed"}
    /\ scen.losses > 0
    /\ SetPod(p, Down(pods[p]))
    /\ scen' = [scen EXCEPT !.losses = @ - 1]
    /\ UNCHANGED outside

\* A parked server has copied its index; if it is not deleted in time its
\* container restarts and the annotation names a container that is gone.
SaveCompletes(p) ==
    /\ pods[p].park = "saving"
    /\ SetPod(p, [pods[p] EXCEPT !.park = "saved"])
    /\ UNCHANGED <<scen, outside>>

ParkTimesOut(p) ==
    /\ pods[p].park = "saved"
    /\ scen.losses > 0 \/ ~pods[p].noted
    /\ SetPod(p, Restarted(pods[p]))
    /\ scen' = [scen EXCEPT !.losses = IF pods[p].noted THEN @ - 1 ELSE @]
    /\ UNCHANGED outside

-----------------------------------------------------------------------------
(* Restart types *)

\* Mutant: the order of the constants.
RankOfConstant(t) == CASE t = "noRestart" -> 0 [] t = "noRestartUpdateConf" -> 1
                       [] t = "podRestart" -> 2 [] t = "quickRestart" -> 3

\* podRestart > quickRestart > noRestartUpdateConf > noRestart
Rank(t) == CASE t = "noRestart" -> 0 [] t = "noRestartUpdateConf" -> 1
             [] t = "quickRestart" -> 2 [] t = "podRestart" -> 3

mergeRestartType(current, incoming) == IF Rank(current) >= Rank(incoming) THEN current ELSE incoming

\* Mutant: an operation the status has is done.
podsToRestartOnce ==
    LET op == pass.spec.op
    IN IF op = NoOp \/ \E o \in status.ops : o.id = op.id THEN {} ELSE OpPods(op)

\* The pods an on-demand operation still has to restart.
\* An operation recorded without pods counts as done for all of them.
podsToRestart ==
    LET op       == pass.spec.op
        recorded == {o \in status.ops : o.id = op.id}
    IN IF op = NoOp \/ status.ops = {op} THEN {}
       ELSE OpPods(op) \ UNION {OpPods(o) : o \in recorded}

\* Mutant: evictions are looked at only during an operation.
getEvictionBlockedPodsOfOperation == {p \in Pod : pods[p].evict /\ pass.spec.op # NoOp}

getEvictionBlockedPods == {p \in Pod : pods[p].evict}

onDemandOperationType(p) ==
    IF p \in podsToRestart THEN IF pass.spec.op.kind = "WarmRestart" THEN "quickRestart" ELSE "podRestart"
    ELSE IF p \in getEvictionBlockedPods THEN "podRestart" ELSE "noRestart"

\* The volume is in the new configuration and not in the one the status has.
getNSAddedDevices == status.spec.s = 1 /\ pass.spec.s = 0
handleNSOrDeviceAddition(p) == IF pass.seen[p].dirty THEN "podRestart" ELSE "quickRestart"

\* Only parameters that can be set at run time differ.
isAllDynamicConfig(p, conf) ==
    scen.dynamic /\ ~pass.seen[p].partial /\ pass.seen[p].s = conf.s /\ pass.seen[p].d # conf.d

getRollingRestartTypePod(p, conf) ==
    LET seen     == pass.seen[p]
        confType == IF seen.s = conf.s /\ seen.d = conf.d THEN "noRestart"
                    ELSE IF getNSAddedDevices THEN handleNSOrDeviceAddition(p)
                    ELSE IF isAllDynamicConfig(p, conf) THEN "noRestartUpdateConf"
                    ELSE "quickRestart"
        podType  == IF seen.hash # conf.w THEN "podRestart" ELSE "noRestart"
        backType == IF seen.partial THEN "quickRestart" ELSE "noRestart"
    IN mergeRestartType(mergeRestartType(confType, podType),
                        mergeRestartType(onDemandOperationType(p), backType))

\* getRackPodList: a pod that is down may already be gone.
getRackPodList(r) == {Members(r) \ gone : gone \in SUBSET {p \in Members(r) : pods[p].server = "down"}}

\* getOrderedRackPodList fails on a list with a gap.
NoGap(r, listed) == \A p \in Members(r) \ listed, q \in listed : Precedes(r, p, q)

\* restartTypeMap of a rack; a change on a failed pod is always a pod restart.
getRollingRestartTypeMap(r, listed) ==
    [p \in Pod |->
        IF p \notin listed \ pass.ignorable THEN "noRestart"
        ELSE LET t == getRollingRestartTypePod(p, cm[r])
             IN IF t # "noRestart" /\ p \in pass.failed THEN "podRestart" ELSE t]

\* The servers of a batch that are down; those within the grace period are left alone.
ServerFailed(p) == pods[p].server \in {"failed", "pending"}
getServerFailedAndActivePods(batch) == {p \in batch : ServerFailed(p)}

isPodOnDesiredImage(p) == pods[p].image = pass.spec.image
isRackUpgradeNeeded(listed) == \E p \in listed \ pass.ignorable : ~isPodOnDesiredImage(p)

\* The pods of a rack that need a restart of either kind.
getRollingRestartInfo(types) == {p \in Pod : types[p] \in {"quickRestart", "podRestart"}}

-----------------------------------------------------------------------------
(* A pass: the parts that do not belong to one rack *)

At(pc) == pass.pc = pc
GoTo(pc) == pass' = [pass EXCEPT !.pc = pc]
Requeue == pass' = Idle /\ queued' = TRUE
Continue(pc) == GoTo(pc) /\ UNCHANGED queued

\* An error, a time-out or a crash: the pass starts over.
Interrupt ==
    /\ ~At("idle")
    /\ scen.interrupts > 0
    /\ scen' = [scen EXCEPT !.interrupts = @ - 1]
    /\ Requeue
    /\ UNCHANGED <<spec, status, cm, sts, pods, history>>

\* getIgnorablePods: up to maxIgnorablePods pods of each rack whose server is
\* not ready, the unschedulable ones first.  listed: the pods that exist.
getIgnorablePods(listed, chosen) ==
    \A r \in Rack :
        LET unready == {p \in listed \cap Members(r) : pods[p].server # "up"}
            pending == {p \in unready : pods[p].server = "pending"}
            mine    == chosen \cap Members(r)
        IN /\ mine \subseteq unready
           /\ \/ mine = unready /\ Cardinality(mine) <= scen.ignorable
              \/ Cardinality(mine) = scen.ignorable
           /\ mine \subseteq pending \/ pending \subseteq mine

Begin ==
    /\ At("idle")
    /\ queued
    /\ \E gone \in SUBSET {p \in Pod : pods[p].server = "down"}, chosen \in SUBSET Pod :
          /\ getIgnorablePods(Pod \ gone, chosen)
          /\ pass' = [Idle EXCEPT !.pc = "parked", !.spec = spec, !.seen = [p \in Pod |-> Recorded(p)],
                                  !.ignorable = chosen, !.group = {p \in Pod : pods[p].noted}]
    /\ queued' = FALSE
    /\ UNCHANGED <<spec, status, cm, sts, pods, scen, history>>

\* The operations after quick pods were restarted warm and cold ones deleted.
\* A warm operation already in the status takes the cold pods only when there are any.
RecordedOps(quick, cold) ==
    LET op    == pass.spec.op
        mine  == {o \in status.ops : o.id = op.id}
        Mine(ps) == ps \cap OpPods(op)
        added == IF op.kind = "PodRestart" THEN Mine(cold)
                 ELSE IF mine = {} THEN Mine(quick \cup cold)
                 ELSE IF cold # {} THEN Mine(cold) ELSE Mine(quick)
    IN IF mine = {} THEN status.ops \cup {[op EXCEPT !.pods = added]}
       ELSE {IF o \in mine /\ o.pods # {} THEN [o EXCEPT !.pods = @ \cup added] ELSE o : o \in status.ops}

\* updateOperationStatus; the status it reads back replaces the pass's copy.
updateOperationStatus(quick, cold) ==
    IF quick \cup cold = {} \/ pass.spec.op = NoOp
    THEN UNCHANGED <<status, empty>>
    ELSE /\ status' = [status EXCEPT !.ops = RecordedOps(quick, cold)]
         /\ empty' = empty \cup {o.id : o \in {x \in status'.ops \ status.ops : x.pods = {}}}

Seen(quick, cold) ==
    IF quick \cup cold = {} \/ pass.spec.op = NoOp THEN pass.seen ELSE [p \in Pod |-> Recorded(p)]

\* Mutant: the loop over the racks starts at the second.
pollSkipsFirstRack(p) ==
    /\ At("parked")
    /\ pods[p].noted /\ p \notin Members(1)
    /\ pods[p].park = "saved"
    /\ SetPod(p, Down(pods[p]))
    /\ pass' = [pass EXCEPT !.done = @ \cup {p}]
    /\ Serve({p}, "podRestart")
    /\ UNCHANGED <<spec, status, cm, sts, queued, scen, asked, empty, looks, passed, undone>>

\* A node that has saved its index is deleted.
pollAndDeleteParkedPods(p) ==
    /\ At("parked")
    /\ pods[p].noted
    /\ pods[p].park = "saved"
    /\ SetPod(p, Down(pods[p]))
    /\ pass' = [pass EXCEPT !.done = @ \cup {p}]
    /\ Serve({p}, "podRestart")
    /\ UNCHANGED <<spec, status, cm, sts, queued, scen, asked, empty, looks, passed, undone>>

\* reconcileCheckpointingPods ends: the deleted pods are recorded, and the
\* pass goes no further when any pod was parked.
reconcileCheckpointingPods ==
    /\ At("parked")
    /\ \A p \in Pod : pods[p].noted => pods[p].park = "saving"
    /\ updateOperationStatus({}, pass.done)
    /\ IF pass.group = {} THEN Continue("failed") ELSE Requeue
    /\ UNCHANGED <<cluster, pods, served, looks>>

\* The arguments of a call of setMigrateFillDelay, or its effect when the
\* status says the value is already set.
CallMFD(value, force, resume, p) ==
    IF status.mfd = value /\ ~force THEN [p EXCEPT !.pc = resume]
    ELSE [p EXCEPT !.pc = "setMFD", !.mfd = value, !.resume = resume]

\* A rack with failed servers is reconciled for
\* them alone; a crashed one first takes the migrate-fill-delay back.
handleFailedPodsForAllRacks ==
    /\ At("failed")
    /\ LET failed == getServerFailedAndActivePods(Members(pass.rack)) \ pass.ignorable
           crashed == \E p \in failed : pods[p].server = "failed"
           fix == [pass EXCEPT !.failed = failed]
       IN pass' = IF failed = {}
                  THEN IF pass.rack < NumRacks THEN [pass EXCEPT !.rack = @ + 1]
                       ELSE [pass EXCEPT !.rack = 1, !.pc = "rack"]
                  ELSE IF scen.override /\ crashed THEN CallMFD("config", FALSE, "rack", fix)
                  ELSE [fix EXCEPT !.pc = "rack"]
    /\ UNCHANGED <<cluster, status, pods, queued, served, empty, looks>>

\* Hosts a call reaches.  A pod that is neither ignorable nor handled as failed
\* must be up, or terminating, for the connections to be made.
Reached == {p \in Pod \ (pass.ignorable \cup pass.failed) : pods[p].server = "up" /\ ~pods[p].noted}
Unreached == {p \in Pod \ (pass.ignorable \cup pass.failed) : pods[p].server # "up"}

\* setMigrateFillDelay: the servers first, then the value in the status.
SetMFD ==
    /\ At("setMFD")
    /\ \A p \in Unreached : pods[p].server = "down"
    /\ \A p \in Reached : pods[p].park = "no"
    /\ pods' = [p \in Pod |-> IF p \in Reached THEN [pods[p] EXCEPT !.mfd = pass.mfd] ELSE pods[p]]
    /\ Continue("saveMFD")
    /\ UNCHANGED <<cluster, status, served, empty, looks>>

SetMFDFails ==
    /\ At("setMFD")
    /\ \/ Unreached # {}
       \/ \E p \in Reached : pods[p].park # "no"
    /\ Requeue
    /\ UNCHANGED <<cluster, status, pods, served, empty, looks>>

SaveMFD ==
    /\ At("saveMFD")
    /\ status' = [status EXCEPT !.mfd = pass.mfd]
    /\ Continue(pass.resume)
    /\ UNCHANGED <<cluster, pods, served, empty, looks>>

-----------------------------------------------------------------------------
(* One rack *)

\* The pods a look at the rack may pass over though they are due (history): a
\* warm restart keeps the pod, and a pod that restarted since status.pods was
\* read is judged by what it ran before.
PassedOver(p, type) ==
    \/ type = "quickRestart" /\ (pods[p].evict \/ pass.seen[p].hash # pods[p].hash)
    \/ type \in {"noRestart", "noRestartUpdateConf"} /\ pass.seen[p] # Recorded(p)

\* updateSTSConfigMap, always first.
updateSTSConfigMap ==
    /\ At("rack")
    /\ cm' = [cm EXCEPT ![pass.rack] = [s |-> pass.spec.s, d |-> pass.spec.d, w |-> pass.spec.w]]
    /\ Continue("plan")
    /\ UNCHANGED <<spec, status, sts, pods, scen, history>>

updateSTS(r) == sts' = [sts EXCEPT ![r] = [w |-> pass.spec.w, image |-> pass.spec.image]]

\* Mutant: one batch for all.
BatchCountAll(due) == Cardinality(due)

\* getPodsBatchList: the size of the first batch.
BatchCount(due) == IF Cardinality(due) < scen.batch THEN Cardinality(due) ELSE scen.batch

\* The first batch of the pods that are due, highest ordinal first: the failed
\* ones are restarted first, then the active ones; a failed pod may be within
\* its grace period.
StartBatch(r, due, upgrade, types, again) ==
    \E batch \in SUBSET due :
        /\ Cardinality(batch) = BatchCount(due)
        /\ \A p \in batch, q \in due \ batch : Precedes(r, p, q)
        /\ LET failed == getServerFailedAndActivePods(batch)
               active == batch \ failed
           IN \E grace \in SUBSET failed :
                 LET dead == failed \ grace
                 IN /\ grace # {} => scen.interrupts > 0
                    /\ scen' = [scen EXCEPT !.interrupts = IF grace # {} THEN @ - 1 ELSE @]
                    /\ pass' = [pass EXCEPT
                                   !.upgrade = upgrade, !.types = types, !.batch = batch, !.done = {},
                                   !.again = again \/ grace # {} \/ batch # due,
                                   !.planned = (dead = {}),
                                   !.group = IF dead # {} THEN dead ELSE active,
                                   !.active = IF dead # {} THEN active ELSE {},
                                   !.pc = IF dead # {} THEN "removal" ELSE IF active # {} THEN "stop" ELSE "after"]

\* The pods of a rack a call is about: podFailure.pods, or those listed.
Scope(listed) == (IF pass.failed = {} THEN listed ELSE pass.failed) \ pass.ignorable

\* upgradeRack: pods that have another image are deleted, a batch at a time.
upgradeRack(r, listed) ==
    /\ updateSTS(r)
    /\ StartBatch(r, {p \in Scope(listed) : ~isPodOnDesiredImage(p)}, TRUE,
                  [p \in Pod |-> IF p \in Members(r) THEN "podRestart" ELSE "noRestart"], FALSE)

\* rollingRestartRack: the pods of ps that need a restart of either kind.
rollingRestartRack(r, ps, types, again) ==
    /\ updateSTS(r)
    /\ StartBatch(r, ps \cap getRollingRestartInfo(types), FALSE, types, again)

\* upgradeOrRollingRestartRack after the ConfigMap: an upgrade if a pod has
\* another image, otherwise the restarts the hashes call for.  Only an upgrade
\* for failed pods does not need the ordered list.
upgradeOrRollingRestartRack ==
    /\ At("plan")
    /\ LET r == pass.rack
       IN \E listed \in getRackPodList(r) :
             LET upgrade == isRackUpgradeNeeded(listed)
                 types   == getRollingRestartTypeMap(r, listed)
             IN IF ~NoGap(r, listed) /\ ~(upgrade /\ pass.failed # {})
                THEN Requeue /\ UNCHANGED <<sts, scen, looks>>
                ELSE /\ IF upgrade THEN upgradeRack(r, listed)
                        ELSE IF getRollingRestartInfo(types) # {} THEN rollingRestartRack(r, Scope(listed), types, FALSE)
                        ELSE /\ pass' = [pass EXCEPT !.types = types, !.upgrade = FALSE, !.again = FALSE,
                                                     !.done = {}, !.pc = "after"]
                             /\ UNCHANGED <<sts, scen>>
                     /\ upgraded' = IF upgrade THEN upgraded \cup Members(r) ELSE upgraded \ Members(r)
                     /\ skipped' = (skipped \ Members(r)) \cup {p \in Members(r) : PassedOver(p, types[p])}
                     /\ UNCHANGED queued
    /\ UNCHANGED <<spec, status, cm, pods, asked, served, empty, passed, undone>>

\* mfdDelayForRestart: with an override, a batch with a pod restart drains
\* the migrations first and holds the next ones back.
Drain == scen.override /\ \E p \in pass.batch : pass.types[p] = "podRestart"

\* waitForAllAerospikeServersReady fails on a failed server and waits for the others.
waitForAllAerospikeServersReady == \A p \in Pod \ pass.ignorable : pods[p].server # "down"
AServerFailed == \E p \in Pod \ pass.ignorable : ServerFailed(p)

\* waitForMultipleNodesSafeStopReady: every server that counts is ready and
\* the migrate-fill-delay is what the migrations should run with.
SafeStop ==
    /\ At("stop")
    /\ waitForAllAerospikeServersReady
    /\ IF \/ AServerFailed
          \/ Cardinality(Reached) < 2 /\ pass.ignorable # {}
       THEN Requeue
       ELSE pass' = CallMFD(IF Drain THEN "zero" ELSE "config", FALSE, "stable", pass) /\ UNCHANGED queued
    /\ UNCHANGED <<cluster, status, pods, served, empty, looks>>

\* waitForClusterStability: all nodes answer and belong to one cluster.
waitForClusterStability ==
    /\ At("stable")
    /\ IF Unreached = {} /\ \A p \in Reached : pods[p].park = "no" THEN Continue("raise") ELSE Requeue
    /\ UNCHANGED <<cluster, status, pods, served, empty, looks>>

RaiseMFD ==
    /\ At("raise")
    /\ pass' = IF Drain THEN CallMFD("override", FALSE, "quiesce", pass) ELSE [pass EXCEPT !.pc = "quiesce"]
    /\ UNCHANGED <<cluster, status, pods, queued, served, empty, looks>>

quiescePods ==
    /\ At("quiesce")
    /\ IF pass.group \subseteq Reached
       THEN /\ pods' = [p \in Pod |-> IF p \in pass.group THEN [pods[p] EXCEPT !.quiesced = TRUE] ELSE pods[p]]
            /\ Continue("removal")
       ELSE Requeue /\ UNCHANGED pods
    /\ UNCHANGED <<cluster, status, served, empty, looks>>

\* Mutant: every volume is marked.
MarkAll(ps, next) ==
    /\ pods' = [p \in Pod |-> IF p \in ps THEN [pods[p] EXCEPT !.dirty = TRUE] ELSE pods[p]]
    /\ pass' = [pass EXCEPT !.pc = next]

\* handleNSOrDeviceRemoval: a volume that leaves the namespace the status
\* still has it in becomes dirty.
MarkRemoved(ps, next) ==
    LET removed == status.spec.s = 0 /\ pass.spec.s = 1
        marked  == [p \in Pod |-> IF removed /\ p \in ps THEN [pods[p] EXCEPT !.dirty = TRUE] ELSE pods[p]]
        reread  == [p \in Pod |-> [Recorded(p) EXCEPT !.dirty = marked[p].dirty]]
    IN /\ pods' = marked
       /\ pass' = [pass EXCEPT !.pc = next, !.seen = IF removed /\ ps # {} THEN reread ELSE @]

handleNSOrDeviceRemoval ==
    /\ At("removal")
    /\ MarkRemoved(pass.group, IF pass.planned THEN "checkpoint" ELSE "restart")
    /\ UNCHANGED <<cluster, status, queued, served, empty, looks>>

\* A namespace whose layout changes cannot use the saved index.
splitCheckpointNamespaces(p) == pods[p].s = pass.spec.s

\* triggerIndexCheckpointSave: pods that will be deleted and keep their layout
\* leave the cluster to save their index; the annotation may not be written.
triggerIndexCheckpointSave ==
    /\ At("checkpoint")
    /\ LET save == {p \in pass.group : /\ scen.checkpoint
                                       /\ pass.types[p] = "podRestart"
                                       /\ splitCheckpointNamespaces(p)}
       IN IF save = {} THEN Continue("restart") /\ UNCHANGED <<pods, scen>>
          ELSE IF \E p \in save : pods[p].server # "up" THEN Requeue /\ UNCHANGED <<pods, scen>>
          ELSE \E noted \in SUBSET save :
                  /\ noted # save => scen.interrupts > 0
                  /\ scen' = [scen EXCEPT !.interrupts = IF noted # save THEN @ - 1 ELSE @]
                  /\ pods' = [p \in Pod |-> IF p \notin save THEN pods[p]
                                            ELSE [pods[p] EXCEPT !.park = "saving", !.noted = (p \in noted), !.out = TRUE]]
                  /\ Requeue
    /\ UNCHANGED <<spec, status, cm, sts, history>>

\* The restart of one pod: its server in place, from the ConfigMap, or the
\* pod by deletion.
restartASD(p) ==
    LET r == RackOf(p)
    IN [Restarted(pods[p]) EXCEPT !.s = cm[r].s, !.d = cm[r].d, !.live = cm[r].d, !.partial = FALSE]

restartPods(p) ==
    /\ At("restart") /\ ~pass.upgrade
    /\ p \in pass.group \ pass.done
    /\ LET done == pass.done \cup {p}
           type == pass.types[p]
       IN IF type = "quickRestart" /\ pods[p].server # "up"
          THEN Requeue /\ UNCHANGED <<pods, served>>
          ELSE /\ SetPod(p, IF type = "quickRestart" THEN restartASD(p)
                            ELSE [Down(pods[p]) EXCEPT !.out = pass.planned])
               /\ Serve({p}, type)
               /\ pass' = [pass EXCEPT !.done = done, !.pc = IF done # pass.group THEN @ ELSE "record"]
               /\ UNCHANGED queued
    /\ UNCHANGED <<cluster, status, empty, looks>>

\* An upgrade deletes the pod; it serves no on-demand operation.
deletePodAndEnsureImageUpdated(p) ==
    /\ At("restart") /\ pass.upgrade
    /\ p \in pass.group \ pass.done
    /\ SetPod(p, [Down(pods[p]) EXCEPT !.out = pass.planned])
    /\ Serve({p}, "podRestart")
    /\ LET done == pass.done \cup {p}
       IN pass' = [pass EXCEPT !.done = done, !.pc = IF done # pass.group THEN @ ELSE "wait"]
    /\ UNCHANGED <<cluster, status, queued, empty, looks>>

OfType(type) == {p \in pass.group : pass.types[p] = type}

RecordRestarts ==
    /\ At("record")
    /\ updateOperationStatus(OfType("quickRestart"), OfType("podRestart"))
    /\ pass' = [pass EXCEPT !.pc = "wait", !.seen = Seen(OfType("quickRestart"), OfType("podRestart"))]
    /\ UNCHANGED <<cluster, pods, queued, served, looks>>

\* The restarted pods run again, and the active pods follow the failed ones.
BatchIsBack ==
    /\ \A p \in OfType("podRestart") : pods[p].server # "down"
    /\ IF \E p \in OfType("podRestart") : ServerFailed(p) THEN Requeue
       ELSE /\ pass' = IF pass.active = {} THEN [pass EXCEPT !.pc = "after"]
                       ELSE [pass EXCEPT !.group = pass.active, !.active = {}, !.planned = TRUE, !.done = {},
                                         !.pc = "stop"]
            /\ UNCHANGED queued
    /\ UNCHANGED <<cluster, status, pods, served, empty, looks>>

ensurePodsRunningAndReady == At("wait") /\ ~pass.upgrade /\ BatchIsBack

ensurePodsImageUpdated ==
    /\ At("wait") /\ pass.upgrade
    /\ \A p \in pass.group : pods[p].server = "up" => isPodOnDesiredImage(p)
    /\ BatchIsBack

\* Mutant: the next batch is not asked for.
AfterBatchAtOnce ==
    /\ At("after")
    /\ pass' = IF pass.again THEN Idle
               ELSE [pass EXCEPT !.done = {}, !.batch = {}, !.group = {},
                                 !.pc = IF pass.upgrade THEN "ignored" ELSE "dynamic"]
    /\ UNCHANGED <<cluster, queued, status, pods, served, empty, looks>>

\* The end of a batch: a requeue when there is another one.
AfterBatch ==
    /\ At("after")
    /\ IF pass.again THEN Requeue
       ELSE /\ pass' = [pass EXCEPT !.done = {}, !.batch = {}, !.group = {},
                                    !.pc = IF pass.upgrade THEN "ignored" ELSE "dynamic"]
            /\ UNCHANGED queued
    /\ UNCHANGED <<cluster, status, pods, served, empty, looks>>

\* The end of handleFailedPodsInRack: what is still failed is restarted without a
\* reason of its own, and the pass ends.
handleFailedPodsInRack ==
    /\ At("force")
    /\ LET r     == pass.rack
           still == getServerFailedAndActivePods(Members(r)) \ pass.ignorable
           types == [p \in Pod |-> IF p \in still THEN "podRestart" ELSE "noRestart"]
       IN IF still = {} THEN Requeue /\ UNCHANGED <<sts, scen>>
          ELSE rollingRestartRack(r, still, types, TRUE) /\ UNCHANGED queued
    /\ UNCHANGED <<spec, status, cm, pods, history>>

\* setDynamicConfig on one pod, if every server that counts can be reached: the
\* parameter, then the file.  Some
\* of the commands may fail, or the pass may end before the file is written.
ConfPods == {p \in Pod : pass.types[p] = "noRestartUpdateConf"}

updateDynamicConfig ==
    /\ At("dynamic")
    /\ IF ConfPods \subseteq pass.done THEN Continue("ignored")
       ELSE (\E p \in Pod \ pass.ignorable : pods[p].server # "up") /\ Requeue
    /\ UNCHANGED <<cluster, status, pods, served, empty, looks>>

setDynamicConfig(p) ==
    LET conf == cm[RackOf(p)].d
    IN /\ At("dynamic")
       /\ p \in ConfPods \ pass.done
       /\ pass.done = {} => ~AServerFailed
       /\ p \in Reached
       /\ \/ /\ SetPod(p, [pods[p] EXCEPT !.live = conf, !.d = conf, !.unsaved = FALSE])
             /\ pass' = [pass EXCEPT !.done = @ \cup {p}]
             /\ UNCHANGED <<queued, scen>>
          \/ /\ scen.fails > 0
             /\ SetPod(p, [pods[p] EXCEPT !.live = Half, !.partial = TRUE])
             /\ scen' = [scen EXCEPT !.fails = @ - 1]
             /\ Requeue
          \/ /\ scen.interrupts > 0
             /\ SetPod(p, [pods[p] EXCEPT !.live = conf, !.unsaved = TRUE])
             /\ scen' = [scen EXCEPT !.interrupts = @ - 1]
             /\ Requeue
       /\ UNCHANGED <<spec, status, cm, sts, history>>

\* Pods that are passed over lose the volume too.
handleNSOrDeviceRemovalForIgnorablePods ==
    /\ At("ignored")
    /\ \E listed \in getRackPodList(pass.rack) :
          IF pass.ignorable # {} /\ ~NoGap(pass.rack, listed) THEN Requeue /\ UNCHANGED pods
          ELSE /\ MarkRemoved(pass.ignorable \cap listed, IF pass.failed # {} THEN "force" ELSE "next")
               /\ UNCHANGED queued
    /\ UNCHANGED <<cluster, status, served, empty, looks>>

\* The next rack, or waitForAllRacksReady after the last one.
NextRack ==
    /\ At("next")
    /\ IF pass.rack < NumRacks
       THEN pass' = [pass EXCEPT !.rack = @ + 1, !.types = NoTypes, !.done = {}, !.pc = "rack"] /\ UNCHANGED queued
       ELSE /\ waitForAllAerospikeServersReady
            /\ IF AServerFailed THEN Requeue ELSE Continue("unquiesce")
    /\ UNCHANGED <<cluster, status, pods, served, empty, looks>>

\* undoQuiesceState
undoQuiesceState ==
    /\ At("unquiesce")
    /\ IF Unreached = {} /\ \A p \in Reached : pods[p].park = "no"
       THEN /\ pods' = [p \in Pod |-> [pods[p] EXCEPT !.quiesced = @ /\ p \notin Reached]]
            /\ Continue("revert")
       ELSE Requeue /\ UNCHANGED pods
    /\ UNCHANGED <<cluster, status, served, empty, looks>>

\* revertMFDToConfig, whatever the status says is set.
revertMFDToConfig ==
    /\ At("revert")
    /\ pass' = CallMFD("config", TRUE, "finish", pass)
    /\ UNCHANGED <<cluster, status, pods, queued, served, empty, looks>>

\* updateStatus: the spec of the pass becomes the status.
updateStatus ==
    /\ At("finish")
    /\ status' = [status EXCEPT !.spec = pass.spec, !.ops = StatusOps(pass.spec.op)]
    /\ pass' = IF pass.ignorable = {} THEN Idle ELSE [pass EXCEPT !.done = {}, !.pc = "recover"]
    /\ passed' = pass.ignorable
    /\ undone' = undone \cup {p \in upgraded \cup skipped \cup pass.ignorable : pods[p].dirty}
    /\ UNCHANGED <<spec, cm, sts, scen, asked, pods, queued, served, empty, looks>>

\* recoverIgnorablePods: failed ones are deleted; the pass waits for them
\* and asks for another one unless they fail again.
recoverIgnorablePods ==
    /\ At("recover")
    /\ pass.done = {}
    /\ LET failed == getServerFailedAndActivePods(pass.ignorable)
       IN /\ pods' = [p \in Pod |-> IF p \in failed THEN Down(pods[p]) ELSE pods[p]]
          /\ passed' = passed \ failed
          /\ IF failed = {} THEN Requeue ELSE pass' = [pass EXCEPT !.done = failed] /\ UNCHANGED queued
    /\ UNCHANGED <<spec, status, cm, sts, scen, asked, served, empty, looks, undone>>

waitForIgnorablePodsRecovery ==
    /\ At("recover")
    /\ pass.done # {}
    /\ \A p \in pass.done : pods[p].server # "down"
    /\ IF \E p \in pass.done : ServerFailed(p) THEN pass' = Idle /\ UNCHANGED queued ELSE Requeue
    /\ UNCHANGED <<cluster, status, pods, served, empty, looks>>

-----------------------------------------------------------------------------
(* The specification *)

PassStep ==
    \/ Begin \/ (\E p \in Pod : pollAndDeleteParkedPods(p)) \/ reconcileCheckpointingPods \/ handleFailedPodsForAllRacks
    \/ SetMFD \/ SetMFDFails \/ SaveMFD
    \/ updateSTSConfigMap \/ upgradeOrRollingRestartRack
    \/ SafeStop \/ waitForClusterStability \/ RaiseMFD \/ quiescePods
    \/ handleNSOrDeviceRemoval \/ triggerIndexCheckpointSave
    \/ (\E p \in Pod : restartPods(p) \/ deletePodAndEnsureImageUpdated(p))
    \/ RecordRestarts \/ ensurePodsRunningAndReady \/ ensurePodsImageUpdated \/ AfterBatch \/ handleFailedPodsInRack
    \/ updateDynamicConfig \/ (\E p \in Pod : setDynamicConfig(p))
    \/ handleNSOrDeviceRemovalForIgnorablePods \/ NextRack \/ undoQuiesceState \/ revertMFDToConfig \/ updateStatus
    \/ recoverIgnorablePods \/ waitForIgnorablePodsRecovery

Environment ==
    \/ Edit \/ Interrupt
    \/ \E p \in Pod :
          \/ EvictionRequest(p) \/ PodStarts(p) \/ PodStartFails(p) \/ PodPends(p) \/ PodCrashes(p)
          \/ PodRecovers(p) \/ PodLost(p) \/ SaveCompletes(p) \/ ParkTimesOut(p)

Next == PassStep \/ Environment

Spec == Init /\ [][Next]_vars

\* The operator takes the next step of a pass, the kubelet starts pods, and
\* parked servers finish their copy or give up their park.
Fairness ==
    /\ WF_vars(PassStep)
    /\ \A p \in Pod :
          /\ WF_vars(PodStarts(p))
          /\ WF_vars(SaveCompletes(p))
          /\ WF_vars(ParkTimesOut(p) /\ ~pods[p].noted)

FairSpec == Spec /\ Fairness

-----------------------------------------------------------------------------
(* Properties *)

\* The variables have their types: the spec, status, ConfigMaps, StatefulSets
\* and pods of the API server and the state a pass of SingleClusterReconciler keeps.
TypeOK ==
    /\ spec \in SpecType
    /\ status \in [spec : SpecType, ops : SUBSET Op, mfd : MFD]
    /\ cm \in [Rack -> [s : 0 .. 1, d : Nat, w : Nat]]
    /\ sts \in [Rack -> [w : Nat, image : Nat]]
    /\ pods \in [Pod -> PodType]
    /\ queued \in BOOLEAN
    /\ pass \in PassType
    /\ scen \in ScenarioType
    /\ asked \subseteq Op
    /\ served \in [Pod -> SUBSET OpId]
    /\ empty \subseteq OpId
    /\ upgraded \subseteq Pod
    /\ skipped \subseteq Pod
    /\ passed \subseteq Pod
    /\ undone \subseteq Pod

\* Planned restarts take no more than one batch out of the cluster at a time,
\* whatever passes were cut short: the next batch starts only when all servers
\* are ready, except the maxIgnorablePods of each rack that a pass overlooks
\* (waitForAllAerospikeServersReady).  Parked pods count.
OneBatchOut ==
    Cardinality({p \in Pod : pods[p].out}) <= scen.batch + NumRacks * scen.ignorable

\* At rest, every running pod has the configuration, the image and the pod
\* spec the status reports, what was set at run time agrees with it, no node
\* stays quiesced, parked or with an overridden migrate-fill-delay.  Excepted
\* are pods that the code passes over (upgradeOrRollingRestartRack):
\* - the ignorable pods of the last pass (passed);
\* - for all but the image, the pods of a rack that the last pass upgraded: it
\*   is not looked at again for pods that only need a restart (upgraded);
\* - those that restarted by themselves after the pass had read status.pods and
\*   are judged by what they ran before, and those with a warm restart
\*   (skipped, see PassedOver).
\* The image may be that of the StatefulSet: an upgrade taken back before it
\* reached a pod leaves the StatefulSet as it is (isRackUpgradeNeeded looks at
\* the pods), and a pod that is lost afterwards starts with its image.  The
\* value set at run time may differ from a file that could not be written
\* (unsaved).  The pod spec is known by its recorded hash: a pod that starts
\* between the writes of the ConfigMap and the StatefulSet records a hash it
\* does not run.
AtRest == At("idle") /\ ~queued /\ status.spec = spec

RestMeansRolledOut ==
    AtRest =>
        \A p \in Pod : pods[p].server = "up" =>
            /\ ~pods[p].quiesced /\ pods[p].mfd = "config" /\ pods[p].park = "no"
            /\ p \notin passed => pods[p].image \in {spec.image, sts[RackOf(p)].image}
            /\ p \notin upgraded \cup skipped \cup passed =>
                  /\ pods[p].s = spec.s /\ pods[p].d = spec.d
                  /\ pods[p].live = spec.d \/ pods[p].unsaved
                  /\ ~pods[p].partial
                  /\ pods[p].hash = spec.w

\* updateOperationStatus and the final status report an on-demand operation
\* done for a pod only after that pod was restarted for it.  Excepted are
\* ignorable pods, the pods of an upgraded rack, which the pass does not look
\* at again, and an operation first recorded by a batch that held none of its
\* pods, whose empty list then stands for all of them.
Reported(id, p) == \E o \in status.ops : o.id = id /\ p \in OpPods(o)

RecordedMeansRestarted ==
    [][\A o \in status'.ops :
          \/ o.id \in empty'
          \/ \A p \in OpPods(o) \ (pass.ignorable \cup upgraded) : o.id \in served[p] \/ Reported(o.id, p)]_vars

\* Initialisation wipes a volume in dirtyVolumes only if the pod's server was
\* no longer using it (handleNSOrDeviceRemoval, getNSAddedDevices), unless the
\* removal was taken back midway or the status was completed while the pod
\* still ran with the volume: an ignorable pod, a pod of an upgraded rack or
\* one passed over (undone).
WipeOnlyRemoved ==
    [][\A p \in Pod : pods[p].dirty /\ ~pods'[p].dirty => pods[p].s = 1 \/ p \in undone]_vars

\* Every change of the spec ends up in the status, and the operator comes to
\* rest, whatever pods fail and passes die on the way, with two exceptions.
\* Fewer than two servers run again and again: waitForMultipleNodesSafeStopReady
\* refuses to go on.  A server failed with the new parameter while another of
\* its rack still has to get it at run time: setDynamicConfig wants all servers
\* up, and its error keeps handleFailedPodsInRack from restarting the failed one.
Degraded == Cardinality({p \in Pod : pods[p].server = "up"}) < 2
ForceRestartBlocked ==
    scen.dynamic /\ \E r \in Rack : \E p, q \in Members(r) :
                        ServerFailed(p) /\ pods[q].server = "up" /\ pods[p].d # pods[q].d

Settles == <>[]AtRest \/ []<>Degraded \/ []<>ForceRestartBlocked

\* A node that left the cluster to save its index comes back: it is deleted
\* once the copy is done (reconcileCheckpointingPods) or its park times out.
ParkedComesBack == \A p \in Pod : pods[p].park # "no" ~> pods[p].park = "no"

\* A pod whose eviction was refused is restarted, so that the node can be
\* drained, unless the rack is upgraded at the same time, the pod has a warm
\* restart due or is passed over.
EvictionsServed == \A p \in Pod : pods[p].evict ~> (~pods[p].evict \/ p \in upgraded \cup skipped)

=============================================================================
