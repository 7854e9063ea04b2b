---------------------- MODULE RollingRestart_proofs ----------------------
(***************************************************************************)
(* Theorems about RollingRestart, for any racks, pods, edits and faults.   *)
(***************************************************************************)
EXTENDS RollingRestart, FiniteSetTheorems, TLAPS

\* Most steps are about sets and cases; those with arithmetic cite SMT.
USE ZenonT(30)

-----------------------------------------------------------------------------
(* Racks, pods and passes *)

\* A pod belongs to one rack.
LEMMA RackOfPod ==
    ASSUME NEW p \in Pod
    PROVE  /\ RackOf(p) \in Rack /\ p \in Members(RackOf(p))
           /\ \A r \in Rack : p \in Members(r) <=> r = RackOf(p)
  <1> DEFINE Mine(r) == p \in Members(r)
  <1>1. PICK r \in Rack : Mine(r) /\ \A q \in Rack : Mine(q) => q = r
    BY RacksAssumption DEF RacksAssumption
  <1>2. RackOf(p) \in Rack /\ Mine(RackOf(p))
    BY <1>1 DEF RackOf
  <1> QED BY <1>1, <1>2

\* The pods of a rack are pods.
LEMMA MembersArePods ==
    ASSUME NEW r \in Rack
    PROVE  Members(r) \subseteq Pod
  BY SMT, RollingAssumption DEF RollingAssumption, Members, Rack

\* One fault less.
LEMMA OneLess ==
    ASSUME NEW n \in Nat, n > 0
    PROVE  n - 1 \in Nat
  BY SMT

\* What a pod is after a start, a restart in place and a deletion is a pod.
LEMMA PodTypes ==
    ASSUME TypeOK, NEW p \in Pod
    PROVE  /\ Fresh(p) \in PodType /\ Restarted(pods[p]) \in PodType /\ Down(pods[p]) \in PodType
           /\ restartASD(p) \in PodType
  <1>1. RackOf(p) \in Rack /\ pods[p] \in PodType
    BY RackOfPod DEF TypeOK
  <1>2. Fresh(p) \in PodType
    BY <1>1 DEF TypeOK, Fresh, Template, PodType, MFD
  <1>3. Restarted(pods[p]) \in PodType
    BY <1>1 DEF Restarted, PodType, MFD
  <1>4. Down(pods[p]) \in PodType
    BY <1>1 DEF Down, PodType
  <1>5. restartASD(p) \in PodType
    BY <1>1, <1>3 DEF restartASD, TypeOK, PodType
  <1> QED BY <1>2, <1>3, <1>4, <1>5

\* What is recorded of the pods is what a pass keeps of them.
SeenType == [Pod -> [s : 0 .. 1, d : Nat, hash : Nat, partial : BOOLEAN, dirty : BOOLEAN]]

LEMMA RecordedType ==
    ASSUME TypeOK
    PROVE  [p \in Pod |-> Recorded(p)] \in SeenType
  BY DEF TypeOK, PodType, Recorded, SeenType

\* The pass that waits for a request.
LEMMA IdleType == Idle \in PassType /\ FirstSpec \in SpecType
  <1>1. 1 \in Rack /\ 0 \in Nat /\ 0 \in 0 .. 1
    BY SMT, RollingAssumption DEF RollingAssumption, Rack
  <1>2. FirstSpec \in SpecType
    BY <1>1 DEF FirstSpec, SpecType
  <1> QED BY <1>1, <1>2 DEF Idle, PassType, PCs, MFD, NoTypes, RestartTypes

\* A pass that goes to another step.
LEMMA GoesTo ==
    ASSUME NEW q \in PassType, NEW pc \in PCs
    PROVE  [q EXCEPT !.pc = pc] \in PassType
  BY DEF PassType

\* A pass that may call setMigrateFillDelay.
LEMMA CallMFDType ==
    ASSUME NEW q \in PassType, NEW value \in MFD, NEW force \in BOOLEAN, NEW resume \in PCs
    PROVE  CallMFD(value, force, resume, q) \in PassType
  BY DEF PassType, CallMFD, PCs

\* The restart types are what they are said to be.
LEMMA TypesOfTypes ==
    ASSUME NEW r, NEW listed
    PROVE  getRollingRestartTypeMap(r, listed) \in [Pod -> RestartTypes]
  <1> DEFINE B(p) == IF pass.seen[p].partial THEN "quickRestart" ELSE "noRestart"
  <1>1. \A a, b \in RestartTypes : mergeRestartType(a, b) \in RestartTypes
    BY DEF mergeRestartType
  <1>2. \A p \in Pod : onDemandOperationType(p) \in RestartTypes
    BY DEF onDemandOperationType, RestartTypes
  <1>3. \A p \in Pod : handleNSOrDeviceAddition(p) \in RestartTypes
    BY DEF handleNSOrDeviceAddition, RestartTypes
  <1>4. {"noRestart", "noRestartUpdateConf", "quickRestart", "podRestart"} \subseteq RestartTypes
    BY DEF RestartTypes
  <1>5. \A p \in Pod : getRollingRestartTypePod(p, cm[r]) \in RestartTypes
    BY <1>1, <1>2, <1>3, <1>4 DEF getRollingRestartTypePod
  <1> QED BY <1>4, <1>5 DEF getRollingRestartTypeMap

\* The size of a batch is at most the one the spec asks for.
LEMMA BatchSize ==
    ASSUME TypeOK, NEW due \in SUBSET Pod
    PROVE  BatchCount(due) \in Nat /\ BatchCount(due) <= scen.batch
  <1>1. IsFiniteSet(due)
    BY RollingAssumption, FS_Subset DEF RollingAssumption
  <1>2. Cardinality(due) \in Nat
    BY <1>1, FS_CardinalityType
  <1>3. scen.batch \in Nat
    BY DEF TypeOK, ScenarioType
  <1> QED BY SMT, <1>2, <1>3 DEF BatchCount

\* What a pass works for, and the limits of the scenario, do not change in a batch.
Kept == /\ pass'.spec = pass.spec /\ pass'.ignorable = pass.ignorable
        /\ pass'.rack = pass.rack /\ pass'.failed = pass.failed
SameBatch == /\ pass'.upgrade = pass.upgrade /\ pass'.types = pass.types /\ pass'.batch = pass.batch
             /\ pass'.again = pass.again
SameGroup == pass'.group = pass.group /\ pass'.planned = pass.planned /\ pass'.active = pass.active
Limits == scen'.batch = scen.batch /\ scen'.ignorable = scen.ignorable

\* A batch that starts: its groups make it up, and together with the next
\* batches they are the pods that are due.
Batched(due) ==
    /\ pass'.pc \in {"removal", "stop", "after"} /\ pass'.done = {} /\ pass'.seen = pass.seen
    /\ pass'.pc # "after" => /\ pass'.batch \subseteq due /\ Cardinality(pass'.batch) <= scen.batch
                             /\ pass'.group \cup pass'.active \subseteq pass'.batch
    /\ ~pass'.again => IF pass'.pc = "after" THEN due = {} ELSE pass'.group \cup pass'.active = due
    /\ pass'.pc = "removal" => ~pass'.planned

LEMMA BatchStarts ==
    ASSUME TypeOK, NEW r, NEW due \in SUBSET Pod, NEW upgrade \in BOOLEAN,
           NEW types \in [Pod -> RestartTypes], NEW again \in BOOLEAN,
           StartBatch(r, due, upgrade, types, again)
    PROVE  /\ pass' \in PassType /\ scen' \in ScenarioType /\ Kept /\ Limits
           /\ pass'.upgrade = upgrade /\ pass'.types = types /\ Batched(due) /\ (again => pass'.again)
  <1>1. PICK batch \in SUBSET due :
           /\ Cardinality(batch) = BatchCount(due)
           /\ LET failed == getServerFailedAndActivePods(batch)
                  active == batch \ failed
              IN \E grace \in SUBSET failed :
                    LET dead == failed \ grace
                    IN /\ grace # {} => scen.interrupts > 0
                       /\ scen' = [scen EXCEPT !.interrupts = IF grace # {} THEN @ - 1 ELSE @]
                       /\ pass' = [pass EXCEPT
                                      !.upgrade = upgrade, !.types = types, !.batch = batch, !.done = {},
                                      !.again = again \/ grace # {} \/ batch # due,
                                      !.planned = (dead = {}),
                                      !.group = IF dead # {} THEN dead ELSE active,
                                      !.active = IF dead # {} THEN active ELSE {},
                                      !.pc = IF dead # {} THEN "removal"
                                             ELSE IF active # {} THEN "stop" ELSE "after"]
    BY DEF StartBatch
  <1> DEFINE failed == getServerFailedAndActivePods(batch)
             active == batch \ failed
  <1>2. failed \subseteq batch
    BY DEF getServerFailedAndActivePods
  <1>3. PICK grace \in SUBSET failed :
           /\ grace # {} => scen.interrupts > 0
           /\ scen' = [scen EXCEPT !.interrupts = IF grace # {} THEN @ - 1 ELSE @]
           /\ pass' = [pass EXCEPT
                          !.upgrade = upgrade, !.types = types, !.batch = batch, !.done = {},
                          !.again = again \/ grace # {} \/ batch # due,
                          !.planned = (failed \ grace = {}),
                          !.group = IF failed \ grace # {} THEN failed \ grace ELSE active,
                          !.active = IF failed \ grace # {} THEN active ELSE {},
                          !.pc = IF failed \ grace # {} THEN "removal"
                                 ELSE IF active # {} THEN "stop" ELSE "after"]
    BY <1>1
  <1> HIDE DEF failed, active
  <1> DEFINE dead == failed \ grace
             ag == again \/ grace # {} \/ batch # due
             gr == IF dead # {} THEN dead ELSE active
             ac == IF dead # {} THEN active ELSE {}
             pc == IF dead # {} THEN "removal" ELSE IF active # {} THEN "stop" ELSE "after"
  <1>4. active \subseteq batch /\ failed \cup active = batch
    BY <1>2 DEF active
  <1>5. /\ gr \in SUBSET Pod /\ ac \in SUBSET Pod /\ pc \in {"removal", "stop", "after"} /\ ag \in BOOLEAN
        /\ gr \cup ac \subseteq batch
        /\ ~ag => gr \cup ac = due /\ ~again
        /\ pc = "after" => gr = {} /\ ac = {}
        /\ pc = "removal" => ~(dead = {})
    BY <1>2, <1>4
  <1>6. pass \in PassType /\ scen \in ScenarioType /\ pass' = [pass EXCEPT
           !.upgrade = upgrade, !.types = types, !.batch = batch, !.done = {}, !.again = ag,
           !.planned = (dead = {}), !.group = gr, !.active = ac, !.pc = pc]
    BY <1>3 DEF TypeOK
  <1> HIDE DEF dead, ag, gr, ac, pc
  <1>7. pass' \in PassType
    <2>1. pc \in PCs /\ (dead = {}) \in BOOLEAN /\ batch \in SUBSET Pod
      BY <1>5 DEF PCs
    <2> QED BY <1>5, <1>6, <2>1 DEF PassType
  <1>8. /\ Kept /\ pass'.upgrade = upgrade /\ pass'.types = types /\ pass'.seen = pass.seen
        /\ pass'.pc = pc /\ pass'.batch = batch /\ pass'.group = gr /\ pass'.active = ac
        /\ pass'.again = ag /\ pass'.done = {} /\ pass'.planned = (dead = {})
    BY <1>6 DEF PassType, Kept
  <1>9. scen' \in ScenarioType /\ Limits
    <2>1. CASE grace # {}
      BY <1>3, <1>6, <2>1, OneLess DEF ScenarioType, Limits
    <2>2. CASE grace = {}
      BY <1>3, <1>6, <2>2 DEF ScenarioType, Limits
    <2> QED BY <2>1, <2>2
  <1>10. Cardinality(batch) <= scen.batch
    BY SMT, <1>1, BatchSize
  <1>11. Batched(due)
    BY <1>5, <1>8, <1>10 DEF Batched
  <1>12. again => ag
    BY DEF ag
  <1> QED BY <1>7, <1>8, <1>9, <1>11, <1>12

\* An operation that is asked for.
LEMMA OpOfSpec ==
    ASSUME NEW sp \in SpecType, sp.op # NoOp
    PROVE  sp.op \in Op
  BY DEF SpecType

\* What updateOperationStatus leaves are operations.
LEMMA RecordedOpsType ==
    ASSUME TypeOK, NEW quick \in SUBSET Pod, NEW cold \in SUBSET Pod, pass.spec.op # NoOp
    PROVE  RecordedOps(quick, cold) \subseteq Op
  <1> DEFINE op == pass.spec.op
             mine == {o \in status.ops : o.id = op.id}
             Mine(ps) == ps \cap OpPods(op)
             added == IF op.kind = "PodRestart" THEN Mine(cold)
                      ELSE IF mine = {} THEN Mine(quick \cup cold)
                      ELSE IF cold # {} THEN Mine(cold) ELSE Mine(quick)
  <1>1. op \in Op /\ status.ops \subseteq Op
    BY OpOfSpec DEF TypeOK, PassType
  <1>2. added \subseteq Pod
    OBVIOUS
  <1>3. RecordedOps(quick, cold) =
           IF mine = {} THEN status.ops \cup {[op EXCEPT !.pods = added]}
           ELSE {IF o \in mine /\ o.pods # {} THEN [o EXCEPT !.pods = @ \cup added] ELSE o : o \in status.ops}
    BY DEF RecordedOps
  <1> HIDE DEF added, mine
  <1>4. [op EXCEPT !.pods = added] \in Op
    BY <1>1, <1>2 DEF Op
  <1>5. \A o \in status.ops : [o EXCEPT !.pods = @ \cup added] \in Op
    BY <1>1, <1>2 DEF Op
  <1>6. CASE mine = {}
    BY <1>1, <1>3, <1>4, <1>6
  <1>7. CASE mine # {}
    <2> DEFINE New(o) == IF o \in mine /\ o.pods # {} THEN [o EXCEPT !.pods = @ \cup added] ELSE o
    <2>1. \A o \in status.ops : New(o) \in Op
      BY <1>1, <1>5
    <2>2. RecordedOps(quick, cold) = {New(o) : o \in status.ops}
      BY <1>3, <1>7
    <2> HIDE DEF New
    <2> QED BY <2>1, <2>2
  <1> QED BY <1>6, <1>7

LEMMA UpdateOperationStatusType ==
    ASSUME TypeOK, NEW quick \in SUBSET Pod, NEW cold \in SUBSET Pod, updateOperationStatus(quick, cold)
    PROVE  /\ status' \in [spec : SpecType, ops : SUBSET Op, mfd : MFD] /\ empty' \subseteq OpId
           /\ status'.spec = status.spec /\ status'.mfd = status.mfd
  <1>1. CASE UNCHANGED <<status, empty>>
    BY <1>1 DEF TypeOK
  <1>2. CASE pass.spec.op # NoOp /\ status' = [status EXCEPT !.ops = RecordedOps(quick, cold)]
             /\ empty' = empty \cup {o.id : o \in {x \in status'.ops \ status.ops : x.pods = {}}}
    <2>1. RecordedOps(quick, cold) \subseteq Op
      BY <1>2, RecordedOpsType
    <2>2. /\ status' \in [spec : SpecType, ops : SUBSET Op, mfd : MFD]
          /\ status'.spec = status.spec /\ status'.mfd = status.mfd /\ status'.ops \subseteq Op
      BY <1>2, <2>1 DEF TypeOK
    <2>3. \A o \in Op : o.id \in OpId
      BY DEF Op
    <2> QED BY <1>2, <2>2, <2>3 DEF TypeOK
  <1> QED BY <1>1, <1>2 DEF updateOperationStatus

\* A pod of a set that changes keeps the type of the pods.
LEMMA SetPodType ==
    ASSUME TypeOK, NEW p \in Pod, NEW pod \in PodType, SetPod(p, pod)
    PROVE  pods' \in [Pod -> PodType]
  BY DEF TypeOK, SetPod

\* Restarts are remembered.
LEMMA ServeType ==
    ASSUME TypeOK, NEW ps, NEW type, Serve(ps, type)
    PROVE  served' \in [Pod -> SUBSET OpId]
  <1>1. \A x \in asked : x.id \in OpId
    BY DEF TypeOK, Op
  <1>2. \A p \in Pod : served[p] \subseteq OpId
    BY DEF TypeOK
  <1>3. \A S \in SUBSET asked : {o.id : o \in S} \subseteq OpId
    BY <1>1
  <1> QED BY <1>2, <1>3 DEF Serve

\* The user and the pods keep the types.
LEMMA EnvironmentType ==
    ASSUME TypeOK, Environment
    PROVE  TypeOK'
  <1>saved. ASSUME NEW pod \in PodType
            PROVE  [pod EXCEPT !.park = "saved"] \in PodType
    BY <1>saved DEF PodType
  <1>evicted. ASSUME NEW pod \in PodType
              PROVE  [pod EXCEPT !.evict = TRUE] \in PodType
    BY <1>evicted DEF PodType
  <1>failsOut. ASSUME NEW pod \in PodType, NEW b \in BOOLEAN
               PROVE  [pod EXCEPT !.server = "failed", !.out = b] \in PodType
    BY <1>failsOut DEF PodType
  <1>failing. ASSUME NEW pod \in PodType
              PROVE  [pod EXCEPT !.server = "failed"] \in PodType
    BY <1>failing DEF PodType
  <1>pending. ASSUME NEW pod \in PodType, NEW w \in Nat, NEW image \in Nat
              PROVE  [pod EXCEPT !.server = "pending", !.w = w, !.image = image, !.evict = FALSE] \in PodType
    BY <1>pending DEF PodType
  <1> USE DEF cluster, history, looks, outside
  <1>0. scen \in ScenarioType /\ pods \in [Pod -> PodType]
    BY DEF TypeOK
  <1>a. /\ scen.fails > 0 => [scen EXCEPT !.fails = @ - 1] \in ScenarioType
        /\ scen.losses > 0 => [scen EXCEPT !.losses = @ - 1] \in ScenarioType
        /\ scen.evictions > 0 => [scen EXCEPT !.evictions = @ - 1] \in ScenarioType
        /\ scen.interrupts > 0 => [scen EXCEPT !.interrupts = @ - 1] \in ScenarioType
    BY <1>0, OneLess DEF ScenarioType
  <1>1. CASE Edit
    <2>1. scen.edits \in Seq(SpecType) /\ scen.edits # <<>>
      BY <1>0, <1>1 DEF Edit, ScenarioType
    <2>2. Head(scen.edits) \in SpecType /\ Tail(scen.edits) \in Seq(SpecType)
      BY SMT, <2>1
    <2>3. spec' \in SpecType /\ scen' \in ScenarioType
      BY <1>0, <1>1, <2>2 DEF Edit, ScenarioType
    <2>4. asked' \subseteq Op
      BY <1>1, <2>2, OpOfSpec DEF Edit, StatusOps, TypeOK
    <2> QED BY <1>1, <2>3, <2>4 DEF Edit, TypeOK
  <1>2. CASE Interrupt
    BY <1>2, <1>a, IdleType DEF Interrupt, Requeue, TypeOK
  <1>3. ASSUME NEW p \in Pod, PodStarts(p)
        PROVE  TypeOK'
    <2>1. pods' \in [Pod -> PodType] /\ served' \in [Pod -> SUBSET OpId]
      BY <1>3, PodTypes, SetPodType, ServeType DEF PodStarts
    <2> QED BY <1>3, <2>1 DEF PodStarts, TypeOK
  <1>4. ASSUME NEW p \in Pod, PodStartFails(p)
        PROVE  TypeOK'
    <2>0. Fresh(p) \in PodType /\ pods[p].out \in BOOLEAN
      BY <1>0, PodTypes DEF PodType
    <2>1. [Fresh(p) EXCEPT !.server = "failed", !.out = pods[p].out] \in PodType
      BY <2>0, <1>failsOut
    <2>2. pods' \in [Pod -> PodType] /\ served' \in [Pod -> SUBSET OpId]
      BY <1>4, <2>1, SetPodType, ServeType DEF PodStartFails
    <2> QED BY <1>4, <1>a, <2>2 DEF PodStartFails, TypeOK
  <1>5. ASSUME NEW p \in Pod, PodPends(p)
        PROVE  TypeOK'
    <2>1. RackOf(p) \in Rack /\ Template(p).w \in Nat /\ Template(p).image \in Nat
      BY <1>0, RackOfPod DEF Template, TypeOK, PodType
    <2>2. [pods[p] EXCEPT !.server = "pending", !.w = Template(p).w, !.image = Template(p).image,
                          !.evict = FALSE] \in PodType
      <3>1. pods[p] \in PodType
        BY <1>0
      <3> QED BY <2>1, <3>1, <1>pending
    <2>3. pods' \in [Pod -> PodType]
      BY <1>5, <2>2, SetPodType DEF PodPends
    <2> QED BY <1>5, <1>a, <2>3 DEF PodPends, TypeOK
  <1>6. ASSUME NEW p \in Pod, PodCrashes(p) \/ PodRecovers(p) \/ PodLost(p) \/ ParkTimesOut(p)
        PROVE  TypeOK'
    <2>1. [Restarted(pods[p]) EXCEPT !.server = "failed"] \in PodType
      BY PodTypes, <1>failing
    <2>2. pods' \in [Pod -> PodType]
      BY <1>6, <2>1, PodTypes, SetPodType DEF PodCrashes, PodRecovers, PodLost, ParkTimesOut
    <2>3. scen' \in ScenarioType
      <3>1. CASE PodCrashes(p) \/ PodRecovers(p) \/ PodLost(p)
        BY <1>0, <1>a, <3>1 DEF PodCrashes, PodRecovers, PodLost
      <3>2. CASE ParkTimesOut(p)
        BY <1>0, <1>a, <3>2 DEF ParkTimesOut, ScenarioType
      <3> QED BY <1>6, <3>1, <3>2
    <2> QED BY <1>6, <2>2, <2>3 DEF PodCrashes, PodRecovers, PodLost, ParkTimesOut, TypeOK
  <1>7. ASSUME NEW p \in Pod, EvictionRequest(p) \/ SaveCompletes(p)
        PROVE  TypeOK'
    <2>1. [pods[p] EXCEPT !.evict = TRUE] \in PodType /\ [pods[p] EXCEPT !.park = "saved"] \in PodType
      <3>1. pods[p] \in PodType
        BY <1>0
      <3> QED BY <3>1, <1>evicted, <1>saved
    <2>2. pods' \in [Pod -> PodType]
      BY <1>0, <1>7, <2>1 DEF EvictionRequest, SaveCompletes, SetPod
    <2> QED BY <1>7, <1>a, <2>2 DEF EvictionRequest, SaveCompletes, TypeOK
  <1> QED BY <1>1, <1>2, <1>3, <1>4, <1>5, <1>6, <1>7 DEF Environment

\* The pods of the rack that is reconciled.
LEMMA ThisRack ==
    ASSUME TypeOK
    PROVE  pass.rack \in Rack /\ Members(pass.rack) \subseteq Pod
  <1>1. pass.rack \in Rack
    BY DEF TypeOK, PassType
  <1> QED BY <1>1, MembersArePods

\* MarkRemoved changes nothing but the dirty volumes and what is known of the pods.
LEMMA MarkRemovedType ==
    ASSUME TypeOK, NEW ps, NEW next \in PCs, MarkRemoved(ps, next)
    PROVE  pods' \in [Pod -> PodType] /\ pass' \in PassType
  <1>dirty. ASSUME NEW pod \in PodType
            PROVE  [pod EXCEPT !.dirty = TRUE] \in PodType
    BY <1>dirty DEF PodType
  <1> DEFINE removed == status.spec.s = 0 /\ pass.spec.s = 1
             marked == [p \in Pod |-> IF removed /\ p \in ps THEN [pods[p] EXCEPT !.dirty = TRUE] ELSE pods[p]]
             reread == [p \in Pod |-> [Recorded(p) EXCEPT !.dirty = marked[p].dirty]]
  <1>1. pods \in [Pod -> PodType] /\ pass \in PassType
    BY DEF TypeOK
  <1>2. marked \in [Pod -> PodType]
    <2>1. \A p \in Pod : [pods[p] EXCEPT !.dirty = TRUE] \in PodType
      <3>1. ASSUME NEW p \in Pod PROVE [pods[p] EXCEPT !.dirty = TRUE] \in PodType
        <4>1. pods[p] \in PodType
          BY <1>1
        <4> QED BY <4>1, <1>dirty
      <3> QED BY <3>1
    <2> QED BY <1>1, <2>1
  <1>3. reread \in SeenType
    <2>1. \A p \in Pod : marked[p].dirty \in BOOLEAN /\ Recorded(p) \in [s : 0 .. 1, d : Nat, hash : Nat,
                                                             partial : BOOLEAN, dirty : BOOLEAN]
      BY <1>1, <1>2, RecordedType DEF PodType, SeenType
    <2> HIDE DEF marked
    <2> QED BY <2>1 DEF SeenType
  <1>4. pods' = marked /\ pass' = [pass EXCEPT !.pc = next, !.seen = IF removed /\ ps # {} THEN reread ELSE @]
    BY DEF MarkRemoved
  <1> HIDE DEF marked, reread, removed
  <1> QED BY <1>1, <1>2, <1>3, <1>4 DEF PassType, SeenType

\* The start of a pass and its handling of parked and failed pods keep the types.
LEMMA OpeningType ==
    ASSUME TypeOK,
           \/ Begin \/ (\E p \in Pod : pollAndDeleteParkedPods(p)) \/ reconcileCheckpointingPods
           \/ handleFailedPodsForAllRacks \/ SetMFD \/ SetMFDFails \/ SaveMFD
    PROVE  TypeOK'
  <1>delayed. ASSUME NEW pod \in PodType, NEW mfd \in MFD
              PROVE  [pod EXCEPT !.mfd = mfd] \in PodType
    BY <1>delayed DEF PodType
  <1> USE DEF cluster, history, looks
  <1>0. scen \in ScenarioType /\ pods \in [Pod -> PodType] /\ pass \in PassType /\ spec \in SpecType
    BY DEF TypeOK
  <1>1. CASE Begin
    <2>1. [p \in Pod |-> Recorded(p)] \in SeenType
      BY RecordedType
    <2> DEFINE seen == [p \in Pod |-> Recorded(p)]
               noted == {p \in Pod : pods[p].noted}
    <2>2. PICK chosen \in SUBSET Pod : pass' = [Idle EXCEPT !.pc = "parked", !.spec = spec, !.seen = seen,
                                                         !.ignorable = chosen, !.group = noted]
      BY <1>1 DEF Begin
    <2>3. pass' \in PassType
      <3>1. noted \in SUBSET Pod
        OBVIOUS
      <3> HIDE DEF seen, noted
      <3> QED BY <1>0, <2>1, <2>2, <3>1, IdleType DEF seen, PassType, SeenType, PCs
    <2> QED BY <1>1, <2>3 DEF Begin, TypeOK
  <1>2. ASSUME NEW p \in Pod, pollAndDeleteParkedPods(p)
        PROVE  TypeOK'
    <2>1. pods' \in [Pod -> PodType] /\ served' \in [Pod -> SUBSET OpId]
      BY <1>2, PodTypes, SetPodType, ServeType DEF pollAndDeleteParkedPods
    <2>2. pass' \in PassType
      BY <1>0, <1>2 DEF pollAndDeleteParkedPods, PassType
    <2> QED BY <1>2, <2>1, <2>2 DEF pollAndDeleteParkedPods, TypeOK
  <1>3. CASE reconcileCheckpointingPods
    <2>1. pass.done \in SUBSET Pod /\ {} \in SUBSET Pod
      BY <1>0 DEF PassType
    <2>2. status' \in [spec : SpecType, ops : SUBSET Op, mfd : MFD] /\ empty' \subseteq OpId
      BY <1>3, <2>1, UpdateOperationStatusType DEF reconcileCheckpointingPods
    <2>3. pass' \in PassType /\ queued' \in BOOLEAN
      BY <1>0, <1>3, IdleType, GoesTo DEF reconcileCheckpointingPods, Requeue, Continue, GoTo, PCs, TypeOK
    <2> QED BY <1>3, <2>2, <2>3 DEF reconcileCheckpointingPods, TypeOK
  <1>4. CASE handleFailedPodsForAllRacks
    <2> DEFINE failed == getServerFailedAndActivePods(Members(pass.rack)) \ pass.ignorable
               fix == [pass EXCEPT !.failed = failed]
    <2>1. failed \subseteq Pod
      BY ThisRack DEF getServerFailedAndActivePods
    <2>2. fix \in PassType
      BY <1>0, <2>1 DEF PassType
    <2>3. pass.rack < NumRacks => pass.rack + 1 \in Rack
      BY SMT, ThisRack, RollingAssumption DEF RollingAssumption, Rack
    <2>4. 1 \in Rack
      BY SMT, RollingAssumption DEF RollingAssumption, Rack
    <2>5. {"config"} \subseteq MFD /\ "rack" \in PCs
      BY DEF MFD, PCs
    <2>6. \/ pass.rack < NumRacks /\ pass' = [pass EXCEPT !.rack = @ + 1]
          \/ pass' = [pass EXCEPT !.rack = 1, !.pc = "rack"]
          \/ pass' = CallMFD("config", FALSE, "rack", fix)
          \/ pass' = [fix EXCEPT !.pc = "rack"]
      BY <1>4 DEF handleFailedPodsForAllRacks
    <2> HIDE DEF fix
    <2>7. pass' \in PassType
      <3>1. CASE pass.rack < NumRacks /\ pass' = [pass EXCEPT !.rack = @ + 1]
        BY <1>0, <2>3, <3>1 DEF PassType
      <3>2. CASE pass' = [pass EXCEPT !.rack = 1, !.pc = "rack"]
        BY <1>0, <2>4, <2>5, <3>2 DEF PassType
      <3>3. CASE pass' = CallMFD("config", FALSE, "rack", fix) \/ pass' = [fix EXCEPT !.pc = "rack"]
        BY <2>2, <2>5, <3>3, CallMFDType, GoesTo
      <3> QED BY <2>6, <3>1, <3>2, <3>3
    <2> QED BY <1>4, <2>7 DEF handleFailedPodsForAllRacks, TypeOK
  <1>5. CASE SetMFD
    <2>0. pass.mfd \in MFD
      BY <1>0 DEF PassType
    <2>1. \A p \in Pod : [pods[p] EXCEPT !.mfd = pass.mfd] \in PodType
      <3>1. ASSUME NEW p \in Pod PROVE [pods[p] EXCEPT !.mfd = pass.mfd] \in PodType
        <4>1. pods[p] \in PodType
          BY <1>0
        <4> QED BY <2>0, <4>1, <1>delayed
      <3> QED BY <3>1
    <2>2. pods' \in [Pod -> PodType]
      BY <1>0, <1>5, <2>1 DEF SetMFD
    <2>3. pass' \in PassType
      BY <1>0, <1>5, GoesTo DEF SetMFD, Continue, GoTo, PCs
    <2> QED BY <1>5, <2>2, <2>3 DEF SetMFD, Continue, TypeOK
  <1>6. CASE SetMFDFails
    BY <1>6, IdleType DEF SetMFDFails, Requeue, TypeOK
  <1>7. CASE SaveMFD
    <2>1. pass.mfd \in MFD /\ pass.resume \in PCs
      BY <1>0 DEF PassType
    <2>2. pass' \in PassType
      BY <1>0, <1>7, <2>1, GoesTo DEF SaveMFD, Continue, GoTo
    <2> QED BY <1>7, <2>1, <2>2 DEF SaveMFD, Continue, TypeOK
  <1> QED BY <1>1, <1>2, <1>3, <1>4, <1>5, <1>6, <1>7

\* A look at the rack that goes on: the types of its pods, the pods that are
\* due, and the first batch of them.
PlanTypes(r, listed) ==
    IF isRackUpgradeNeeded(listed) THEN [p \in Pod |-> IF p \in Members(r) THEN "podRestart" ELSE "noRestart"]
    ELSE getRollingRestartTypeMap(r, listed)
PlanDue(r, listed) ==
    IF isRackUpgradeNeeded(listed) THEN {p \in Scope(listed) : ~isPodOnDesiredImage(p)}
    ELSE Scope(listed) \cap getRollingRestartInfo(getRollingRestartTypeMap(r, listed))

Planned(r, listed) ==
    /\ Kept /\ Limits /\ queued' = queued
    /\ pass'.upgrade = isRackUpgradeNeeded(listed) /\ pass'.types = PlanTypes(r, listed)
    /\ Batched(PlanDue(r, listed))
    /\ sts' = sts \/ updateSTS(r)
    /\ pass'.upgrade => updateSTS(r)
    /\ upgraded' = IF pass'.upgrade THEN upgraded \cup Members(r) ELSE upgraded \ Members(r)
    /\ skipped' = (skipped \ Members(r)) \cup
                     {p \in Members(r) : PassedOver(p, getRollingRestartTypeMap(r, listed)[p])}

LEMMA Plans ==
    ASSUME TypeOK, upgradeOrRollingRestartRack
    PROVE  /\ pass.pc = "plan" /\ UNCHANGED <<spec, status, cm, pods, asked, served, empty, passed, undone>>
           /\ pass' \in PassType /\ scen' \in ScenarioType
           /\ \/ Requeue /\ UNCHANGED <<sts, scen, looks>>
              \/ \E listed \in getRackPodList(pass.rack) : Planned(pass.rack, listed)
  <1> DEFINE r == pass.rack
  <1>0. r \in Rack /\ Members(r) \subseteq Pod /\ pass \in PassType /\ scen \in ScenarioType
    BY ThisRack DEF TypeOK
  <1>1. PICK listed \in getRackPodList(r) :
           LET upgrade == isRackUpgradeNeeded(listed)
               types   == getRollingRestartTypeMap(r, listed)
           IN IF ~NoGap(r, listed) /\ ~(upgrade /\ pass.failed # {})
              THEN Requeue /\ UNCHANGED <<sts, scen, looks>>
              ELSE /\ IF upgrade THEN upgradeRack(r, listed)
                      ELSE IF getRollingRestartInfo(types) # {} THEN rollingRestartRack(r, Scope(listed), types, FALSE)
                      ELSE /\ pass' = [pass EXCEPT !.types = types, !.upgrade = FALSE, !.again = FALSE,
                                                   !.done = {}, !.pc = "after"]
                           /\ UNCHANGED <<sts, scen>>
                   /\ upgraded' = IF upgrade THEN upgraded \cup Members(r) ELSE upgraded \ Members(r)
                   /\ skipped' = (skipped \ Members(r)) \cup {p \in Members(r) : PassedOver(p, types[p])}
                   /\ UNCHANGED queued
    BY DEF upgradeOrRollingRestartRack
  <1> DEFINE upgrade == isRackUpgradeNeeded(listed)
             types == getRollingRestartTypeMap(r, listed)
  <1>2. types \in [Pod -> RestartTypes] /\ upgrade \in BOOLEAN
    BY TypesOfTypes DEF isRackUpgradeNeeded
  <1>3. Scope(listed) \subseteq Pod
    BY <1>0 DEF Scope, getRackPodList, PassType
  <1>4. CASE Requeue /\ UNCHANGED <<sts, scen, looks>>
    BY <1>0, <1>4, IdleType DEF Requeue, upgradeOrRollingRestartRack, At
  <1> DEFINE Rest == /\ UNCHANGED queued
                     /\ upgraded' = IF upgrade THEN upgraded \cup Members(r) ELSE upgraded \ Members(r)
                     /\ skipped' = (skipped \ Members(r)) \cup {p \in Members(r) : PassedOver(p, types[p])}
  <1> HIDE DEF r
  <1>5. CASE upgrade /\ upgradeRack(r, listed) /\ Rest
    <2> DEFINE due == {p \in Scope(listed) : ~isPodOnDesiredImage(p)}
               all == [p \in Pod |-> IF p \in Members(r) THEN "podRestart" ELSE "noRestart"]
    <2>1. due \in SUBSET Pod /\ all \in [Pod -> RestartTypes]
      BY <1>3 DEF RestartTypes
    <2>2. due = PlanDue(r, listed) /\ all = PlanTypes(r, listed)
      BY <1>5 DEF PlanDue, PlanTypes
    <2>3. StartBatch(r, due, TRUE, all, FALSE) /\ updateSTS(r)
      BY <1>5 DEF upgradeRack
    <2> HIDE DEF due, all
    <2>4. /\ pass' \in PassType /\ scen' \in ScenarioType /\ Kept /\ Limits
          /\ pass'.upgrade = TRUE /\ pass'.types = all /\ Batched(due)
      BY <2>1, <2>3, BatchStarts
    <2>5. Planned(r, listed)
      BY <1>5, <2>2, <2>3, <2>4 DEF Planned
    <2> QED BY <2>4, <2>5 DEF r, upgradeOrRollingRestartRack, At
  <1>6. CASE ~upgrade /\ rollingRestartRack(r, Scope(listed), types, FALSE) /\ Rest
    <2> DEFINE due == Scope(listed) \cap getRollingRestartInfo(types)
    <2>1. due \in SUBSET Pod
      BY <1>3
    <2>2. due = PlanDue(r, listed) /\ types = PlanTypes(r, listed)
      BY <1>6 DEF PlanDue, PlanTypes
    <2>3. StartBatch(r, due, FALSE, types, FALSE) /\ updateSTS(r)
      BY <1>6 DEF rollingRestartRack
    <2> HIDE DEF due, types
    <2>4. /\ pass' \in PassType /\ scen' \in ScenarioType /\ Kept /\ Limits
          /\ pass'.upgrade = FALSE /\ pass'.types = types /\ Batched(due)
      BY <1>2, <2>1, <2>3, BatchStarts
    <2>5. Planned(r, listed)
      <3>1. upgrade = FALSE
        BY <1>2, <1>6
      <3> QED BY <1>6, <2>2, <2>3, <2>4, <3>1 DEF Planned, types
    <2> QED BY <2>4, <2>5 DEF r, upgradeOrRollingRestartRack, At
  <1>7. CASE /\ ~upgrade /\ getRollingRestartInfo(types) = {} /\ Rest /\ UNCHANGED <<sts, scen>>
             /\ pass' = [pass EXCEPT !.types = types, !.upgrade = FALSE, !.again = FALSE,
                                     !.done = {}, !.pc = "after"]
    <2>1. PlanDue(r, listed) = {} /\ types = PlanTypes(r, listed)
      BY <1>7 DEF PlanDue, PlanTypes
    <2>2. pass' \in PassType
      BY <1>0, <1>2, <1>7 DEF PassType, PCs
    <2>3. /\ Kept /\ pass'.seen = pass.seen /\ pass'.upgrade = FALSE /\ pass'.types = types
          /\ pass'.pc = "after" /\ pass'.done = {}
      BY <1>0, <1>7 DEF PassType, Kept
    <2>4. Batched(PlanDue(r, listed)) /\ Limits
      BY <1>7, <2>1, <2>3 DEF Batched, Limits
    <2>5. Planned(r, listed)
      <3>1. upgrade = FALSE
        BY <1>2, <1>7
      <3> QED BY <1>7, <2>1, <2>3, <2>4, <3>1 DEF Planned
    <2> QED BY <1>0, <1>7, <2>2, <2>5 DEF r, upgradeOrRollingRestartRack, At
  <1> QED BY <1>1, <1>4, <1>5, <1>6, <1>7 DEF r

\* The last restart of the failed pods of a rack.
LEMMA Forces ==
    ASSUME TypeOK, handleFailedPodsInRack
    PROVE  /\ pass.pc = "force" /\ UNCHANGED <<spec, status, cm, pods, history>>
           /\ pass' \in PassType /\ scen' \in ScenarioType
           /\ \/ Requeue /\ UNCHANGED <<sts, scen>>
              \/ /\ Kept /\ Limits /\ queued' = queued /\ pass'.again /\ updateSTS(pass.rack)
                 /\ \E due \in SUBSET (Members(pass.rack) \ pass.ignorable) :
                       /\ Batched(due)
                       /\ \A p \in due : pass'.types[p] = "podRestart"
                 /\ \A p \in Pod : pass'.types[p] # "quickRestart"
  <1> DEFINE r == pass.rack
             still == getServerFailedAndActivePods(Members(r)) \ pass.ignorable
             types == [p \in Pod |-> IF p \in still THEN "podRestart" ELSE "noRestart"]
             due == still \cap getRollingRestartInfo(types)
  <1>0. r \in Rack /\ Members(r) \subseteq Pod /\ pass \in PassType /\ scen \in ScenarioType
    BY ThisRack DEF TypeOK
  <1>1. CASE Requeue /\ UNCHANGED <<sts, scen>>
    BY <1>0, <1>1, IdleType DEF Requeue, handleFailedPodsInRack, At
  <1>2. CASE rollingRestartRack(r, still, types, TRUE) /\ UNCHANGED queued
    <2>1. still \subseteq Members(r) \ pass.ignorable /\ types \in [Pod -> RestartTypes]
      BY DEF getServerFailedAndActivePods, RestartTypes
    <2>2. due \in SUBSET (Members(r) \ pass.ignorable) /\ due \in SUBSET Pod
      BY <1>0, <2>1
    <2>3. (\A p \in due : types[p] = "podRestart") /\ (\A p \in Pod : types[p] # "quickRestart")
      BY <2>2
    <2>4. StartBatch(r, due, FALSE, types, TRUE) /\ updateSTS(r)
      BY <1>2 DEF rollingRestartRack
    <2> HIDE DEF due, types
    <2>5. /\ pass' \in PassType /\ scen' \in ScenarioType /\ Kept /\ Limits
          /\ pass'.types = types /\ Batched(due) /\ pass'.again
      <3>1. pass' \in PassType => pass'.again \in BOOLEAN
        BY DEF PassType
      <3> QED BY <2>1, <2>2, <2>4, <3>1, BatchStarts
    <2> QED BY <1>2, <2>2, <2>3, <2>4, <2>5 DEF handleFailedPodsInRack, At
  <1> QED BY <1>1, <1>2 DEF handleFailedPodsInRack

\* The steps of a batch keep the types.
LEMMA BatchType ==
    ASSUME TypeOK,
           \/ updateSTSConfigMap \/ upgradeOrRollingRestartRack \/ handleFailedPodsInRack
           \/ SafeStop \/ waitForClusterStability \/ RaiseMFD \/ quiescePods
           \/ handleNSOrDeviceRemoval \/ triggerIndexCheckpointSave
    PROVE  TypeOK'
  <1>parked. ASSUME NEW pod \in PodType, NEW b \in BOOLEAN
             PROVE  [pod EXCEPT !.park = "saving", !.noted = b, !.out = TRUE] \in PodType
    BY <1>parked DEF PodType
  <1>quiesced. ASSUME NEW pod \in PodType, NEW b \in BOOLEAN
               PROVE  [pod EXCEPT !.quiesced = b] \in PodType
    BY <1>quiesced DEF PodType
  <1> USE DEF cluster, history, looks
  <1>0. scen \in ScenarioType /\ pods \in [Pod -> PodType] /\ pass \in PassType /\ sts \in [Rack -> [w : Nat, image : Nat]]
        /\ pass.spec \in SpecType /\ Members(pass.rack) \subseteq Pod /\ pass.rack \in Rack /\ pass.group \subseteq Pod
    BY ThisRack DEF TypeOK, PassType
  <1>a. ASSUME NEW pc \in PCs, Continue(pc)
        PROVE  pass' \in PassType /\ queued' = queued
    BY <1>0, <1>a, GoesTo DEF Continue, GoTo
  <1>b. {"plan", "stable", "raise", "quiesce", "removal", "checkpoint", "restart"} \subseteq PCs /\ MFD = {"config", "zero", "override"}
    BY DEF PCs, MFD
  <1>c. updateSTS(pass.rack) => sts' \in [Rack -> [w : Nat, image : Nat]]
    <2>1. [w |-> pass.spec.w, image |-> pass.spec.image] \in [w : Nat, image : Nat]
      BY <1>0 DEF SpecType
    <2> QED BY <1>0, <2>1 DEF updateSTS
  <1>1. CASE updateSTSConfigMap
    <2>1. cm' \in [Rack -> [s : 0 .. 1, d : Nat, w : Nat]]
      BY <1>0, <1>1 DEF updateSTSConfigMap, TypeOK, SpecType
    <2>2. pass' \in PassType /\ queued' = queued
      BY <1>1, <1>a, <1>b DEF updateSTSConfigMap
    <2> QED BY <1>1, <2>1, <2>2 DEF updateSTSConfigMap, TypeOK
  <1>2. CASE upgradeOrRollingRestartRack
    <2>1. /\ UNCHANGED <<spec, status, cm, pods, asked, served, empty, passed, undone>>
          /\ pass' \in PassType /\ scen' \in ScenarioType
          /\ \/ queued' = TRUE /\ UNCHANGED <<sts, looks>>
             \/ \E listed \in getRackPodList(pass.rack) : Planned(pass.rack, listed)
      BY <1>2, Plans DEF Requeue
    <2>2. CASE queued' = TRUE /\ UNCHANGED <<sts, looks>>
      BY <2>1, <2>2 DEF TypeOK
    <2>3. ASSUME NEW listed, Planned(pass.rack, listed)
          PROVE  TypeOK'
      <3>1. sts' \in [Rack -> [w : Nat, image : Nat]]
        BY <1>0, <1>c, <2>3 DEF Planned
      <3>2. upgraded' \subseteq Pod /\ skipped' \subseteq Pod /\ queued' = queued
        BY <1>0, <2>3 DEF Planned, TypeOK
      <3> QED BY <2>1, <3>1, <3>2 DEF TypeOK
    <2> QED BY <2>1, <2>2, <2>3
  <1>3. CASE handleFailedPodsInRack
    <2>1. /\ UNCHANGED <<spec, status, cm, pods, history>> /\ pass' \in PassType /\ scen' \in ScenarioType
          /\ (queued' = TRUE /\ sts' = sts) \/ (queued' = queued /\ updateSTS(pass.rack))
      BY <1>3, Forces DEF Requeue
    <2>2. sts' \in [Rack -> [w : Nat, image : Nat]]
      BY <1>0, <1>c, <2>1
    <2> QED BY <2>1, <2>2 DEF TypeOK
  <1>4. CASE SafeStop
    <2>1. \/ Requeue
          \/ queued' = queued /\ \E value \in MFD : pass' = CallMFD(value, FALSE, "stable", pass)
      BY <1>4, <1>b DEF SafeStop
    <2>2. \A value \in MFD : CallMFD(value, FALSE, "stable", pass) \in PassType
      BY <1>0, <1>b, CallMFDType
    <2>3. pass' \in PassType /\ queued' \in BOOLEAN
      BY <2>1, <2>2, IdleType DEF Requeue, TypeOK
    <2> QED BY <1>4, <2>3 DEF SafeStop, TypeOK
  <1>5. CASE waitForClusterStability
    <2>1. pass' \in PassType /\ queued' \in BOOLEAN
      BY <1>5, <1>a, <1>b, IdleType DEF waitForClusterStability, Requeue, TypeOK
    <2> QED BY <1>5, <2>1 DEF waitForClusterStability, TypeOK
  <1>6. CASE RaiseMFD
    <2>1. pass' \in PassType
      BY <1>0, <1>6, <1>b, CallMFDType, GoesTo DEF RaiseMFD
    <2> QED BY <1>6, <2>1 DEF RaiseMFD, TypeOK
  <1>7. CASE quiescePods
    <2>1. \A p \in Pod : [pods[p] EXCEPT !.quiesced = TRUE] \in PodType
      <3>1. ASSUME NEW p \in Pod PROVE [pods[p] EXCEPT !.quiesced = TRUE] \in PodType
        <4>1. pods[p] \in PodType
          BY <1>0
        <4> QED BY <4>1, <1>quiesced
      <3> QED BY <3>1
    <2>2. pods' \in [Pod -> PodType]
      BY <1>0, <1>7, <2>1 DEF quiescePods
    <2>3. pass' \in PassType /\ queued' \in BOOLEAN
      BY <1>7, <1>a, <1>b, IdleType DEF quiescePods, Requeue, TypeOK
    <2> QED BY <1>7, <2>2, <2>3 DEF quiescePods, TypeOK
  <1>8. CASE handleNSOrDeviceRemoval
    <2>1. \E next \in PCs : MarkRemoved(pass.group, next)
      BY <1>8, <1>b DEF handleNSOrDeviceRemoval
    <2>2. pods' \in [Pod -> PodType] /\ pass' \in PassType
      BY <2>1, MarkRemovedType
    <2> QED BY <1>8, <2>2 DEF handleNSOrDeviceRemoval, TypeOK
  <1>9. CASE triggerIndexCheckpointSave
    <2> DEFINE save == {p \in pass.group : /\ scen.checkpoint
                                           /\ pass.types[p] = "podRestart"
                                           /\ splitCheckpointNamespaces(p)}
    <2>0. save \subseteq Pod
      BY <1>0
    <2>1. \/ Continue("restart") /\ UNCHANGED <<pods, scen>>
          \/ Requeue /\ UNCHANGED <<pods, scen>>
          \/ \E noted \in SUBSET save :
                  /\ noted # save => scen.interrupts > 0
                  /\ scen' = [scen EXCEPT !.interrupts = IF noted # save THEN @ - 1 ELSE @]
                  /\ pods' = [p \in Pod |-> IF p \notin save THEN pods[p]
                                            ELSE [pods[p] EXCEPT !.park = "saving", !.noted = (p \in noted), !.out = TRUE]]
                  /\ Requeue
      BY <1>9 DEF triggerIndexCheckpointSave
    <2> HIDE DEF save
    <2>2. pass' \in PassType /\ queued' \in BOOLEAN
      BY <1>a, <1>b, <2>1, IdleType DEF Requeue, TypeOK
    <2>3. \A p \in Pod : \A b \in BOOLEAN :
             [pods[p] EXCEPT !.park = "saving", !.noted = b, !.out = TRUE] \in PodType
      <3>1. ASSUME NEW p \in Pod, NEW b \in BOOLEAN
            PROVE  [pods[p] EXCEPT !.park = "saving", !.noted = b, !.out = TRUE] \in PodType
        <4>1. pods[p] \in PodType
          BY <1>0
        <4> QED BY <4>1, <1>parked
      <3> QED BY <3>1
    <2>4. pods' \in [Pod -> PodType]
      <3>1. ASSUME NEW noted,
                   pods' = [p \in Pod |-> IF p \notin save THEN pods[p]
                                          ELSE [pods[p] EXCEPT !.park = "saving", !.noted = (p \in noted), !.out = TRUE]]
            PROVE  pods' \in [Pod -> PodType]
        <4>1. \A p \in Pod : (p \in noted) \in BOOLEAN
          BY SMT
        <4> QED BY <1>0, <2>3, <3>1, <4>1
      <3> QED BY <1>0, <2>1, <3>1
    <2>5. scen' \in ScenarioType
      BY <1>0, <2>1, OneLess DEF ScenarioType
    <2> QED BY <1>9, <2>2, <2>4, <2>5 DEF triggerIndexCheckpointSave, TypeOK
  <1> QED BY <1>1, <1>2, <1>3, <1>4, <1>5, <1>6, <1>7, <1>8, <1>9

\* The restarts and the end of a pass keep the types.
LEMMA EndingType ==
    ASSUME TypeOK,
           \/ \E p \in Pod : restartPods(p) \/ deletePodAndEnsureImageUpdated(p) \/ setDynamicConfig(p)
           \/ RecordRestarts \/ ensurePodsRunningAndReady \/ ensurePodsImageUpdated \/ AfterBatch
           \/ updateDynamicConfig \/ handleNSOrDeviceRemovalForIgnorablePods \/ NextRack \/ undoQuiesceState
           \/ revertMFDToConfig \/ updateStatus \/ recoverIgnorablePods \/ waitForIgnorablePodsRecovery
    PROVE  TypeOK'
  <1>done. ASSUME NEW q \in PassType, NEW ps \in SUBSET Pod
           PROVE  [q EXCEPT !.done = ps] \in PassType
    BY <1>done DEF PassType, PCs
  <1>endsBatch. ASSUME NEW q \in PassType, NEW pc \in PCs
                PROVE  [q EXCEPT !.done = {}, !.batch = {}, !.group = {}, !.pc = pc] \in PassType
    BY <1>endsBatch DEF PassType, PCs
  <1>nextGroup. ASSUME NEW q \in PassType
                PROVE  [q EXCEPT !.group = q.active, !.active = {}, !.planned = TRUE, !.done = {}, !.pc = "stop"] \in PassType
    BY <1>nextGroup DEF PassType, PCs
  <1>unsaved. ASSUME NEW pod \in PodType, NEW d \in Nat
              PROVE  [pod EXCEPT !.live = d, !.unsaved = TRUE] \in PodType
    BY <1>unsaved DEF PodType
  <1>halfSet. ASSUME NEW pod \in PodType
              PROVE  [pod EXCEPT !.live = Half, !.partial = TRUE] \in PodType
    BY <1>halfSet DEF PodType
  <1>isSet. ASSUME NEW pod \in PodType, NEW d \in Nat
            PROVE  [pod EXCEPT !.live = d, !.d = d, !.unsaved = FALSE] \in PodType
    BY <1>isSet DEF PodType
  <1> USE DEF cluster, history, looks
  <1>0. /\ scen \in ScenarioType /\ pods \in [Pod -> PodType] /\ pass \in PassType /\ cm \in [Rack -> [s : 0 .. 1, d : Nat, w : Nat]]
        /\ pass.spec \in SpecType /\ pass.rack \in Rack /\ pass.group \subseteq Pod /\ pass.active \subseteq Pod
        /\ pass.done \subseteq Pod /\ pass.ignorable \subseteq Pod /\ queued \in BOOLEAN
    BY DEF TypeOK, PassType
  <1>a. ASSUME NEW pc \in PCs, Continue(pc)
        PROVE  pass' \in PassType /\ queued' \in BOOLEAN
    BY <1>0, <1>a, GoesTo DEF Continue, GoTo
  <1>b. Requeue => pass' \in PassType /\ queued' \in BOOLEAN
    BY IdleType DEF Requeue
  <1>c. {"idle", "record", "wait", "restart", "after", "stop", "ignored", "dynamic", "next", "force", "rack", "unquiesce",
         "revert", "finish", "recover"} \subseteq PCs /\ "config" \in MFD
    BY DEF PCs, MFD
  <1>1. ASSUME NEW p \in Pod, restartPods(p) \/ deletePodAndEnsureImageUpdated(p)
        PROVE  TypeOK'
    <2>1. [Down(pods[p]) EXCEPT !.out = pass.planned] \in PodType /\ restartASD(p) \in PodType
      <3>1. Down(pods[p]) \in PodType /\ pass.planned \in BOOLEAN
        BY <1>0, PodTypes DEF PassType
      <3> QED BY <3>1, PodTypes DEF PodType
    <2>2. pods' \in [Pod -> PodType]
      BY <1>1, <2>1, SetPodType DEF restartPods, deletePodAndEnsureImageUpdated, TypeOK
    <2>3. served' \in [Pod -> SUBSET OpId]
      BY <1>1, ServeType DEF restartPods, deletePodAndEnsureImageUpdated, TypeOK
    <2>4. \/ Requeue
          \/ queued' = queued /\ \E pc \in PCs : pass' = [pass EXCEPT !.done = pass.done \cup {p}, !.pc = pc]
      <3>1. pass.pc \in PCs
        BY <1>0 DEF PassType
      <3> QED BY <1>1, <1>c, <3>1 DEF restartPods, deletePodAndEnsureImageUpdated
    <2>5. pass' \in PassType /\ queued' \in BOOLEAN
      <3>1. pass.done \cup {p} \in SUBSET Pod
        BY <1>0
      <3>2. \A pc \in PCs : [pass EXCEPT !.done = pass.done \cup {p}, !.pc = pc] \in PassType
        BY <1>0, <3>1 DEF PassType
      <3> QED BY <1>0, <1>b, <2>4, <3>2
    <2> QED BY <1>1, <2>2, <2>3, <2>5 DEF restartPods, deletePodAndEnsureImageUpdated, TypeOK
  <1>2. ASSUME NEW p \in Pod, setDynamicConfig(p)
        PROVE  TypeOK'
    <2> DEFINE conf == cm[RackOf(p)].d
    <2>1. conf \in Nat
      BY <1>0, RackOfPod
    <2> HIDE DEF conf
    <2>2. /\ [pods[p] EXCEPT !.live = conf, !.d = conf, !.unsaved = FALSE] \in PodType
          /\ [pods[p] EXCEPT !.live = Half, !.partial = TRUE] \in PodType
          /\ [pods[p] EXCEPT !.live = conf, !.unsaved = TRUE] \in PodType
      <3>1. pods[p] \in PodType
        BY <1>0
      <3> QED BY <2>1, <3>1, <1>isSet, <1>halfSet, <1>unsaved
    <2>3. /\ pods' \in [Pod -> PodType]
          /\ pass' \in PassType /\ queued' \in BOOLEAN /\ scen' \in ScenarioType
      <3>1. CASE SetPod(p, [pods[p] EXCEPT !.live = conf, !.d = conf, !.unsaved = FALSE])
                 /\ pass' = [pass EXCEPT !.done = @ \cup {p}] /\ UNCHANGED <<queued, scen>>
        BY <1>0, <2>2, <3>1, SetPodType DEF PassType
      <3>2. CASE SetPod(p, [pods[p] EXCEPT !.live = Half, !.partial = TRUE])
                 /\ scen.fails > 0 /\ scen' = [scen EXCEPT !.fails = @ - 1] /\ Requeue
        BY <1>0, <1>b, <2>2, <3>2, SetPodType, OneLess DEF ScenarioType
      <3>3. CASE SetPod(p, [pods[p] EXCEPT !.live = conf, !.unsaved = TRUE])
                 /\ scen.interrupts > 0 /\ scen' = [scen EXCEPT !.interrupts = @ - 1] /\ Requeue
        BY <1>0, <1>b, <2>2, <3>3, SetPodType, OneLess DEF ScenarioType
      <3> QED BY <1>2, <3>1, <3>2, <3>3 DEF setDynamicConfig, conf
    <2> QED BY <1>2, <2>3 DEF setDynamicConfig, TypeOK
  <1>3. CASE RecordRestarts
    <2>1. OfType("quickRestart") \in SUBSET Pod /\ OfType("podRestart") \in SUBSET Pod
      BY <1>0 DEF OfType
    <2>2. status' \in [spec : SpecType, ops : SUBSET Op, mfd : MFD] /\ empty' \subseteq OpId
      BY <1>3, <2>1, UpdateOperationStatusType DEF RecordRestarts
    <2>3. Seen(OfType("quickRestart"), OfType("podRestart")) \in SeenType
      BY <1>0, RecordedType DEF Seen, PassType, SeenType
    <2>4. pass' \in PassType
      BY <1>0, <1>3, <1>c, <2>3 DEF RecordRestarts, PassType, SeenType
    <2> QED BY <1>3, <2>2, <2>4 DEF RecordRestarts, TypeOK
  <1>4. CASE BatchIsBack
    <2>1. \/ Requeue \/ (pass' = [pass EXCEPT !.pc = "after"] /\ queued' = queued)
          \/ (pass' = [pass EXCEPT !.group = pass.active, !.active = {}, !.planned = TRUE, !.done = {}, !.pc = "stop"]
              /\ queued' = queued)
      BY <1>4 DEF BatchIsBack
    <2>2. pass' \in PassType /\ queued' \in BOOLEAN
      <3>1. CASE Requeue
        BY <1>b, <3>1
      <3>2. CASE pass' = [pass EXCEPT !.pc = "after"] /\ queued' = queued
        BY <1>0, <1>c, <3>2, GoesTo DEF TypeOK
      <3>3. [pass EXCEPT !.group = pass.active, !.active = {}, !.planned = TRUE, !.done = {}, !.pc = "stop"] \in PassType
        BY <1>0, <1>nextGroup
      <3> QED BY <2>1, <3>1, <3>2, <3>3 DEF TypeOK
    <2> QED BY <1>4, <2>2 DEF BatchIsBack, TypeOK
  <1>5. CASE AfterBatch
    <2>1. pass' \in PassType /\ queued' \in BOOLEAN
      <3>1. {"ignored", "dynamic"} \subseteq PCs
        BY DEF PCs
      <3>2. PICK pc \in {"ignored", "dynamic"} : \/ Requeue
                                               \/ /\ pass' = [pass EXCEPT !.done = {}, !.batch = {}, !.group = {}, !.pc = pc]
                                                  /\ UNCHANGED queued
        BY <1>5 DEF AfterBatch
      <3>3. [pass EXCEPT !.done = {}, !.batch = {}, !.group = {}, !.pc = pc] \in PassType
        BY <1>0, <3>1, <1>endsBatch
      <3> QED BY <1>b, <3>2, <3>3 DEF TypeOK
    <2> QED BY <1>5, <2>1 DEF AfterBatch, TypeOK
  <1>6. CASE updateDynamicConfig
    <2>1. pass' \in PassType /\ queued' \in BOOLEAN
      BY <1>a, <1>b, <1>c, <1>6 DEF updateDynamicConfig
    <2> QED BY <1>6, <2>1 DEF updateDynamicConfig, TypeOK
  <1>7. CASE handleNSOrDeviceRemovalForIgnorablePods
    <2>1. \/ Requeue /\ pods' = pods
          \/ queued' = queued /\ \E ps : \E next \in PCs : MarkRemoved(ps, next)
      BY <1>c, <1>7 DEF handleNSOrDeviceRemovalForIgnorablePods
    <2>2. pods' \in [Pod -> PodType] /\ pass' \in PassType /\ queued' \in BOOLEAN
      BY <1>0, <1>b, <2>1, MarkRemovedType
    <2> QED BY <1>7, <2>2 DEF handleNSOrDeviceRemovalForIgnorablePods, TypeOK
  <1>8. CASE NextRack
    <2>1. pass.rack < NumRacks => pass.rack + 1 \in Rack
      BY SMT, ThisRack, RollingAssumption DEF RollingAssumption, Rack
    <2>2. NoTypes \in [Pod -> RestartTypes]
      BY DEF NoTypes, RestartTypes
    <2>3. pass.rack < NumRacks =>
             [pass EXCEPT !.rack = @ + 1, !.types = NoTypes, !.done = {}, !.pc = "rack"] \in PassType
      BY <1>0, <1>c, <2>1, <2>2 DEF PassType
    <2>4. pass' \in PassType /\ queued' \in BOOLEAN
      BY <1>0, <1>8, <1>a, <1>b, <1>c, <2>3 DEF NextRack
    <2> QED BY <1>8, <2>4 DEF NextRack, TypeOK
  <1>9. CASE undoQuiesceState
    <2>1. \A p \in Pod : [pods[p] EXCEPT !.quiesced = @ /\ p \notin Reached] \in PodType
      <3>1. ASSUME NEW p \in Pod, NEW b \in BOOLEAN
            PROVE  [pods[p] EXCEPT !.quiesced = b] \in PodType
        <4>1. pods[p] \in PodType
          BY <1>0
        <4> QED BY <4>1 DEF PodType
      <3>2. \A p \in Pod : (pods[p].quiesced /\ p \notin Reached) \in BOOLEAN
        BY SMT
      <3> QED BY <3>1, <3>2
    <2>2. pods' \in [Pod -> PodType]
      BY <1>0, <1>9, <2>1 DEF undoQuiesceState
    <2>3. pass' \in PassType /\ queued' \in BOOLEAN
      BY <1>9, <1>a, <1>b, <1>c DEF undoQuiesceState
    <2> QED BY <1>9, <2>2, <2>3 DEF undoQuiesceState, TypeOK
  <1>10. CASE revertMFDToConfig
    <2>1. pass' \in PassType
      BY <1>0, <1>10, <1>c, CallMFDType DEF revertMFDToConfig
    <2> QED BY <1>10, <2>1 DEF revertMFDToConfig, TypeOK
  <1>11. CASE updateStatus
    <2>1. StatusOps(pass.spec.op) \subseteq Op
      BY <1>0, OpOfSpec DEF StatusOps
    <2>2. status' \in [spec : SpecType, ops : SUBSET Op, mfd : MFD]
      BY <1>0, <1>11, <2>1 DEF updateStatus, TypeOK
    <2>3. pass' \in PassType
      BY <1>0, <1>11, <1>c, IdleType DEF updateStatus, PassType
    <2>4. passed' \subseteq Pod /\ undone' \subseteq Pod
      BY <1>0, <1>11 DEF updateStatus, TypeOK
    <2> QED BY <1>11, <2>2, <2>3, <2>4 DEF updateStatus, TypeOK
  <1>12. CASE recoverIgnorablePods
    <2>1. pods' \in [Pod -> PodType]
      BY <1>0, <1>12, PodTypes DEF recoverIgnorablePods
    <2>2. getServerFailedAndActivePods(pass.ignorable) \subseteq Pod
      BY <1>0 DEF getServerFailedAndActivePods
    <2>3. pass' \in PassType /\ queued' \in BOOLEAN
      <3>1. [pass EXCEPT !.done = getServerFailedAndActivePods(pass.ignorable)] \in PassType
        BY <1>0, <2>2, <1>done
      <3> QED BY <1>0, <1>12, <1>b, <3>1 DEF recoverIgnorablePods
    <2>4. passed' \subseteq Pod
      BY <1>12 DEF recoverIgnorablePods, TypeOK
    <2> QED BY <1>12, <2>1, <2>3, <2>4 DEF recoverIgnorablePods, TypeOK
  <1>13. CASE waitForIgnorablePodsRecovery
    <2>1. pass' \in PassType /\ queued' \in BOOLEAN
      BY <1>0, <1>13, <1>b, IdleType DEF waitForIgnorablePodsRecovery
    <2> QED BY <1>13, <2>1 DEF waitForIgnorablePodsRecovery, TypeOK
  <1> QED BY <1>1, <1>2, <1>3, <1>4, <1>5, <1>6, <1>7, <1>8, <1>9, <1>10, <1>11, <1>12, <1>13
          DEF ensurePodsRunningAndReady, ensurePodsImageUpdated

\* Every step keeps the types.
LEMMA NextType ==
    ASSUME TypeOK, [Next]_vars
    PROVE  TypeOK'
  <1>1. CASE UNCHANGED vars
    BY <1>1 DEF vars, TypeOK
  <1>2. CASE Environment
    BY <1>2, EnvironmentType
  <1>3. CASE PassStep
    BY <1>3, OpeningType, BatchType, EndingType DEF PassStep
  <1> QED BY <1>1, <1>2, <1>3 DEF Next

LEMMA InitType == Init => TypeOK
  <1>1. FirstSpec \in SpecType /\ Idle \in PassType
    BY IdleType
  <1>2. 0 \in Nat /\ 0 \in 0 .. 1
    BY SMT
  <1> SUFFICES ASSUME Init PROVE TypeOK
    OBVIOUS
  <1>3. /\ spec \in SpecType /\ status \in [spec : SpecType, ops : SUBSET Op, mfd : MFD]
        /\ cm \in [Rack -> [s : 0 .. 1, d : Nat, w : Nat]] /\ sts \in [Rack -> [w : Nat, image : Nat]]
    BY <1>1, <1>2 DEF Init, MFD
  <1>4. pods \in [Pod -> PodType]
    BY <1>2 DEF Init, PodType, MFD
  <1>5. scen \in ScenarioType
    BY RollingAssumption DEF RollingAssumption, Init
  <1> QED BY <1>1, <1>3, <1>4, <1>5 DEF Init, TypeOK

\* The objects of the API server and the state of a pass keep their types in
\* every behaviour of SingleClusterReconciler and its environment.
THEOREM TypeCorrect == Spec => []TypeOK
  BY InitType, NextType, PTL DEF Spec

-----------------------------------------------------------------------------
(* The steps of a pass *)

\* The step a pass has come to, a call of setMigrateFillDelay counted as the
\* step that follows it.
Stage == IF pass.pc \in {"setMFD", "saveMFD"} THEN pass.resume ELSE pass.pc

Still == Kept /\ SameBatch /\ SameGroup /\ pass'.done = pass.done /\ pass'.seen = pass.seen

\* A pass that only goes to another step.
LEMMA GoFacts ==
    ASSUME pass \in PassType, NEW pc \in PCs, GoTo(pc)
    PROVE  /\ Still /\ pass'.pc = pc /\ pass'.mfd = pass.mfd /\ pass'.resume = pass.resume
           /\ pc \notin {"setMFD", "saveMFD"} => Stage' = pc
  <1>1. /\ Still /\ pass'.pc = pc /\ pass'.mfd = pass.mfd /\ pass'.resume = pass.resume
    BY DEF GoTo, Still, Kept, SameBatch, SameGroup, PassType
  <1> QED BY <1>1 DEF Stage

\* A pass that may call setMigrateFillDelay first.
LEMMA CallFacts ==
    ASSUME pass \in PassType, NEW value, NEW force \in BOOLEAN, NEW resume \in PCs \ {"setMFD", "saveMFD"},
           pass' = CallMFD(value, force, resume, pass)
    PROVE  /\ Still /\ Stage' = resume
           /\ \/ pass'.pc = resume /\ ~force
              \/ pass'.pc = "setMFD" /\ pass'.resume = resume /\ pass'.mfd = value
  <1>1. CASE ~force /\ pass' = [pass EXCEPT !.pc = resume]
    BY <1>1, GoFacts DEF GoTo
  <1>2. CASE pass' = [pass EXCEPT !.pc = "setMFD", !.mfd = value, !.resume = resume]
    <2>1. Still /\ pass'.pc = "setMFD" /\ pass'.resume = resume /\ pass'.mfd = value
      BY <1>2 DEF Still, Kept, SameBatch, SameGroup, PassType
    <2> QED BY <2>1 DEF Stage
  <1> QED BY <1>1, <1>2 DEF CallMFD

\* The settings of the spec do not change.
LEMMA SameLimits ==
    ASSUME TypeOK, [Next]_vars
    PROVE  Limits
  <1> USE DEF cluster, history, looks, outside, Limits
  <1>0. scen \in ScenarioType
    BY DEF TypeOK
  <1>1. CASE scen' = scen
    BY <1>1
  <1>2. ASSUME NEW n, \/ scen' = [scen EXCEPT !.fails = n] \/ scen' = [scen EXCEPT !.losses = n]
                      \/ scen' = [scen EXCEPT !.evictions = n] \/ scen' = [scen EXCEPT !.interrupts = n]
                      \/ scen' = [scen EXCEPT !.edits = n]
        PROVE  Limits
    BY <1>0, <1>2 DEF ScenarioType
  <1>3. CASE Edit \/ Interrupt
    BY <1>2, <1>3 DEF Edit, Interrupt
  <1>4. ASSUME NEW p \in Pod,
               \/ EvictionRequest(p) \/ PodStarts(p) \/ PodStartFails(p) \/ PodPends(p) \/ PodCrashes(p)
               \/ PodRecovers(p) \/ PodLost(p) \/ SaveCompletes(p) \/ ParkTimesOut(p)
        PROVE  Limits
    BY <1>1, <1>2, <1>4 DEF EvictionRequest, PodStarts, PodStartFails, PodPends, PodCrashes, PodRecovers, PodLost,
                            SaveCompletes, ParkTimesOut
  <1>5. CASE \/ Begin \/ (\E p \in Pod : pollAndDeleteParkedPods(p)) \/ reconcileCheckpointingPods
             \/ handleFailedPodsForAllRacks \/ SetMFD \/ SetMFDFails \/ SaveMFD \/ updateSTSConfigMap
    BY <1>1, <1>5 DEF Begin, pollAndDeleteParkedPods, reconcileCheckpointingPods, handleFailedPodsForAllRacks, SetMFD,
                      SetMFDFails, SaveMFD, updateSTSConfigMap
  <1>6. CASE upgradeOrRollingRestartRack
    <2>1. scen' = scen \/ \E listed : Planned(pass.rack, listed)
      BY <1>6, Plans
    <2> QED BY <1>1, <2>1 DEF Planned
  <1>7. CASE handleFailedPodsInRack
    BY <1>1, <1>7, Forces
  <1>8. CASE \/ SafeStop \/ waitForClusterStability \/ RaiseMFD \/ quiescePods \/ handleNSOrDeviceRemoval
             \/ \E p \in Pod : restartPods(p) \/ deletePodAndEnsureImageUpdated(p)
    BY <1>1, <1>8 DEF SafeStop, waitForClusterStability, RaiseMFD, quiescePods, handleNSOrDeviceRemoval, restartPods,
                      deletePodAndEnsureImageUpdated
  <1>9. CASE triggerIndexCheckpointSave
    BY <1>1, <1>2, <1>9 DEF triggerIndexCheckpointSave
  <1>10. CASE \/ RecordRestarts \/ ensurePodsRunningAndReady \/ ensurePodsImageUpdated \/ AfterBatch
              \/ updateDynamicConfig \/ handleNSOrDeviceRemovalForIgnorablePods \/ NextRack \/ undoQuiesceState
    BY <1>1, <1>10 DEF RecordRestarts, ensurePodsRunningAndReady, ensurePodsImageUpdated, BatchIsBack, AfterBatch,
                       updateDynamicConfig, handleNSOrDeviceRemovalForIgnorablePods, NextRack, undoQuiesceState
  <1>11. CASE revertMFDToConfig \/ updateStatus \/ recoverIgnorablePods \/ waitForIgnorablePodsRecovery
    BY <1>1, <1>11 DEF revertMFDToConfig, updateStatus, recoverIgnorablePods, waitForIgnorablePodsRecovery
  <1>12. ASSUME NEW p \in Pod, setDynamicConfig(p)
         PROVE  Limits
    BY <1>1, <1>2, <1>12 DEF setDynamicConfig
  <1>13. CASE UNCHANGED vars
    BY <1>1, <1>13 DEF vars
  <1> QED BY <1>3, <1>4, <1>5, <1>6, <1>7, <1>8, <1>9, <1>10, <1>11, <1>12, <1>13 DEF Next, PassStep, Environment

\* The steps, by what they do to the pass.
Moves(a, b) == Still /\ Stage = a /\ Stage' = b
Resumes == pass.pc \in {"setMFD", "saveMFD"} => pass.resume \in {"rack", "stable", "quiesce", "finish"}

Aside == (Environment \/ UNCHANGED vars) /\ pass' = pass /\ UNCHANGED <<status, cm, sts, looks, empty, passed>>
Quits == /\ pass' = Idle /\ queued' = TRUE
         /\ UNCHANGED <<spec, cm, sts, looks, asked, undone>>
         /\ status'.spec = status.spec
Opens == /\ reconcileCheckpointingPods /\ Moves("parked", "failed") /\ pass.group = {}
SameLook == pass'.seen = pass.seen /\ pass'.types = pass.types
NextFailed == /\ handleFailedPodsForAllRacks /\ Stage = "failed" /\ Stage' = "failed" /\ pass'.failed = pass.failed
              /\ pass'.spec = pass.spec /\ pass'.ignorable = pass.ignorable /\ SameLook
NoneFailed == /\ handleFailedPodsForAllRacks /\ Stage = "failed" /\ Stage' = "rack" /\ pass'.failed = pass.failed
              /\ pass'.spec = pass.spec /\ pass'.ignorable = pass.ignorable /\ pass'.rack = 1 /\ SameLook
SomeFailed == /\ handleFailedPodsForAllRacks /\ Stage = "failed" /\ Stage' = "rack" /\ pass'.failed # {}
              /\ pass'.failed = getServerFailedAndActivePods(Members(pass.rack)) \ pass.ignorable
              /\ pass'.spec = pass.spec /\ pass'.ignorable = pass.ignorable /\ pass'.rack = pass.rack /\ SameLook
Marks(ps, a, b) == /\ MarkRemoved(ps, b) /\ Stage = a /\ Stage' = b
                   /\ Kept /\ SameBatch /\ SameGroup /\ pass'.done = pass.done
RestartsOne(p) == /\ restartPods(p) \/ deletePodAndEnsureImageUpdated(p)
                  /\ p \in pass.group /\ Stage = "restart" /\ Kept /\ SameBatch /\ SameGroup
                  /\ pass'.done = pass.done \cup {p} /\ pass'.seen = pass.seen
                  /\ \/ Stage' = "restart"
                     \/ Stage' \in {"record", "wait"} /\ pass.group = pass.done \cup {p}
Records == /\ RecordRestarts /\ Stage = "record" /\ Stage' = "wait" /\ Kept /\ SameBatch /\ SameGroup
           /\ pass'.done = pass.done
NextGroup == /\ BatchIsBack /\ Stage = "wait" /\ Stage' = "stop" /\ Kept /\ SameBatch /\ pass'.seen = pass.seen
             /\ pass'.group = pass.active /\ pass'.active = {}
EndsBatch == /\ AfterBatch /\ Stage = "after" /\ Stage' = (IF pass.upgrade THEN "ignored" ELSE "dynamic") /\ Kept
             /\ ~pass.again /\ ~pass'.again /\ pass'.upgrade = pass.upgrade /\ pass'.types = pass.types
             /\ pass'.seen = pass.seen /\ pass'.done = {}
SetsOne(p) == /\ setDynamicConfig(p) /\ Stage = "dynamic" /\ Stage' = "dynamic" /\ Kept /\ SameBatch /\ SameGroup
              /\ pass'.done = pass.done \cup {p} /\ pass'.seen = pass.seen
              /\ SetPod(p, [pods[p] EXCEPT !.live = cm[RackOf(p)].d, !.d = cm[RackOf(p)].d, !.unsaved = FALSE])
GoesOn == /\ NextRack /\ Stage = "next" /\ Stage' = "rack" /\ pass.rack < NumRacks /\ pass'.rack = pass.rack + 1
          /\ pass'.spec = pass.spec /\ pass'.ignorable = pass.ignorable /\ pass'.failed = pass.failed
          /\ pass'.seen = pass.seen /\ pass'.types = NoTypes /\ pass'.again = pass.again
Reports == /\ updateStatus /\ Stage = "finish" /\ Stage' = "recover" /\ Kept /\ SameBatch /\ SameGroup
           /\ pass'.seen = pass.seen /\ pass'.done = {}
Recovers == /\ recoverIgnorablePods /\ Stage = "recover" /\ Stage' = "recover" /\ Kept /\ SameBatch /\ SameGroup
            /\ pass'.seen = pass.seen /\ pass'.done = getServerFailedAndActivePods(pass.ignorable)

Steps ==
    \/ Aside \/ Begin \/ Opens \/ NextFailed \/ NoneFailed \/ SomeFailed
    \/ Quits /\ (PassStep \/ Interrupt)
    \/ \E p \in Pod : pollAndDeleteParkedPods(p) \/ RestartsOne(p) \/ SetsOne(p)
    \/ (SetMFD \/ SaveMFD) /\ Still /\ Stage' = Stage
    \/ updateSTSConfigMap /\ Moves("rack", "plan")
    \/ upgradeOrRollingRestartRack /\ \E listed \in getRackPodList(pass.rack) : Planned(pass.rack, listed)
    \/ handleFailedPodsInRack /\ pass' # Idle
    \/ SafeStop /\ Moves("stop", "stable")
    \/ waitForClusterStability /\ Moves("stable", "raise")
    \/ RaiseMFD /\ Moves("raise", "quiesce")
    \/ quiescePods /\ Moves("quiesce", "removal")
    \/ handleNSOrDeviceRemoval /\ Marks(pass.group, "removal", IF pass.planned THEN "checkpoint" ELSE "restart")
    \/ triggerIndexCheckpointSave /\ Moves("checkpoint", "restart") /\ pods' = pods
    \/ Records \/ NextGroup \/ EndsBatch
    \/ BatchIsBack /\ Moves("wait", "after") /\ pass.active = {}
    \/ updateDynamicConfig /\ Moves("dynamic", "ignored") /\ ConfPods \subseteq pass.done
    \/ /\ handleNSOrDeviceRemovalForIgnorablePods
       /\ \E ps \in SUBSET pass.ignorable : Marks(ps, "ignored", IF pass.failed # {} THEN "force" ELSE "next")
    \/ GoesOn
    \/ NextRack /\ Moves("next", "unquiesce") /\ waitForAllAerospikeServersReady /\ ~AServerFailed /\ pass.rack = NumRacks
    \/ undoQuiesceState /\ Moves("unquiesce", "revert")
    \/ revertMFDToConfig /\ Moves("revert", "finish") /\ pass'.pc = "setMFD" /\ pass'.mfd = "config"
    \/ updateStatus /\ pass' = Idle
    \/ Reports \/ Recovers
    \/ waitForIgnorablePodsRecovery /\ pass' = Idle

LEMMA OpeningSteps ==
    ASSUME TypeOK, Resumes,
           \/ Begin \/ (\E p \in Pod : pollAndDeleteParkedPods(p)) \/ reconcileCheckpointingPods
           \/ handleFailedPodsForAllRacks \/ SetMFD \/ SetMFDFails \/ SaveMFD \/ updateSTSConfigMap
           \/ upgradeOrRollingRestartRack \/ handleFailedPodsInRack
    PROVE  Steps
  <1> USE DEF cluster, history, looks
  <1>0. pass \in PassType /\ {"failed", "rack", "plan", "saveMFD", "stable", "quiesce", "finish"} \subseteq PCs
    BY DEF TypeOK, PCs
  <1>1. CASE Begin \/ (\E p \in Pod : pollAndDeleteParkedPods(p))
    BY <1>1 DEF Steps
  <1>2. CASE reconcileCheckpointingPods
    <2>1. status'.spec = status.spec
      <3>1. pass.done \in SUBSET Pod /\ {} \in SUBSET Pod
        BY <1>0 DEF PassType
      <3> QED BY <1>2, <3>1, UpdateOperationStatusType DEF reconcileCheckpointingPods
    <2>2. CASE Requeue
      <3>1. Quits
        BY <1>2, <2>1, <2>2 DEF reconcileCheckpointingPods, Quits, Requeue
      <3> QED BY <1>2, <3>1 DEF Steps, PassStep
    <2>3. CASE pass.group = {} /\ Continue("failed")
      <3>1. Moves("parked", "failed")
        BY <1>0, <1>2, <2>3, GoFacts DEF reconcileCheckpointingPods, Continue, Moves, At, Stage
      <3> QED BY <1>2, <2>3, <3>1 DEF Steps, Opens
    <2> QED BY <1>2, <2>2, <2>3 DEF reconcileCheckpointingPods
  <1>3. CASE handleFailedPodsForAllRacks
    <2> DEFINE failed == getServerFailedAndActivePods(Members(pass.rack)) \ pass.ignorable
               fix == [pass EXCEPT !.failed = failed]
    <2>1. Stage = "failed"
      BY <1>3 DEF handleFailedPodsForAllRacks, At, Stage
    <2>2. \/ pass' = [pass EXCEPT !.rack = @ + 1]
          \/ pass' = [pass EXCEPT !.rack = 1, !.pc = "rack"]
          \/ failed # {} /\ pass' = CallMFD("config", FALSE, "rack", fix)
          \/ failed # {} /\ pass' = [fix EXCEPT !.pc = "rack"]
      BY <1>3 DEF handleFailedPodsForAllRacks
    <2>3. /\ fix.spec = pass.spec /\ fix.ignorable = pass.ignorable /\ fix.failed = failed
          /\ fix.rack = pass.rack /\ fix.seen = pass.seen /\ fix.types = pass.types
      BY <1>0 DEF PassType
    <2>4. fix \in PassType
      <3>1. failed \subseteq Pod
        BY ThisRack DEF getServerFailedAndActivePods
      <3> QED BY <1>0, <3>1 DEF PassType
    <2> HIDE DEF fix, failed
    <2>5. CASE pass' = [pass EXCEPT !.rack = @ + 1]
      <3>1. NextFailed
        BY <1>0, <1>3, <2>1, <2>5 DEF PassType, NextFailed, SameLook, Stage
      <3> QED BY <3>1 DEF Steps
    <2>6. CASE pass' = [pass EXCEPT !.rack = 1, !.pc = "rack"]
      <3>1. NoneFailed
        BY <1>0, <1>3, <2>1, <2>6 DEF PassType, NoneFailed, SameLook, Stage
      <3> QED BY <3>1 DEF Steps
    <2>7. CASE failed # {} /\ (pass' = CallMFD("config", FALSE, "rack", fix) \/ pass' = [fix EXCEPT !.pc = "rack"])
      <3>1. /\ pass'.spec = fix.spec /\ pass'.ignorable = fix.ignorable /\ pass'.failed = fix.failed /\ Stage' = "rack"
            /\ pass'.rack = fix.rack /\ pass'.seen = fix.seen /\ pass'.types = fix.types
        BY <2>4, <2>7 DEF CallMFD, Stage, PassType
      <3>2. SomeFailed
        BY <1>3, <2>1, <2>3, <2>7, <3>1 DEF SomeFailed, SameLook, failed
      <3> QED BY <3>2 DEF Steps
    <2> QED BY <2>2, <2>5, <2>6, <2>7
  <1>4. CASE SetMFD \/ SaveMFD
    <2>1. Still /\ Stage' = Stage
      BY <1>0, <1>4, GoFacts DEF SetMFD, SaveMFD, Continue, At, Stage, Resumes
    <2> QED BY <1>4, <2>1 DEF Steps
  <1>5. CASE SetMFDFails
    <2>1. Quits
      BY <1>5 DEF SetMFDFails, Quits, Requeue
    <2> QED BY <1>5, <2>1 DEF Steps, PassStep
  <1>6. CASE updateSTSConfigMap
    <2>1. Moves("rack", "plan")
      BY <1>0, <1>6, GoFacts DEF updateSTSConfigMap, Continue, Moves, At, Stage
    <2> QED BY <1>6, <2>1 DEF Steps
  <1>7. CASE upgradeOrRollingRestartRack
    <2>1. CASE Requeue /\ UNCHANGED <<sts, scen, looks>>
      <3>1. Quits
        BY <1>7, <2>1, Plans DEF Quits, Requeue
      <3> QED BY <1>7, <3>1 DEF Steps, PassStep
    <2> QED BY <1>7, <2>1, Plans DEF Steps
  <1>8. CASE handleFailedPodsInRack
    <2>1. CASE pass' = Idle
      <3>1. CASE Requeue /\ UNCHANGED sts
        <4>1. Quits
          BY <1>8, <3>1, Forces DEF Quits, Requeue
        <4> QED BY <1>8, <4>1 DEF Steps, PassStep
      <3>2. CASE pass'.again
        BY <2>1, <3>2 DEF Idle
      <3> QED BY <1>8, <3>1, <3>2, Forces
    <2> QED BY <1>8, <2>1 DEF Steps
  <1> QED BY <1>1, <1>2, <1>3, <1>4, <1>5, <1>6, <1>7, <1>8

LEMMA MarkFacts ==
    ASSUME pass \in PassType, NEW ps, NEW next \in PCs \ {"setMFD", "saveMFD"}, MarkRemoved(ps, next)
    PROVE  Kept /\ SameBatch /\ SameGroup /\ pass'.done = pass.done /\ Stage' = next
  <1> DEFINE seen == IF (status.spec.s = 0 /\ pass.spec.s = 1) /\ ps # {}
                     THEN [p \in Pod |-> [Recorded(p) EXCEPT !.dirty =
                              [q \in Pod |-> IF (status.spec.s = 0 /\ pass.spec.s = 1) /\ q \in ps
                                             THEN [pods[q] EXCEPT !.dirty = TRUE] ELSE pods[q]][p].dirty]]
                     ELSE pass.seen
  <1>1. pass' = [pass EXCEPT !.pc = next, !.seen = seen]
    BY DEF MarkRemoved
  <1> HIDE DEF seen
  <1>2. Kept /\ SameBatch /\ SameGroup /\ pass'.done = pass.done /\ pass'.pc = next
    BY <1>1 DEF PassType, Kept, SameBatch, SameGroup
  <1> QED BY <1>2 DEF Stage

LEMMA BatchSteps ==
    ASSUME TypeOK,
           \/ SafeStop \/ waitForClusterStability \/ RaiseMFD \/ quiescePods
           \/ handleNSOrDeviceRemoval \/ triggerIndexCheckpointSave
           \/ \E p \in Pod : restartPods(p) \/ deletePodAndEnsureImageUpdated(p)
    PROVE  Steps
  <1> USE DEF cluster, history, looks
  <1>0. pass \in PassType /\ {"stable", "raise", "quiesce", "removal", "checkpoint", "restart", "record", "wait"} \subseteq PCs
    BY DEF TypeOK, PCs
  <1>1. CASE SafeStop
    <2>1. CASE Requeue
      <3>1. Quits
        BY <1>1, <2>1 DEF SafeStop, Quits, Requeue
      <3> QED BY <1>1, <3>1 DEF Steps, PassStep
    <2>2. ASSUME NEW value, pass' = CallMFD(value, FALSE, "stable", pass)
          PROVE  Moves("stop", "stable")
      BY <1>0, <1>1, <2>2, CallFacts DEF SafeStop, Moves, At, Stage
    <2> QED BY <1>1, <2>1, <2>2 DEF SafeStop, Steps
  <1>2. CASE waitForClusterStability
    <2>1. CASE Requeue
      <3>1. Quits
        BY <1>2, <2>1 DEF waitForClusterStability, Quits, Requeue
      <3> QED BY <1>2, <3>1 DEF Steps, PassStep
    <2>2. CASE Continue("raise")
      <3>1. Moves("stable", "raise")
        BY <1>0, <1>2, <2>2, GoFacts DEF waitForClusterStability, Continue, Moves, At, Stage
      <3> QED BY <1>2, <3>1 DEF Steps
    <2> QED BY <1>2, <2>1, <2>2 DEF waitForClusterStability
  <1>3. CASE RaiseMFD
    <2>1. Moves("raise", "quiesce")
      <3>1. CASE pass' = CallMFD("override", FALSE, "quiesce", pass)
        BY <1>0, <1>3, <3>1, CallFacts DEF RaiseMFD, Moves, At, Stage
      <3>2. CASE pass' = [pass EXCEPT !.pc = "quiesce"]
        BY <1>0, <1>3, <3>2, GoFacts DEF RaiseMFD, GoTo, Moves, At, Stage
      <3> QED BY <1>3, <3>1, <3>2 DEF RaiseMFD
    <2> QED BY <1>3, <2>1 DEF Steps
  <1>4. CASE quiescePods
    <2>1. CASE Requeue
      <3>1. Quits
        BY <1>4, <2>1 DEF quiescePods, Quits, Requeue
      <3> QED BY <1>4, <3>1 DEF Steps, PassStep
    <2>2. CASE Continue("removal")
      <3>1. Moves("quiesce", "removal")
        BY <1>0, <1>4, <2>2, GoFacts DEF quiescePods, Continue, Moves, At, Stage
      <3> QED BY <1>4, <3>1 DEF Steps
    <2> QED BY <1>4, <2>1, <2>2 DEF quiescePods
  <1>5. CASE handleNSOrDeviceRemoval
    <2> DEFINE next == IF pass.planned THEN "checkpoint" ELSE "restart"
    <2>1. next \in PCs \ {"setMFD", "saveMFD"} /\ MarkRemoved(pass.group, next)
      BY <1>0, <1>5 DEF handleNSOrDeviceRemoval
    <2> HIDE DEF next
    <2>2. Kept /\ SameBatch /\ SameGroup /\ pass'.done = pass.done /\ Stage' = next
      BY <1>0, <2>1, MarkFacts
    <2>3. Marks(pass.group, "removal", next)
      BY <1>5, <2>1, <2>2 DEF Marks, handleNSOrDeviceRemoval, At, Stage
    <2> QED BY <1>5, <2>3 DEF Steps, next
  <1>6. CASE triggerIndexCheckpointSave
    <2>1. CASE Requeue
      <3>1. Quits
        BY <1>6, <2>1 DEF triggerIndexCheckpointSave, Quits, Requeue
      <3> QED BY <1>6, <3>1 DEF Steps, PassStep
    <2>2. CASE Continue("restart") /\ pods' = pods
      <3>1. Moves("checkpoint", "restart")
        BY <1>0, <1>6, <2>2, GoFacts DEF triggerIndexCheckpointSave, Continue, Moves, At, Stage
      <3> QED BY <1>6, <2>2, <3>1 DEF Steps
    <2> QED BY <1>6, <2>1, <2>2 DEF triggerIndexCheckpointSave
  <1>7. ASSUME NEW p \in Pod, restartPods(p) \/ deletePodAndEnsureImageUpdated(p)
        PROVE  Steps
    <2>1. CASE Requeue
      <3>1. Quits
        BY <1>7, <2>1 DEF restartPods, deletePodAndEnsureImageUpdated, Quits, Requeue
      <3> QED BY <1>7, <3>1 DEF Steps, PassStep
    <2>2. CASE ~Requeue
      <3> DEFINE done == pass.done \cup {p}
      <3>1. PICK pc : /\ pass.pc = "restart" /\ p \in pass.group
                      /\ pass' = [pass EXCEPT !.done = done, !.pc = pc]
                      /\ pc = "restart" \/ (pc \in {"record", "wait"} /\ pass.group = done)
        BY <1>7, <2>2 DEF restartPods, deletePodAndEnsureImageUpdated, At
      <3> HIDE DEF done
      <3>2. /\ Kept /\ SameBatch /\ SameGroup /\ pass'.done = done /\ pass'.seen = pass.seen
            /\ pass'.pc = pc
        BY <1>0, <3>1 DEF PassType, Kept, SameBatch, SameGroup
      <3>3. RestartsOne(p)
        BY <1>7, <3>1, <3>2 DEF RestartsOne, Stage, done
      <3> QED BY <3>3 DEF Steps
    <2> QED BY <2>1, <2>2
  <1> QED BY <1>1, <1>2, <1>3, <1>4, <1>5, <1>6, <1>7

LEMMA EndingSteps ==
    ASSUME TypeOK,
           \/ RecordRestarts \/ ensurePodsRunningAndReady \/ ensurePodsImageUpdated \/ AfterBatch
           \/ updateDynamicConfig \/ (\E p \in Pod : setDynamicConfig(p))
           \/ handleNSOrDeviceRemovalForIgnorablePods \/ NextRack \/ undoQuiesceState
           \/ revertMFDToConfig \/ updateStatus \/ recoverIgnorablePods \/ waitForIgnorablePodsRecovery
    PROVE  Steps
  <1> USE DEF cluster, history, looks
  <1>0. /\ pass \in PassType
        /\ {"wait", "after", "stop", "ignored", "dynamic", "force", "next", "rack", "unquiesce", "revert", "finish",
            "recover"} \subseteq PCs
    BY DEF TypeOK, PCs
  <1>1. CASE RecordRestarts
    <2> DEFINE seen == Seen(OfType("quickRestart"), OfType("podRestart"))
    <2>1. pass' = [pass EXCEPT !.pc = "wait", !.seen = seen] /\ pass.pc = "record"
      BY <1>1 DEF RecordRestarts, At
    <2> HIDE DEF seen
    <2>2. Kept /\ SameBatch /\ SameGroup /\ pass'.done = pass.done /\ pass'.pc = "wait"
      BY <1>0, <2>1 DEF PassType, Kept, SameBatch, SameGroup
    <2>3. Records
      BY <1>1, <2>1, <2>2 DEF Records, Stage
    <2> QED BY <2>3 DEF Steps
  <1>2. CASE ensurePodsRunningAndReady \/ ensurePodsImageUpdated
    <2>0. BatchIsBack /\ pass.pc = "wait"
      BY <1>2 DEF ensurePodsRunningAndReady, ensurePodsImageUpdated, At
    <2>1. CASE Requeue
      <3>1. Quits
        BY <2>0, <2>1 DEF BatchIsBack, Quits, Requeue
      <3> QED BY <1>2, <3>1 DEF Steps, PassStep
    <2>2. CASE pass.active = {} /\ pass' = [pass EXCEPT !.pc = "after"]
      <3>1. Moves("wait", "after")
        BY <1>0, <2>0, <2>2, GoFacts DEF GoTo, Moves, Stage
      <3> QED BY <2>0, <2>2, <3>1 DEF Steps
    <2>3. CASE pass' = [pass EXCEPT !.group = pass.active, !.active = {}, !.planned = TRUE, !.done = {}, !.pc = "stop"]
      <3>1. /\ Kept /\ SameBatch /\ pass'.seen = pass.seen /\ pass'.group = pass.active /\ pass'.active = {}
            /\ pass'.pc = "stop"
        BY <1>0, <2>3 DEF PassType, Kept, SameBatch
      <3>2. NextGroup
        BY <2>0, <3>1 DEF NextGroup, Stage
      <3> QED BY <3>2 DEF Steps
    <2> QED BY <2>0, <2>1, <2>2, <2>3 DEF BatchIsBack
  <1>3. CASE AfterBatch
    <2>1. CASE Requeue
      <3>1. Quits
        BY <1>3, <2>1 DEF AfterBatch, Quits, Requeue
      <3> QED BY <1>3, <3>1 DEF Steps, PassStep
    <2>2. CASE ~pass.again /\ pass' = [pass EXCEPT !.done = {}, !.batch = {}, !.group = {},
                                                   !.pc = IF pass.upgrade THEN "ignored" ELSE "dynamic"]
      <3>1. /\ Kept /\ pass'.again = pass.again /\ pass'.upgrade = pass.upgrade /\ pass'.types = pass.types
            /\ pass'.seen = pass.seen /\ pass'.done = {} /\ pass'.pc = IF pass.upgrade THEN "ignored" ELSE "dynamic"
        BY <1>0, <2>2 DEF PassType, Kept
      <3>2. pass.pc = "after"
        BY <1>3 DEF AfterBatch, At
      <3>3. Stage' = (IF pass.upgrade THEN "ignored" ELSE "dynamic") /\ Stage = "after"
        BY <3>1, <3>2 DEF Stage
      <3>4. EndsBatch
        BY <1>3, <2>2, <3>1, <3>3 DEF EndsBatch
      <3> QED BY <3>4 DEF Steps
    <2> QED BY <1>3, <2>1, <2>2 DEF AfterBatch
  <1>4. CASE updateDynamicConfig
    <2>1. CASE Requeue
      <3>1. Quits
        BY <1>4, <2>1 DEF updateDynamicConfig, Quits, Requeue
      <3> QED BY <1>4, <3>1 DEF Steps, PassStep
    <2>2. CASE ConfPods \subseteq pass.done /\ Continue("ignored")
      <3>1. Moves("dynamic", "ignored")
        BY <1>0, <1>4, <2>2, GoFacts DEF updateDynamicConfig, Continue, Moves, At, Stage
      <3> QED BY <1>4, <2>2, <3>1 DEF Steps
    <2> QED BY <1>4, <2>1, <2>2 DEF updateDynamicConfig
  <1>5. ASSUME NEW p \in Pod, setDynamicConfig(p)
        PROVE  Steps
    <2>1. CASE Requeue
      <3>1. Quits
        BY <1>5, <2>1 DEF setDynamicConfig, Quits, Requeue
      <3> QED BY <1>5, <3>1 DEF Steps, PassStep
    <2>2. CASE /\ SetPod(p, [pods[p] EXCEPT !.live = cm[RackOf(p)].d, !.d = cm[RackOf(p)].d, !.unsaved = FALSE])
               /\ pass' = [pass EXCEPT !.done = @ \cup {p}]
      <3>1. /\ Kept /\ SameBatch /\ SameGroup /\ pass'.done = pass.done \cup {p} /\ pass'.seen = pass.seen
            /\ pass'.pc = pass.pc
        BY <1>0, <2>2 DEF PassType, Kept, SameBatch, SameGroup
      <3>2. pass.pc = "dynamic"
        BY <1>5 DEF setDynamicConfig, At
      <3>3. SetsOne(p)
        BY <1>5, <2>2, <3>1, <3>2 DEF SetsOne, Stage
      <3> QED BY <3>3 DEF Steps
    <2> QED BY <1>5, <2>1, <2>2 DEF setDynamicConfig
  <1>6. CASE handleNSOrDeviceRemovalForIgnorablePods
    <2>1. CASE Requeue
      <3>1. Quits
        BY <1>6, <2>1 DEF handleNSOrDeviceRemovalForIgnorablePods, Quits, Requeue
      <3> QED BY <1>6, <3>1 DEF Steps, PassStep
    <2> DEFINE next == IF pass.failed # {} THEN "force" ELSE "next"
    <2>2. CASE ~Requeue
      <3>1. PICK listed : MarkRemoved(pass.ignorable \cap listed, next)
        BY <1>6, <2>2 DEF handleNSOrDeviceRemovalForIgnorablePods
      <3>2. next \in PCs \ {"setMFD", "saveMFD"}
        BY <1>0
      <3> HIDE DEF next
      <3>3. Kept /\ SameBatch /\ SameGroup /\ pass'.done = pass.done /\ Stage' = next
        BY <1>0, <3>1, <3>2, MarkFacts
      <3>4. Marks(pass.ignorable \cap listed, "ignored", next)
        BY <1>6, <3>1, <3>3 DEF Marks, handleNSOrDeviceRemovalForIgnorablePods, At, Stage
      <3>5. \E ps \in SUBSET pass.ignorable : Marks(ps, "ignored", next)
        BY <3>4
      <3> QED BY <1>6, <3>5 DEF Steps, next
    <2> QED BY <2>1, <2>2
  <1>7. CASE NextRack
    <2>1. CASE Requeue
      <3>1. Quits
        BY <1>7, <2>1 DEF NextRack, Quits, Requeue
      <3> QED BY <1>7, <3>1 DEF Steps, PassStep
    <2>2. CASE pass.rack < NumRacks
      <3>1. pass' = [pass EXCEPT !.rack = @ + 1, !.types = NoTypes, !.done = {}, !.pc = "rack"] /\ pass.pc = "next"
        BY <1>7, <2>2 DEF NextRack, At
      <3>2. GoesOn
        BY <1>0, <1>7, <2>2, <3>1 DEF GoesOn, Stage, PassType
      <3> QED BY <3>2 DEF Steps
    <2>3. CASE ~(pass.rack < NumRacks) /\ ~Requeue
      <3>1. /\ waitForAllAerospikeServersReady /\ ~AServerFailed /\ Continue("unquiesce")
        BY <1>7, <2>3 DEF NextRack
      <3>2. pass.rack = NumRacks
        <4>1. pass.rack \in Rack
          BY ThisRack
        <4> QED BY SMT, <2>3, <4>1, RollingAssumption DEF RollingAssumption, Rack
      <3>3. Moves("next", "unquiesce")
        BY <1>0, <1>7, <3>1, GoFacts DEF NextRack, Continue, Moves, At, Stage
      <3> QED BY <1>7, <3>1, <3>2, <3>3 DEF Steps
    <2> QED BY <2>1, <2>2, <2>3
  <1>8. CASE undoQuiesceState
    <2>1. CASE Requeue
      <3>1. Quits
        BY <1>8, <2>1 DEF undoQuiesceState, Quits, Requeue
      <3> QED BY <1>8, <3>1 DEF Steps, PassStep
    <2>2. CASE Continue("revert")
      <3>1. Moves("unquiesce", "revert")
        BY <1>0, <1>8, <2>2, GoFacts DEF undoQuiesceState, Continue, Moves, At, Stage
      <3> QED BY <1>8, <3>1 DEF Steps
    <2> QED BY <1>8, <2>1, <2>2 DEF undoQuiesceState
  <1>9. CASE revertMFDToConfig
    <2>1. Moves("revert", "finish") /\ pass'.pc = "setMFD" /\ pass'.mfd = "config"
      BY <1>0, <1>9, CallFacts DEF revertMFDToConfig, Moves, At, Stage
    <2> QED BY <1>9, <2>1 DEF Steps
  <1>10. CASE updateStatus
    <2>1. CASE pass' = [pass EXCEPT !.done = {}, !.pc = "recover"]
      <3>1. /\ Kept /\ SameBatch /\ SameGroup /\ pass'.seen = pass.seen /\ pass'.done = {} /\ pass'.pc = "recover"
        BY <1>0, <2>1 DEF PassType, Kept, SameBatch, SameGroup
      <3>2. Reports
        BY <1>10, <3>1 DEF Reports, updateStatus, At, Stage
      <3> QED BY <3>2 DEF Steps
    <2> QED BY <1>10, <2>1 DEF updateStatus, Steps
  <1>11. CASE recoverIgnorablePods
    <2>1. CASE Requeue
      <3>1. Quits
        BY <1>11, <2>1 DEF recoverIgnorablePods, Quits, Requeue
      <3> QED BY <1>11, <3>1 DEF Steps, PassStep
    <2> DEFINE failed == getServerFailedAndActivePods(pass.ignorable)
    <2>2. CASE pass' = [pass EXCEPT !.done = failed]
      <3> HIDE DEF failed
      <3>1. /\ Kept /\ SameBatch /\ SameGroup /\ pass'.seen = pass.seen /\ pass'.done = failed /\ pass'.pc = pass.pc
        BY <1>0, <2>2 DEF PassType, Kept, SameBatch, SameGroup
      <3>2. Recovers
        BY <1>11, <3>1 DEF Recovers, recoverIgnorablePods, At, Stage, failed
      <3> QED BY <3>2 DEF Steps
    <2> QED BY <1>11, <2>1, <2>2 DEF recoverIgnorablePods
  <1>12. CASE waitForIgnorablePodsRecovery
    BY <1>12 DEF waitForIgnorablePodsRecovery, Requeue, Steps
  <1> QED BY <1>1, <1>2, <1>3, <1>4, <1>5, <1>6, <1>7, <1>8, <1>9, <1>10, <1>11, <1>12

LEMMA NextSteps ==
    ASSUME TypeOK, Resumes, [Next]_vars
    PROVE  Steps
  <1> USE DEF cluster, history, looks, outside
  <1>1. CASE UNCHANGED vars
    BY <1>1 DEF vars, Aside, Steps
  <1>2. CASE Interrupt
    <2>1. Quits
      BY <1>2 DEF Interrupt, Requeue, Quits
    <2> QED BY <1>2, <2>1 DEF Steps
  <1>3. CASE Edit
    BY <1>3 DEF Edit, Environment, Aside, Steps
  <1>4. ASSUME NEW p \in Pod,
               \/ EvictionRequest(p) \/ PodStarts(p) \/ PodStartFails(p) \/ PodPends(p) \/ PodCrashes(p)
               \/ PodRecovers(p) \/ PodLost(p) \/ SaveCompletes(p) \/ ParkTimesOut(p)
        PROVE  Steps
    <2>1. Environment
      BY <1>4 DEF Environment
    <2>2. UNCHANGED <<pass, status, cm, sts, looks, empty, passed>>
      BY <1>4 DEF EvictionRequest, PodStarts, PodStartFails, PodPends, PodCrashes, PodRecovers, PodLost,
                  SaveCompletes, ParkTimesOut
    <2> QED BY <2>1, <2>2 DEF Aside, Steps
  <1>5. CASE PassStep
    BY <1>5, OpeningSteps, BatchSteps, EndingSteps DEF PassStep
  <1> QED BY <1>1, <1>2, <1>3, <1>4, <1>5 DEF Next, Environment

-----------------------------------------------------------------------------
(* One batch out at a time *)

\* Only parked servers are out and up; a pod that is not up is not parked.
Sound(pod) ==
    /\ pod.server # "up" => pod.park = "no"
    /\ pod.out /\ pod.server = "up" => pod.park # "no"
    /\ pod.noted => pod.park # "no"

\* A change of a pod that takes nothing out.
Calm(a, b) == (b.out => a.out) /\ (b.noted => a.noted) /\ (a.park = "no" => b.park = "no")

\* What the changes of a pod mean for it.
LEMMA PodChanges ==
    ASSUME TypeOK, NEW p \in Pod, Sound(pods[p])
    PROVE  /\ Sound(Fresh(p)) /\ Calm(pods[p], Fresh(p))
           /\ LET b == [Fresh(p) EXCEPT !.server = "failed", !.out = pods[p].out]
              IN Sound(b) /\ Calm(pods[p], b)
           /\ Sound(Restarted(pods[p])) /\ Calm(pods[p], Restarted(pods[p]))
           /\ LET b == [Restarted(pods[p]) EXCEPT !.server = "failed"]
              IN Sound(b) /\ Calm(pods[p], b)
           /\ Sound(Down(pods[p])) /\ Calm(pods[p], Down(pods[p]))
           /\ Sound(restartASD(p)) /\ Calm(pods[p], restartASD(p))
  <1> USE DEF Sound, Calm
  <1>0. pods[p] \in PodType
    BY DEF TypeOK
  <1>1. Sound(Fresh(p)) /\ Calm(pods[p], Fresh(p))
    BY DEF Fresh
  <1>2. LET b == [Fresh(p) EXCEPT !.server = "failed", !.out = pods[p].out]
        IN Sound(b) /\ Calm(pods[p], b)
    BY DEF Fresh
  <1>3. Sound(Restarted(pods[p])) /\ Calm(pods[p], Restarted(pods[p]))
    BY <1>0 DEF Restarted, PodType
  <1>4. LET b == [Restarted(pods[p]) EXCEPT !.server = "failed"]
        IN Sound(b) /\ Calm(pods[p], b)
    BY <1>0 DEF Restarted, PodType
  <1>5. Sound(Down(pods[p])) /\ Calm(pods[p], Down(pods[p]))
    BY <1>0 DEF Down, PodType
  <1>6. Sound(restartASD(p)) /\ Calm(pods[p], restartASD(p))
    BY <1>0 DEF restartASD, Restarted, PodType
  <1> QED BY <1>1, <1>2, <1>3, <1>4, <1>5, <1>6

\* The changes nobody planned take nothing out.
AllSound == \A p \in Pod : Sound(pods[p])
AllCalm == \A p \in Pod : Calm(pods[p], pods'[p])

LEMMA OnePod ==
    ASSUME TypeOK, AllSound, NEW p \in Pod, NEW b, SetPod(p, b), Sound(b), Calm(pods[p], b)
    PROVE  AllSound' /\ AllCalm
  <1>1. \A q \in Pod : pods'[q] = IF q = p THEN b ELSE pods[q]
    BY DEF TypeOK, SetPod
  <1> QED BY <1>1 DEF AllSound, AllCalm, Calm

LEMMA EnvironmentCalm ==
    ASSUME TypeOK, AllSound, Environment \/ UNCHANGED vars
    PROVE  AllSound' /\ AllCalm
  <1> USE DEF cluster, history, looks, outside
  <1>1. CASE pods' = pods
    BY <1>1 DEF AllSound, AllCalm, Calm
  <1>2. CASE Edit \/ Interrupt \/ UNCHANGED vars
    BY <1>1, <1>2 DEF Edit, Interrupt, vars
  <1>3. ASSUME NEW p \in Pod,
               \/ PodStarts(p) \/ PodStartFails(p) \/ PodCrashes(p)
               \/ PodRecovers(p) \/ PodLost(p) \/ ParkTimesOut(p)
        PROVE  AllSound' /\ AllCalm
    <2>1. Sound(pods[p])
      BY DEF AllSound
    <2>2. PICK b \in {Fresh(p), [Fresh(p) EXCEPT !.server = "failed", !.out = pods[p].out], Restarted(pods[p]),
                      [Restarted(pods[p]) EXCEPT !.server = "failed"], Down(pods[p])} : SetPod(p, b)
      BY <1>3 DEF PodStarts, PodStartFails, PodCrashes, PodRecovers, PodLost, ParkTimesOut
    <2>3. Sound(b) /\ Calm(pods[p], b)
      BY <2>1, <2>2, PodChanges
    <2> QED BY <2>2, <2>3, OnePod
  <1>4. ASSUME NEW p \in Pod, EvictionRequest(p) \/ SaveCompletes(p) \/ PodPends(p)
        PROVE  AllSound' /\ AllCalm
    <2>1. Sound(pods[p]) /\ pods[p] \in PodType
      BY DEF AllSound, TypeOK
    <2>2. CASE EvictionRequest(p)
      <3>1. SetPod(p, [pods[p] EXCEPT !.evict = TRUE])
        BY <2>2 DEF EvictionRequest, SetPod
      <3>2. LET b == [pods[p] EXCEPT !.evict = TRUE]
            IN Sound(b) /\ Calm(pods[p], b)
        BY <2>1 DEF Sound, Calm, PodType
      <3> QED BY <3>1, <3>2, OnePod
    <2>3. CASE SaveCompletes(p)
      <3>1. SetPod(p, [pods[p] EXCEPT !.park = "saved"]) /\ pods[p].park = "saving"
        BY <2>3 DEF SaveCompletes
      <3>2. LET b == [pods[p] EXCEPT !.park = "saved"]
            IN Sound(b) /\ Calm(pods[p], b)
        BY <2>1, <3>1 DEF Sound, Calm, PodType
      <3> QED BY <3>1, <3>2, OnePod
    <2>4. CASE PodPends(p)
      <3> DEFINE w == Template(p).w
                 image == Template(p).image
                 b == [pods[p] EXCEPT !.server = "pending", !.w = w, !.image = image, !.evict = FALSE]
      <3>1. SetPod(p, b) /\ pods[p].server = "down"
        BY <2>4 DEF PodPends
      <3> HIDE DEF w, image
      <3>2. Sound(b) /\ Calm(pods[p], b)
        BY <2>1, <3>1 DEF Sound, Calm, PodType
      <3> QED BY <3>1, <3>2, OnePod
    <2> QED BY <1>4, <2>2, <2>3, <2>4
  <1> QED BY <1>2, <1>3, <1>4 DEF Environment

\* So do the steps of a pass, but for planned restarts and checkpoints.
LEMMA PassCalm ==
    ASSUME TypeOK, AllSound, PassStep
    PROVE  \/ AllSound' /\ AllCalm
           \/ triggerIndexCheckpointSave /\ pods' # pods
           \/ \E p \in Pod : restartPods(p) \/ deletePodAndEnsureImageUpdated(p)
  <1> USE DEF cluster, history, looks
  <1>0. \A p \in Pod : pods[p] \in PodType
    BY DEF TypeOK
  <1>1. CASE pods' = pods
    BY <1>1 DEF AllSound, AllCalm, Calm
  <1>2. ASSUME \A p \in Pod : Sound(pods'[p]) /\ Calm(pods[p], pods'[p])
        PROVE  AllSound' /\ AllCalm
    BY <1>2 DEF AllSound, AllCalm
  <1>3. \A p \in Pod : Sound(pods[p]) /\ Calm(pods[p], pods[p])
    BY DEF AllSound, Calm
  <1>4. CASE \/ Begin \/ reconcileCheckpointingPods \/ handleFailedPodsForAllRacks
             \/ SetMFDFails \/ SaveMFD \/ updateSTSConfigMap \/ upgradeOrRollingRestartRack
             \/ SafeStop \/ waitForClusterStability \/ RaiseMFD \/ handleFailedPodsInRack
    BY <1>1, <1>4 DEF Begin, reconcileCheckpointingPods, handleFailedPodsForAllRacks, SetMFDFails, SaveMFD,
                      updateSTSConfigMap, upgradeOrRollingRestartRack, SafeStop, waitForClusterStability, RaiseMFD,
                      handleFailedPodsInRack
  <1>5. CASE \/ RecordRestarts \/ ensurePodsRunningAndReady \/ ensurePodsImageUpdated \/ AfterBatch
             \/ updateDynamicConfig \/ NextRack \/ revertMFDToConfig \/ updateStatus \/ waitForIgnorablePodsRecovery
    BY <1>1, <1>5 DEF RecordRestarts, ensurePodsRunningAndReady, ensurePodsImageUpdated, BatchIsBack, AfterBatch,
                      updateDynamicConfig, NextRack, revertMFDToConfig, updateStatus, waitForIgnorablePodsRecovery
  <1>6. ASSUME NEW p \in Pod, pollAndDeleteParkedPods(p)
        PROVE  AllSound' /\ AllCalm
    BY <1>3, <1>6, PodChanges, OnePod DEF pollAndDeleteParkedPods
  <1>7. CASE recoverIgnorablePods
    <2>1. \A p \in Pod : Sound(Down(pods[p])) /\ Calm(pods[p], Down(pods[p]))
      BY <1>3, PodChanges
    <2>2. \A p \in Pod : pods'[p] \in {pods[p], Down(pods[p])}
      BY <1>7 DEF recoverIgnorablePods
    <2> QED BY <1>2, <1>3, <2>1, <2>2
  <1>8. CASE SetMFD
    <2>1. \A p \in Pod : Sound([pods[p] EXCEPT !.mfd = pass.mfd]) /\ Calm(pods[p], [pods[p] EXCEPT !.mfd = pass.mfd])
      BY <1>0, <1>3 DEF Sound, Calm, PodType
    <2>2. \A p \in Pod : pods'[p] \in {pods[p], [pods[p] EXCEPT !.mfd = pass.mfd]}
      BY <1>8 DEF SetMFD
    <2> QED BY <1>2, <1>3, <2>1, <2>2
  <1>9. CASE quiescePods \/ undoQuiesceState
    <2>1. \A p \in Pod : \A b \in BOOLEAN :
             Sound([pods[p] EXCEPT !.quiesced = b]) /\ Calm(pods[p], [pods[p] EXCEPT !.quiesced = b])
      BY <1>0, <1>3 DEF Sound, Calm, PodType
    <2>2. \A p \in Pod : pods'[p] = pods[p] \/ \E b \in BOOLEAN : pods'[p] = [pods[p] EXCEPT !.quiesced = b]
      <3>1. CASE quiescePods
        BY <3>1 DEF quiescePods
      <3>2. CASE undoQuiesceState
        <4>1. \A p \in Pod : (pods[p].quiesced /\ p \notin Reached) \in BOOLEAN
          BY SMT
        <4> QED BY <3>2, <4>1 DEF undoQuiesceState
      <3> QED BY <1>9, <3>1, <3>2
    <2>3. ASSUME NEW p \in Pod PROVE Sound(pods'[p]) /\ Calm(pods[p], pods'[p])
      BY <1>3, <2>1, <2>2
    <2> QED BY <1>2, <2>3
  <1>10. CASE handleNSOrDeviceRemoval \/ handleNSOrDeviceRemovalForIgnorablePods
    <2>1. \A p \in Pod : Sound([pods[p] EXCEPT !.dirty = TRUE]) /\ Calm(pods[p], [pods[p] EXCEPT !.dirty = TRUE])
      BY <1>0, <1>3 DEF Sound, Calm, PodType
    <2>2. pods' = pods \/ \E ps, next : MarkRemoved(ps, next)
      BY <1>10 DEF handleNSOrDeviceRemoval, handleNSOrDeviceRemovalForIgnorablePods
    <2>3. \A p \in Pod : pods'[p] \in {pods[p], [pods[p] EXCEPT !.dirty = TRUE]}
      BY <2>2 DEF MarkRemoved
    <2> QED BY <1>2, <1>3, <2>1, <2>3
  <1>11. ASSUME NEW p \in Pod, setDynamicConfig(p)
         PROVE  AllSound' /\ AllCalm
    <2> DEFINE conf == cm[RackOf(p)].d
    <2>1. PICK b : /\ SetPod(p, b)
                   /\ \/ b = [pods[p] EXCEPT !.live = conf, !.d = conf, !.unsaved = FALSE]
                      \/ b = [pods[p] EXCEPT !.live = Half, !.partial = TRUE]
                      \/ b = [pods[p] EXCEPT !.live = conf, !.unsaved = TRUE]
      BY <1>11 DEF setDynamicConfig
    <2> HIDE DEF conf
    <2>2. b.server = pods[p].server /\ b.park = pods[p].park /\ b.out = pods[p].out /\ b.noted = pods[p].noted
      BY <1>0, <2>1 DEF PodType
    <2>3. Sound(b) /\ Calm(pods[p], b)
      BY <1>3, <2>2 DEF Sound, Calm
    <2> QED BY <2>1, <2>3, OnePod
  <1>12. CASE triggerIndexCheckpointSave
    BY <1>1, <1>12
  <1> QED BY <1>4, <1>5, <1>6, <1>7, <1>8, <1>9, <1>10, <1>11, <1>12 DEF PassStep

\* As many pods of each rack, as many racks.
LEMMA RackBound ==
    ASSUME NEW chosen \in SUBSET Pod, NEW k \in Nat,
           \A r \in Rack : Cardinality(chosen \cap Members(r)) <= k
    PROVE  IsFiniteSet(chosen) /\ Cardinality(chosen) <= NumRacks * k
  <1> DEFINE Mine(r) == chosen \cap Members(r)
             B(r) == CHOOSE b : b \in Bijection(1 .. Cardinality(Mine(r)), Mine(r))
             J(p) == CHOOSE i \in 1 .. k : B(RackOf(p))[i] = p
             f == [p \in chosen |-> <<RackOf(p), J(p)>>]
  <1>1. IsFiniteSet(chosen)
    BY RollingAssumption, FS_Subset DEF RollingAssumption
  <1>2. \A r \in Rack : /\ Cardinality(Mine(r)) \in Nat /\ Cardinality(Mine(r)) <= k
                        /\ B(r) \in Bijection(1 .. Cardinality(Mine(r)), Mine(r))
    <2>1. \A r \in Rack : IsFiniteSet(Mine(r)) /\ Mine(r) \in SUBSET chosen
      BY <1>1, FS_Subset
    <2> QED BY <2>1, FS_CardinalityType DEF ExistsBijection
  <1>3. ASSUME NEW p \in chosen
        PROVE  RackOf(p) \in Rack /\ \E i \in 1 .. k : B(RackOf(p))[i] = p
    <2>1. RackOf(p) \in Rack /\ p \in Mine(RackOf(p))
      BY RackOfPod
    <2>2. B(RackOf(p)) \in Bijection(1 .. Cardinality(Mine(RackOf(p))), Mine(RackOf(p)))
      BY <1>2, <2>1
    <2>3. PICK i \in 1 .. Cardinality(Mine(RackOf(p))) : B(RackOf(p))[i] = p
      BY <2>1, <2>2 DEF Bijection, Surjection
    <2>4. i \in 1 .. k
      <3>1. \A n \in Nat : n <= k => 1 .. n \subseteq 1 .. k
        BY SMT
      <3> QED BY <1>2, <2>1, <2>3, <3>1
    <2> QED BY <2>1, <2>3, <2>4
  <1>4. \A p \in chosen : RackOf(p) \in Rack /\ J(p) \in 1 .. k /\ B(RackOf(p))[J(p)] = p
    <2> HIDE DEF B
    <2> QED BY <1>3
  <1> HIDE DEF B, J
  <1>5. f \in [chosen -> Rack \X (1 .. k)]
    BY SMT, <1>4
  <1>6. ASSUME NEW p \in chosen, NEW q \in chosen, f[p] = f[q]
        PROVE  p = q
    <2>1. RackOf(p) = RackOf(q) /\ J(p) = J(q)
      BY SMT, <1>6
    <2> QED BY <1>4, <2>1
  <1>7. f \in Injection(chosen, Rack \X (1 .. k))
    <2> HIDE DEF f
    <2>1. IsInjective(f)
      BY <1>5, <1>6 DEF IsInjective
    <2> QED BY <1>5, <2>1 DEF Injection
  <1> HIDE DEF f
  <1>8. /\ IsFiniteSet(Rack) /\ Cardinality(Rack) = NumRacks
        /\ IsFiniteSet(1 .. k) /\ Cardinality(1 .. k) = k
    <2>1. NumRacks \in Nat /\ NumRacks > 0
      BY SMT, RollingAssumption DEF RollingAssumption
    <2>0. 1 \in Int /\ k \in Int /\ NumRacks \in Int
      BY SMT, <2>1
    <2>2. Cardinality(1 .. k) = IF 1 > k THEN 0 ELSE k - 1 + 1
      BY <2>0, FS_Interval
    <2>3. Cardinality(1 .. NumRacks) = IF 1 > NumRacks THEN 0 ELSE NumRacks - 1 + 1
      BY <2>0, FS_Interval
    <2>4. IsFiniteSet(1 .. k) /\ IsFiniteSet(1 .. NumRacks)
      BY <2>0, FS_Interval
    <2> QED BY SMT, <2>1, <2>2, <2>3, <2>4 DEF Rack
  <1>9. IsFiniteSet(Rack \X (1 .. k)) /\ Cardinality(Rack \X (1 .. k)) = NumRacks * k
    BY <1>8, FS_Product
  <1>10. Cardinality(chosen) <= Cardinality(Rack \X (1 .. k))
    BY <1>7, <1>9, FS_Injection
  <1> QED BY <1>1, <1>9, <1>10

\* Pods out that are overlooked or of one batch are not too many.
OutPods == {p \in Pod : pods[p].out}

LEMMA OutBound ==
    ASSUME NEW ignorable \in SUBSET Pod, NEW batch \in SUBSET Pod, NEW out \in SUBSET (ignorable \cup batch),
           NEW n \in Nat, NEW k \in Nat, Cardinality(batch) <= n,
           \A r \in Rack : Cardinality(ignorable \cap Members(r)) <= k
    PROVE  Cardinality(out) <= n + NumRacks * k
  <1>1. IsFiniteSet(ignorable) /\ Cardinality(ignorable) <= NumRacks * k
    BY RackBound
  <1>2. IsFiniteSet(batch)
    BY RollingAssumption, FS_Subset DEF RollingAssumption
  <1>3. /\ IsFiniteSet(ignorable \cup batch)
        /\ Cardinality(ignorable \cup batch)
              = Cardinality(ignorable) + Cardinality(batch) - Cardinality(ignorable \cap batch)
    BY <1>1, <1>2, FS_Union
  <1>4. /\ Cardinality(ignorable) \in Nat /\ Cardinality(batch) \in Nat
        /\ Cardinality(ignorable \cap batch) \in Nat
    BY <1>1, <1>2, FS_CardinalityType, FS_Intersection
  <1>5. Cardinality(out) <= Cardinality(ignorable \cup batch) /\ Cardinality(out) \in Nat
    BY <1>3, FS_Subset, FS_CardinalityType
  <1> DEFINE m == NumRacks * k
  <1>6. m \in Int /\ Cardinality(ignorable) <= m
    <2>1. m \in Int
      BY SMT, RollingAssumption DEF RollingAssumption
    <2> QED BY <1>1, <2>1
  <1> HIDE DEF m
  <1>7. Cardinality(out) <= n + m
    BY SMT, <1>3, <1>4, <1>5, <1>6
  <1> QED BY <1>7 DEF m

\* Fewer pods out are not too many either.
LEMMA OutLess ==
    ASSUME TypeOK, OneBatchOut, Limits, OutPods' \subseteq OutPods
    PROVE  OneBatchOut'
  <1>1. scen.batch \in Nat /\ scen.ignorable \in Nat /\ NumRacks \in Nat
    BY RollingAssumption DEF TypeOK, ScenarioType, RollingAssumption
  <1>2. OutPods \in SUBSET Pod /\ OutPods' \in SUBSET OutPods
    BY DEF OutPods
  <1>3. IsFiniteSet(OutPods)
    BY <1>2, RollingAssumption, FS_Subset DEF RollingAssumption
  <1>4. Cardinality(OutPods') <= Cardinality(OutPods) /\ Cardinality(OutPods) \in Nat /\ Cardinality(OutPods') \in Nat
    BY <1>2, <1>3, FS_Subset, FS_CardinalityType
  <1>5. Cardinality(OutPods) <= scen.batch + NumRacks * scen.ignorable
    BY DEF OneBatchOut, OutPods
  <1>6. Cardinality(OutPods') <= scen.batch + NumRacks * scen.ignorable
    BY SMT, <1>1, <1>4, <1>5
  <1> QED BY <1>6 DEF OneBatchOut, OutPods, Limits

\* Planned restarts and checkpoints take out pods of the group only.
LEMMA TakenOut ==
    ASSUME TypeOK, AllSound, [Next]_vars
    PROVE  /\ AllSound'
           /\ \/ AllCalm
              \/ /\ pass.pc = "checkpoint" /\ pass' = Idle
                 /\ \A p \in Pod \ pass.group : Calm(pods[p], pods'[p])
              \/ /\ pass.pc = "restart" /\ pass.planned
                 /\ \A p \in Pod : \/ Calm(pods[p], pods'[p])
                                   \/ p \in pass.group /\ ~pods'[p].noted /\ pods'[p].park = "no"
  <1>0. \A p \in Pod : Sound(pods[p]) /\ Calm(pods[p], pods[p]) /\ pods[p] \in PodType
    BY DEF AllSound, Calm, TypeOK
  <1>1. CASE Environment \/ UNCHANGED vars
    BY <1>1, EnvironmentCalm
  <1>2. CASE triggerIndexCheckpointSave /\ pods' # pods
    <2>1. PICK save \in SUBSET pass.group, noted \in SUBSET pass.group :
             /\ \A p \in save : pods[p].server = "up"
             /\ pods' = [p \in Pod |-> IF p \notin save THEN pods[p]
                                       ELSE [pods[p] EXCEPT !.park = "saving", !.noted = (p \in noted), !.out = TRUE]]
             /\ pass.pc = "checkpoint" /\ pass' = Idle
      <3> DEFINE save == {p \in pass.group : /\ scen.checkpoint
                                             /\ pass.types[p] = "podRestart"
                                             /\ splitCheckpointNamespaces(p)}
      <3>1. save \in SUBSET pass.group /\ \A noted \in SUBSET save : noted \in SUBSET pass.group
        OBVIOUS
      <3>2. /\ \A p \in save : pods[p].server = "up"
            /\ \E noted \in SUBSET save :
                /\ pods' = [p \in Pod |-> IF p \notin save THEN pods[p]
                                          ELSE [pods[p] EXCEPT !.park = "saving", !.noted = (p \in noted), !.out = TRUE]]
                /\ Requeue
        BY <1>2 DEF triggerIndexCheckpointSave
      <3>3. pass.pc = "checkpoint"
        BY <1>2 DEF triggerIndexCheckpointSave, At
      <3> HIDE DEF save
      <3> QED BY <3>1, <3>2, <3>3 DEF Requeue
    <2>2. \A p \in Pod : pods'[p] = pods[p] \/ (p \in save /\ \E b \in BOOLEAN :
                            pods'[p] = [pods[p] EXCEPT !.park = "saving", !.noted = b, !.out = TRUE])
      <3>1. \A p : (p \in noted) \in BOOLEAN
        BY SMT
      <3> QED BY <2>1, <3>1
    <2>3. ASSUME NEW p \in Pod, NEW b \in BOOLEAN, p \in save
          PROVE  Sound([pods[p] EXCEPT !.park = "saving", !.noted = b, !.out = TRUE])
      BY <1>0, <2>1, <2>3 DEF Sound, PodType
    <2>4. AllSound'
      <3> SUFFICES ASSUME NEW p \in Pod PROVE Sound(pods'[p])
        BY DEF AllSound
      <3>1. CASE pods'[p] = pods[p]
        BY <1>0, <3>1
      <3>2. ASSUME NEW b \in BOOLEAN, p \in save,
                   pods'[p] = [pods[p] EXCEPT !.park = "saving", !.noted = b, !.out = TRUE]
            PROVE  Sound(pods'[p])
        <4>1. Sound([pods[p] EXCEPT !.park = "saving", !.noted = b, !.out = TRUE])
          BY <2>3, <3>2
        <4> QED BY <3>2, <4>1
      <3> QED BY <2>2, <3>1, <3>2
    <2>5. \A p \in Pod \ pass.group : Calm(pods[p], pods'[p])
      BY <1>0, <2>1, <2>2
    <2> QED BY <2>1, <2>4, <2>5
  <1>3. ASSUME NEW p \in Pod, restartPods(p) \/ deletePodAndEnsureImageUpdated(p)
        PROVE  /\ AllSound'
               /\ \/ AllCalm
                  \/ /\ pass.pc = "restart" /\ pass.planned
                     /\ \A q \in Pod : \/ Calm(pods[q], pods'[q])
                                       \/ q \in pass.group /\ ~pods'[q].noted /\ pods'[q].park = "no"
    <2> DEFINE out == pass.planned
               down == [Down(pods[p]) EXCEPT !.out = out]
    <2>1. pass.pc = "restart" /\ p \in pass.group
      BY <1>3 DEF restartPods, deletePodAndEnsureImageUpdated, At
    <2>2. pods' = pods \/ SetPod(p, restartASD(p)) \/ SetPod(p, down)
      BY <1>3 DEF restartPods, deletePodAndEnsureImageUpdated
    <2>3. CASE pods' = pods
      BY <1>0, <2>3 DEF AllSound, AllCalm
    <2>4. CASE SetPod(p, restartASD(p))
      BY <1>0, <2>4, PodChanges, OnePod
    <2>5. out \in BOOLEAN
      BY DEF TypeOK, PassType
    <2> HIDE DEF out
    <2>6. Sound(down) /\ (~out => Calm(pods[p], down)) /\ ~down.noted /\ down.park = "no"
      BY <1>0, <2>5 DEF Sound, Calm, Down, PodType
    <2>7. CASE SetPod(p, down) /\ ~out
      BY <2>6, <2>7, OnePod
    <2>8. CASE SetPod(p, down) /\ out
      <3>1. \A q \in Pod : pods'[q] = IF q = p THEN down ELSE pods[q]
        BY <2>8 DEF TypeOK, SetPod
      <3> HIDE DEF down
      <3>2. AllSound'
        BY <1>0, <2>6, <3>1 DEF AllSound
      <3>3. \A q \in Pod : \/ Calm(pods[q], pods'[q])
                           \/ q \in pass.group /\ ~pods'[q].noted /\ pods'[q].park = "no"
        BY <1>0, <2>1, <2>6, <3>1
      <3> QED BY <2>1, <2>8, <3>2, <3>3 DEF out
    <2> QED BY <2>2, <2>3, <2>4, <2>7, <2>8
  <1> QED BY <1>1, <1>2, <1>3, PassCalm DEF Next

\* The step that follows setMigrateFillDelay is one that calls it.
LEMMA ResumesKept ==
    ASSUME TypeOK, Resumes, [Next]_vars
    PROVE  Resumes'
  <1> USE DEF Resumes
  <1>0. pass \in PassType
    BY DEF TypeOK
  <1>1. CASE pass' = Idle \/ pass' = pass
    <2>1. Idle.pc = "idle"
      BY DEF Idle
    <2> QED BY <1>1, <2>1
  <1>2. ASSUME pass'.pc \notin {"setMFD", "saveMFD"}
        PROVE  Resumes'
    BY <1>2
  <1>3. ASSUME NEW pc \in PCs \ {"setMFD", "saveMFD"}, GoTo(pc)
        PROVE  Resumes'
    BY <1>0, <1>2, <1>3, GoFacts
  <1>4. PCs \ {"setMFD", "saveMFD"} = {"idle", "parked", "failed", "rack", "plan", "stop", "stable", "raise",
        "quiesce", "removal", "checkpoint", "restart", "record", "wait", "after", "force", "dynamic",
        "ignored", "next", "unquiesce", "revert", "finish", "recover"}
    BY SMT DEF PCs
  <1>5. ASSUME NEW value, NEW force \in BOOLEAN, NEW resume \in {"rack", "stable", "quiesce", "finish"},
               NEW p \in PassType, p.pc \notin {"setMFD", "saveMFD"}, pass' = CallMFD(value, force, resume, p)
        PROVE  Resumes'
    <2>1. CASE pass' = [p EXCEPT !.pc = resume]
      BY <2>1 DEF PassType
    <2>2. CASE pass' = [p EXCEPT !.pc = "setMFD", !.mfd = value, !.resume = resume]
      BY <2>2 DEF PassType
    <2> QED BY <1>5, <2>1, <2>2 DEF CallMFD
  <1>6. CASE Environment \/ UNCHANGED vars
    BY <1>1, <1>6 DEF Environment, Edit, Interrupt, Requeue, EvictionRequest, PodStarts, PodStartFails, PodPends,
                      PodCrashes, PodRecovers, PodLost, SaveCompletes, ParkTimesOut, vars, outside
  <1>7. CASE \/ SetMFDFails \/ waitForClusterStability \/ quiescePods \/ triggerIndexCheckpointSave
             \/ updateDynamicConfig \/ undoQuiesceState \/ updateSTSConfigMap \/ reconcileCheckpointingPods
             \/ waitForIgnorablePodsRecovery
    BY <1>1, <1>3, <1>4, <1>7 DEF SetMFDFails, waitForClusterStability, quiescePods, triggerIndexCheckpointSave,
          updateDynamicConfig, undoQuiesceState, updateSTSConfigMap, reconcileCheckpointingPods, Requeue, Continue,
          waitForIgnorablePodsRecovery
  <1>8. CASE Begin
    BY <1>8 DEF Begin, Idle
  <1>9. ASSUME NEW p \in Pod, pollAndDeleteParkedPods(p)
        PROVE  Resumes'
    BY <1>0, <1>9 DEF pollAndDeleteParkedPods, At, PassType
  <1>10. CASE handleFailedPodsForAllRacks
    <2> DEFINE failed == getServerFailedAndActivePods(Members(pass.rack)) \ pass.ignorable
               fix == [pass EXCEPT !.failed = failed]
    <2>1. pass.pc = "failed"
      BY <1>10 DEF handleFailedPodsForAllRacks, At
    <2>2. \/ pass' = [pass EXCEPT !.rack = @ + 1]
          \/ pass' = [pass EXCEPT !.rack = 1, !.pc = "rack"]
          \/ failed # {} /\ pass' = CallMFD("config", FALSE, "rack", fix)
          \/ failed # {} /\ pass' = [fix EXCEPT !.pc = "rack"]
      BY <1>10 DEF handleFailedPodsForAllRacks
    <2>3. failed \subseteq Pod
      BY ThisRack DEF getServerFailedAndActivePods
    <2> HIDE DEF failed
    <2>4. fix \in PassType /\ fix.pc = "failed"
      BY <1>0, <2>1, <2>3 DEF PassType
    <2>5. CASE pass' = CallMFD("config", FALSE, "rack", fix)
      BY <1>5, <2>4, <2>5
    <2>6. CASE pass' = [fix EXCEPT !.pc = "rack"]
      <3> HIDE DEF fix
      <3> QED BY <2>4, <2>6 DEF PassType
    <2>7. CASE pass' = [pass EXCEPT !.rack = @ + 1] \/ pass' = [pass EXCEPT !.rack = 1, !.pc = "rack"]
      BY <1>0, <2>1, <2>7 DEF PassType
    <2> QED BY <2>2, <2>5, <2>6, <2>7
  <1>11. CASE SetMFD
    BY <1>0, <1>11, GoFacts DEF SetMFD, Continue, At, PCs
  <1>12. CASE SaveMFD
    <2>1. pass.resume \in {"rack", "stable", "quiesce", "finish"} /\ Continue(pass.resume)
      BY <1>12 DEF SaveMFD, At
    <2> QED BY <1>3, <1>4, <2>1 DEF Continue
  <1>13. CASE upgradeOrRollingRestartRack
    BY <1>1, <1>13, Plans DEF Requeue, Planned, Batched
  <1>14. CASE handleFailedPodsInRack
    BY <1>1, <1>14, Forces DEF Requeue, Batched
  <1>15. CASE SafeStop \/ revertMFDToConfig
    <2>1. pass.pc \notin {"setMFD", "saveMFD"}
      BY <1>15 DEF SafeStop, revertMFDToConfig, At
    <2> DEFINE value == IF Drain THEN "zero" ELSE "config"
    <2>2. \/ pass' = Idle
          \/ pass' = CallMFD(value, FALSE, "stable", pass)
          \/ pass' = CallMFD("config", TRUE, "finish", pass)
      BY <1>15 DEF SafeStop, revertMFDToConfig, Requeue
    <2> HIDE DEF value
    <2> QED BY <1>0, <1>1, <1>5, <2>1, <2>2
  <1>16. CASE RaiseMFD
    <2>1. pass.pc \notin {"setMFD", "saveMFD"}
      BY <1>16 DEF RaiseMFD, At
    <2>2. GoTo("quiesce") \/ pass' = CallMFD("override", FALSE, "quiesce", pass)
      BY <1>16 DEF RaiseMFD, GoTo
    <2> QED BY <1>0, <1>3, <1>4, <1>5, <2>1, <2>2
  <1>17. CASE handleNSOrDeviceRemoval \/ handleNSOrDeviceRemovalForIgnorablePods
    <2>1. pass' = Idle \/ \E ps : \/ MarkRemoved(ps, "checkpoint") \/ MarkRemoved(ps, "restart")
                                 \/ MarkRemoved(ps, "force") \/ MarkRemoved(ps, "next")
      BY <1>17 DEF handleNSOrDeviceRemoval, handleNSOrDeviceRemovalForIgnorablePods, Requeue
    <2> QED BY <1>0, <1>1, <2>1 DEF MarkRemoved, PassType
  <1>18. ASSUME NEW p \in Pod, restartPods(p) \/ deletePodAndEnsureImageUpdated(p)
         PROVE  Resumes'
    <2>1. pass.pc = "restart"
      BY <1>18 DEF restartPods, deletePodAndEnsureImageUpdated, At
    <2> DEFINE done == pass.done \cup {p}
    <2>2. \/ pass' = Idle
          \/ pass' = [pass EXCEPT !.done = done, !.pc = IF done # pass.group THEN @ ELSE "record"]
          \/ pass' = [pass EXCEPT !.done = done, !.pc = IF done # pass.group THEN @ ELSE "wait"]
      BY <1>18, <2>1 DEF restartPods, deletePodAndEnsureImageUpdated, Requeue
    <2> HIDE DEF done
    <2> QED BY <1>0, <1>1, <2>1, <2>2 DEF PassType
  <1>19. CASE RecordRestarts
    BY <1>0, <1>19 DEF RecordRestarts, PassType
  <1>20. CASE ensurePodsRunningAndReady \/ ensurePodsImageUpdated
    BY <1>0, <1>1, <1>20 DEF ensurePodsRunningAndReady, ensurePodsImageUpdated, BatchIsBack, Requeue, PassType
  <1>21. CASE AfterBatch
    <2>1. pass' = Idle \/ \E pc \in {"ignored", "dynamic"} :
             pass' = [pass EXCEPT !.done = {}, !.batch = {}, !.group = {}, !.pc = pc]
      BY <1>21 DEF AfterBatch, Requeue
    <2> QED BY <1>0, <1>1, <2>1 DEF PassType
  <1>22. ASSUME NEW p \in Pod, setDynamicConfig(p)
         PROVE  Resumes'
    BY <1>0, <1>1, <1>22 DEF setDynamicConfig, Requeue, At, PassType
  <1>23. CASE NextRack
    BY <1>0, <1>1, <1>3, <1>4, <1>23 DEF NextRack, Continue, Requeue, PassType
  <1>24. CASE updateStatus
    BY <1>0, <1>1, <1>24 DEF updateStatus, PassType
  <1>25. CASE recoverIgnorablePods
    BY <1>0, <1>1, <1>25 DEF recoverIgnorablePods, Requeue, At, PassType
  <1> QED BY <1>6, <1>7, <1>8, <1>9, <1>10, <1>11, <1>12, <1>13, <1>14, <1>15, <1>16, <1>17, <1>18, <1>19, <1>20,
             <1>21, <1>22, <1>23, <1>24, <1>25 DEF Next, PassStep

\* A pass takes pods out only when it has seen all others in the cluster: once
\* past waitForClusterStability only overlooked pods are out, and after that
\* those of the batch.  It never gets so far while a checkpoint is noted.
InBatch == Stage \in {"stop", "stable", "raise", "quiesce", "removal", "checkpoint", "restart", "record", "wait"}
StageOut ==
    /\ Stage \notin {"idle", "parked"} \/ (Stage = "parked" /\ pass.group = {}) => \A p \in Pod : ~pods[p].noted
    /\ Stage \notin {"idle", "parked"} => \A p \in pass.failed : pods[p].park = "no"
    /\ Stage \in {"idle", "parked", "failed"} => pass.failed = {}
    /\ Stage = "stable" => \A p \in pass.failed \ pass.ignorable : ~pods[p].out
    /\ Stage \in {"raise", "quiesce", "checkpoint"} => OutPods \subseteq pass.ignorable
    /\ Stage = "removal" /\ pass.planned => OutPods \subseteq pass.ignorable
    /\ Stage = "restart" /\ pass.planned => OutPods \subseteq pass.ignorable \cup pass.batch
    /\ InBatch => /\ pass.group \cup pass.active \subseteq pass.batch
                  /\ pass.batch \cap pass.ignorable = {}
                  /\ Cardinality(pass.batch) <= scen.batch
FewIgnored == \A r \in Rack : Cardinality(pass.ignorable \cap Members(r)) <= scen.ignorable

OutInv == Resumes /\ AllSound /\ FewIgnored /\ StageOut /\ OneBatchOut

LEMMA IdleFacts ==
    /\ Idle.pc = "idle" /\ Idle.ignorable = {} /\ Idle.failed = {} /\ Idle.group = {} /\ Idle.done = {}
    /\ Idle.spec = FirstSpec /\ Idle.rack = 1 /\ ~Idle.again
  BY DEF Idle

LEMMA BeginFacts ==
    ASSUME Begin
    PROVE  /\ Stage = "idle" /\ Stage' = "parked" /\ UNCHANGED pods
           /\ pass'.failed = {} /\ pass'.done = {} /\ pass'.group = {p \in Pod : pods[p].noted}
           /\ pass'.spec = spec /\ pass'.seen = [p \in Pod |-> Recorded(p)] /\ ~pass'.again
  BY DEF Begin, Idle, Stage, At

LEMMA PollFacts ==
    ASSUME TypeOK, NEW p \in Pod, pollAndDeleteParkedPods(p)
    PROVE  /\ Stage = "parked" /\ Stage' = "parked" /\ Kept /\ SameBatch /\ SameGroup
           /\ pass'.seen = pass.seen /\ pass'.done = pass.done \cup {p}
  <1>1. pass \in PassType
    BY DEF TypeOK
  <1> QED BY <1>1 DEF pollAndDeleteParkedPods, Kept, SameBatch, SameGroup, PassType, Stage, At

LEMMA FewIgnoredKept ==
    ASSUME TypeOK, Resumes, FewIgnored, [Next]_vars
    PROVE  FewIgnored'
  <1>0. scen.ignorable \in Nat /\ Limits
    BY SameLimits DEF TypeOK, ScenarioType
  <1>1. CASE pass'.ignorable = pass.ignorable
    BY <1>0, <1>1 DEF FewIgnored, Limits
  <1>2. CASE pass' = Idle
    <2>1. \A r \in Rack : Idle.ignorable \cap Members(r) = {}
      BY IdleFacts
    <2>2. Cardinality({}) <= scen.ignorable
      BY SMT, <1>0, FS_EmptySet
    <2> QED BY <1>0, <1>2, <2>1, <2>2 DEF FewIgnored, Limits
  <1>3. CASE Begin
    <2>1. PICK listed, chosen \in SUBSET Pod : getIgnorablePods(listed, chosen) /\ pass'.ignorable = chosen
      <3>1. PICK gone, chosen \in SUBSET Pod :
               /\ getIgnorablePods(Pod \ gone, chosen)
               /\ pass' = [Idle EXCEPT !.pc = "parked", !.spec = spec, !.seen = [p \in Pod |-> Recorded(p)],
                                       !.ignorable = chosen, !.group = {p \in Pod : pods[p].noted}]
        BY <1>3 DEF Begin
      <3>2. pass'.ignorable = chosen
        BY <3>1 DEF Idle
      <3> QED BY <3>1, <3>2
    <2>2. \A r \in Rack : Cardinality(chosen \cap Members(r)) <= scen.ignorable
      BY SMT, <1>0, <2>1 DEF getIgnorablePods
    <2> QED BY <1>0, <2>1, <2>2 DEF FewIgnored, Limits
  <1>4. CASE \E p \in Pod : pollAndDeleteParkedPods(p)
    BY <1>1, <1>4, PollFacts DEF Kept
  <1>5. CASE handleFailedPodsInRack /\ pass' # Idle
    BY <1>1, <1>5, Forces DEF Kept, Requeue
  <1> QED BY <1>1, <1>2, <1>3, <1>4, <1>5, NextSteps
          DEF Steps, Aside, Quits, Opens, NextFailed, NoneFailed, SomeFailed, RestartsOne, SetsOne, Still, Moves, Planned,
              Marks, Records, NextGroup, EndsBatch, GoesOn, Reports, Recovers, Kept

\* No more pods are out than one batch and those overlooked.
LEMMA OutKept ==
    ASSUME TypeOK, TypeOK', OutInv, [Next]_vars
    PROVE  OneBatchOut'
  <1>0. Limits
    BY SameLimits
  <1>1. CASE AllCalm
    BY <1>0, <1>1, OutLess DEF AllCalm, Calm, OutPods, OutInv
  <1>2. CASE /\ InBatch /\ OutPods' \subseteq pass.ignorable \cup pass.batch
    <2>1. /\ Cardinality(pass.batch) <= scen'.batch
          /\ \A r \in Rack : Cardinality(pass.ignorable \cap Members(r)) <= scen'.ignorable
      BY <1>0, <1>2 DEF OutInv, StageOut, FewIgnored, Limits
    <2>2. pass.ignorable \in SUBSET Pod /\ pass.batch \in SUBSET Pod
      BY DEF TypeOK, PassType
    <2>3. scen'.batch \in Nat /\ scen'.ignorable \in Nat
      BY DEF TypeOK, ScenarioType
    <2>4. Cardinality(OutPods') <= scen'.batch + NumRacks * scen'.ignorable
      BY <1>2, <2>1, <2>2, <2>3, OutBound
    <2> QED BY <2>4 DEF OneBatchOut, OutPods
  <1>3. CASE /\ pass.pc = "checkpoint" /\ pass' = Idle
             /\ \A p \in Pod \ pass.group : Calm(pods[p], pods'[p])
    <2>1. Stage = "checkpoint"
      BY <1>3 DEF Stage
    <2>2. OutPods \subseteq pass.ignorable /\ pass.group \subseteq pass.batch /\ InBatch
      BY <2>1 DEF OutInv, StageOut, InBatch
    <2>3. OutPods' \subseteq OutPods \cup pass.group
      BY <1>3 DEF Calm, OutPods
    <2> QED BY <1>2, <2>2, <2>3
  <1>4. CASE /\ pass.pc = "restart" /\ pass.planned
             /\ \A p \in Pod : \/ Calm(pods[p], pods'[p])
                               \/ p \in pass.group /\ ~pods'[p].noted /\ pods'[p].park = "no"
    <2>1. Stage = "restart"
      BY <1>4 DEF Stage
    <2>2. OutPods \subseteq pass.ignorable \cup pass.batch /\ pass.group \subseteq pass.batch /\ InBatch
      BY <1>4, <2>1 DEF OutInv, StageOut, InBatch
    <2>3. OutPods' \subseteq OutPods \cup pass.group
      BY <1>4 DEF Calm, OutPods
    <2> QED BY <1>2, <2>2, <2>3
  <1> QED BY <1>1, <1>3, <1>4, TakenOut DEF OutInv

LEMMA StageOutKept ==
    ASSUME TypeOK, OutInv, [Next]_vars
    PROVE  StageOut'
  <1>0. Resumes /\ AllSound /\ StageOut /\ Limits
    BY SameLimits DEF OutInv
  <1>1. CASE pass' = Idle
    <2>1. Stage' = "idle" /\ pass'.failed = {}
      BY <1>1, IdleFacts DEF Stage
    <2> QED BY <2>1 DEF StageOut, InBatch
  <1> SUFFICES ASSUME pass' # Idle PROVE StageOut'
    BY <1>1
  <1>2. \A p \in Pod : (pods'[p].noted => pods[p].noted) /\ (pods[p].park = "no" => pods'[p].park = "no")
    BY <1>0, TakenOut DEF AllCalm, Calm
  <1>3. OutPods' \subseteq OutPods \/ (Stage = "restart" /\ pass.planned /\ OutPods' \subseteq OutPods \cup pass.group)
    BY <1>0, TakenOut DEF AllCalm, Calm, OutPods, Stage
  <1>4. pass \in PassType /\ pass.failed \subseteq Pod
    BY DEF TypeOK, PassType
  <1> DEFINE Early == Stage \notin {"idle", "parked"} \/ (Stage = "parked" /\ pass.group = {})
             Parks == Stage \notin {"idle", "parked"} => \A p \in pass.failed : pods[p].park = "no"
             Clear == Stage \in {"idle", "parked", "failed"} => pass.failed = {}
             Ready == Stage = "stable" => \A p \in pass.failed \ pass.ignorable : ~pods[p].out
             Small == InBatch => /\ pass.group \cup pass.active \subseteq pass.batch
                                 /\ pass.batch \cap pass.ignorable = {}
                                 /\ Cardinality(pass.batch) <= scen.batch
             Alone == /\ Stage \in {"raise", "quiesce", "checkpoint"} => OutPods \subseteq pass.ignorable
                      /\ Stage = "removal" /\ pass.planned => OutPods \subseteq pass.ignorable
                      /\ Stage = "restart" /\ pass.planned => OutPods \subseteq pass.ignorable \cup pass.batch
  <1>5. (Early => \A p \in Pod : ~pods[p].noted) /\ Parks /\ Clear /\ Ready /\ Small /\ Alone
    BY <1>0 DEF StageOut
  <1>6. ASSUME (Early => \A p \in Pod : ~pods[p].noted)', Parks', Clear', Ready', Small', Alone'
        PROVE  StageOut'
    BY <1>6 DEF StageOut
  \* A step that starts or stays before the racks.
  <1>7. CASE Begin
    BY <1>7, BeginFacts DEF StageOut, InBatch
  <1>8. CASE \/ \E p \in Pod : pollAndDeleteParkedPods(p)
             \/ Opens \/ NextFailed \/ NoneFailed
    <2>1. /\ Stage \in {"parked", "failed"} /\ Stage' \in {"parked", "failed", "rack"} /\ pass'.failed = pass.failed
          /\ Early' => Early
      BY <1>8, PollFacts DEF Opens, NextFailed, NoneFailed, Moves, Still, Kept, SameGroup
    <2>2. (Early => \A p \in Pod : ~pods[p].noted)'
      BY <1>2, <1>5, <2>1
    <2> QED BY <1>5, <2>1, <2>2 DEF StageOut, InBatch
  <1>9. CASE SomeFailed
    <2>1. Stage = "failed" /\ Stage' = "rack" /\ pods' = pods
      BY <1>9 DEF SomeFailed, handleFailedPodsForAllRacks
    <2>2. \A p \in pass'.failed : p \in Pod /\ pods[p].server # "up"
      BY <1>9, ThisRack DEF SomeFailed, getServerFailedAndActivePods, ServerFailed
    <2>3. \A p \in pass'.failed : pods'[p].park = "no"
      BY <1>0, <2>1, <2>2 DEF AllSound, Sound
    <2> QED BY <1>5, <2>1, <2>3 DEF StageOut, InBatch
  \* The steps within the racks.
  <1>10. ASSUME Stage \notin {"idle", "parked", "failed"}, Stage' \notin {"idle", "parked", "failed"},
                pass'.failed = pass.failed
         PROVE  (Early => \A p \in Pod : ~pods[p].noted)' /\ Parks' /\ Clear'
    BY <1>2, <1>4, <1>5, <1>10
  <1>11. ASSUME Stage = "restart" => ~pass.planned \/ pods' = pods
         PROVE  OutPods' \subseteq OutPods
    BY <1>3, <1>11 DEF OutPods
  <1>12. CASE \/ Aside
              \/ (SetMFD \/ SaveMFD) /\ Still /\ Stage' = Stage
    <2>1. /\ Stage' = Stage /\ pass'.failed = pass.failed /\ pass'.group = pass.group /\ pass'.ignorable = pass.ignorable
          /\ pass'.batch = pass.batch /\ pass'.active = pass.active /\ pass'.planned = pass.planned
      BY <1>12 DEF Aside, Still, Kept, SameBatch, SameGroup, Stage
    <2>2. OutPods' \subseteq OutPods
      <3>1. AllCalm
        <4>1. CASE Aside
          BY <1>0, <4>1, EnvironmentCalm DEF Aside
        <4>2. CASE SetMFD \/ SaveMFD
          <5>1. pass.pc \in {"setMFD", "saveMFD"}
            BY <4>2 DEF SetMFD, SaveMFD, At
          <5> QED BY <1>0, <5>1, TakenOut
        <4> QED BY <1>12, <4>1, <4>2
      <3> QED BY <3>1 DEF AllCalm, Calm, OutPods
    <2>3. (Early => \A p \in Pod : ~pods[p].noted)' /\ Parks' /\ Clear'
      BY <1>2, <1>4, <1>5, <2>1
    <2>4. Ready' /\ Alone'
      BY <1>4, <1>5, <2>1, <2>2 DEF OutPods
    <2>5. Small'
      BY <1>0, <1>5, <2>1 DEF InBatch, Limits
    <2> QED BY <1>6, <2>3, <2>4, <2>5
  <1>13. ASSUME NEW due, Kept, Batched(due), due \cap pass.ignorable = {}, Stage \in {"plan", "force"}
         PROVE  StageOut'
    <2>1. Stage' = pass'.pc /\ Stage' \in {"removal", "stop", "after"} /\ pass'.failed = pass.failed
      BY <1>13 DEF Batched, Stage, Kept
    <2>2. (Early => \A p \in Pod : ~pods[p].noted)' /\ Parks' /\ Clear'
      BY <1>10, <1>13, <2>1
    <2>3. Ready' /\ Alone'
      BY <1>13, <2>1 DEF Batched
    <2>4. Small'
      <3>1. Stage' = "after" => ~InBatch'
        BY DEF InBatch
      <3>2. CASE Stage' # "after"
        BY <1>0, <1>13, <2>1, <3>2 DEF Batched, Kept, Limits
      <3> QED BY <3>1, <3>2
    <2> QED BY <1>6, <2>2, <2>3, <2>4
  <1>14. CASE upgradeOrRollingRestartRack /\ \E listed \in getRackPodList(pass.rack) : Planned(pass.rack, listed)
    <2>1. PICK listed \in getRackPodList(pass.rack) : Planned(pass.rack, listed)
      BY <1>14
    <2>2. PlanDue(pass.rack, listed) \cap pass.ignorable = {}
      BY DEF PlanDue, Scope
    <2>3. Stage = "plan"
      BY <1>14 DEF upgradeOrRollingRestartRack, At, Stage
    <2> QED BY <1>13, <2>1, <2>2, <2>3 DEF Planned
  <1>15. CASE handleFailedPodsInRack /\ pass' # Idle
    <2>1. PICK due \in SUBSET (Members(pass.rack) \ pass.ignorable) : Batched(due) /\ Kept
      BY <1>15, Forces DEF Requeue
    <2>2. Stage = "force"
      BY <1>15, Forces DEF Stage
    <2> QED BY <1>13, <2>1, <2>2
  <1>16. ASSUME Still \/ (Kept /\ SameBatch /\ SameGroup), InBatch, InBatch'
         PROVE  /\ (Early => \A p \in Pod : ~pods[p].noted)' /\ Parks' /\ Clear' /\ Small'
                /\ pass'.planned = pass.planned /\ pass'.ignorable = pass.ignorable /\ pass'.batch = pass.batch
                /\ pass'.failed = pass.failed
    <2>1. Kept /\ SameBatch /\ SameGroup
      BY <1>16 DEF Still
    <2>2. Stage \notin {"idle", "parked", "failed"} /\ Stage' \notin {"idle", "parked", "failed"}
      BY <1>16 DEF InBatch
    <2>3. Small'
      BY <1>0, <1>5, <1>16, <2>1 DEF Kept, SameBatch, SameGroup, Limits
    <2> QED BY <1>10, <2>1, <2>2, <2>3 DEF Kept, SameBatch, SameGroup
  <1>17. CASE SafeStop /\ Moves("stop", "stable")
    <2>1. Stage = "stop" /\ Stage' = "stable" /\ Still /\ InBatch /\ InBatch' /\ pods' = pods
      BY <1>17 DEF Moves, InBatch, SafeStop
    <2>2. \A p \in Pod \ pass.ignorable : pods[p].server = "up"
      <3>1. waitForAllAerospikeServersReady /\ ~AServerFailed
        BY <1>17 DEF SafeStop, Requeue
      <3>2. \A p \in Pod : pods[p].server \in {"up", "down", "failed", "pending"}
        BY DEF TypeOK, PodType
      <3> QED BY <3>1, <3>2 DEF waitForAllAerospikeServersReady, AServerFailed, ServerFailed
    <2>3. \A p \in pass.failed \ pass.ignorable : ~pods[p].out
      BY <1>0, <1>4, <1>5, <2>1, <2>2 DEF AllSound, Sound
    <2>4. Ready'
      BY <1>16, <2>1, <2>3
    <2> QED BY <1>6, <1>16, <2>1, <2>4
  <1>18. CASE waitForClusterStability /\ Moves("stable", "raise")
    <2>1. Stage = "stable" /\ Stage' = "raise" /\ Still /\ InBatch /\ InBatch' /\ pods' = pods
      BY <1>18 DEF Moves, InBatch, waitForClusterStability
    <2>2. Unreached = {} /\ \A p \in Reached : pods[p].park = "no"
      BY <1>18 DEF waitForClusterStability, Requeue
    <2>3. ASSUME NEW p \in OutPods \ pass.ignorable PROVE FALSE
      <3>1. p \in Pod /\ pods[p].out /\ p \notin pass.failed /\ ~pods[p].noted
        BY <1>5, <2>1 DEF OutPods
      <3>2. pods[p].server = "up"
        BY <2>2, <3>1 DEF Unreached
      <3>3. p \in Reached
        BY <3>1, <3>2 DEF Reached
      <3> QED BY <1>0, <2>2, <3>1, <3>2, <3>3 DEF AllSound, Sound
    <2>4. OutPods' \subseteq pass'.ignorable
      BY <1>16, <2>1, <2>3 DEF OutPods
    <2> QED BY <1>6, <1>16, <2>1, <2>4
  <1>19. CASE \/ RaiseMFD /\ Moves("raise", "quiesce")
              \/ quiescePods /\ Moves("quiesce", "removal")
              \/ triggerIndexCheckpointSave /\ Moves("checkpoint", "restart") /\ pods' = pods
    <2>1. /\ Stage \in {"raise", "quiesce", "checkpoint"} /\ Stage' \in {"quiesce", "removal", "restart"}
          /\ Still /\ InBatch /\ InBatch'
      BY <1>19 DEF Moves, InBatch
    <2>2. OutPods' \subseteq pass'.ignorable
      BY <1>5, <1>11, <1>16, <2>1
    <2> QED BY <1>6, <1>16, <2>1, <2>2
  <1>20. CASE Marks(pass.group, "removal", IF pass.planned THEN "checkpoint" ELSE "restart")
    <2>1. /\ Stage = "removal" /\ Stage' = (IF pass.planned THEN "checkpoint" ELSE "restart")
          /\ Kept /\ SameBatch /\ SameGroup /\ InBatch /\ InBatch'
      BY <1>20 DEF Marks, InBatch
    <2>2. Alone'
      BY <1>5, <1>11, <1>16, <2>1
    <2> QED BY <1>6, <1>16, <2>1, <2>2
  <1>21. CASE \E p \in Pod : RestartsOne(p)
    <2>1. /\ Stage = "restart" /\ Stage' \in {"restart", "record", "wait"}
          /\ Kept /\ SameBatch /\ SameGroup /\ InBatch /\ InBatch'
      BY <1>21 DEF RestartsOne, InBatch
    <2>2. Alone'
      BY <1>3, <1>5, <1>16, <2>1
    <2> QED BY <1>6, <1>16, <2>1, <2>2
  <1>22. CASE Records
    <2>1. Stage = "record" /\ Stage' = "wait" /\ Kept /\ SameBatch /\ SameGroup /\ InBatch /\ InBatch'
      BY <1>22 DEF Records, InBatch
    <2> QED BY <1>6, <1>16, <2>1
  <1>23. CASE NextGroup
    <2>1. Stage = "wait" /\ Stage' = "stop" /\ Kept /\ SameBatch /\ pass'.group = pass.active /\ pass'.active = {} /\ InBatch
      BY <1>23 DEF NextGroup, InBatch
    <2>2. Small'
      BY <1>0, <1>5, <2>1 DEF Kept, SameBatch, Limits
    <2>3. (Early => \A p \in Pod : ~pods[p].noted)' /\ Parks' /\ Clear'
      BY <1>10, <2>1 DEF Kept
    <2> QED BY <1>6, <2>1, <2>2, <2>3
  \* The steps outside a batch.
  <1>24. ASSUME Stage \notin {"idle", "parked", "failed"}, pass'.failed = pass.failed,
                Stage' \in {"plan", "after", "dynamic", "ignored", "force", "next", "rack", "unquiesce", "revert",
                            "finish", "recover"}
         PROVE  StageOut'
    BY <1>10, <1>24 DEF StageOut, InBatch
  <1>25. CASE \/ updateSTSConfigMap /\ Moves("rack", "plan")
              \/ EndsBatch
              \/ BatchIsBack /\ Moves("wait", "after") /\ pass.active = {}
              \/ updateDynamicConfig /\ Moves("dynamic", "ignored") /\ ConfPods \subseteq pass.done
              \/ \E ps : Marks(ps, "ignored", IF pass.failed # {} THEN "force" ELSE "next")
              \/ \E p \in Pod : SetsOne(p)
    BY <1>24, <1>25 DEF Moves, Still, Kept, EndsBatch, Marks, SetsOne
  <1>26. CASE \/ GoesOn \/ Moves("next", "unquiesce") \/ Moves("unquiesce", "revert") \/ Moves("revert", "finish")
              \/ Reports \/ Recovers
    BY <1>24, <1>26 DEF Moves, Still, Kept, GoesOn, Reports, Recovers
  <1> HIDE DEF Early, Parks, Clear, Ready, Small, Alone
  <1> QED BY <1>0, <1>7, <1>8, <1>9, <1>12, <1>14, <1>15, <1>17, <1>18, <1>19, <1>20, <1>21, <1>22, <1>23, <1>25, <1>26,
             NextSteps DEF Steps, Quits

LEMMA OutInvKept ==
    ASSUME TypeOK, TypeOK', OutInv, [Next]_vars
    PROVE  OutInv'
  BY ResumesKept, TakenOut, FewIgnoredKept, StageOutKept, OutKept DEF OutInv

LEMMA OutInvInit == Init => OutInv
  <1> SUFFICES ASSUME Init PROVE OutInv
    OBVIOUS
  <1>0. TypeOK
    BY InitType
  <1>1. Stage = "idle" /\ pass = Idle
    BY IdleFacts DEF Init, Stage
  <1>2. Resumes /\ StageOut
    BY <1>1, IdleFacts DEF Resumes, StageOut, InBatch
  <1>3. \A p \in Pod : Sound(pods[p]) /\ ~pods[p].out
    BY DEF Init, Sound
  <1>4. scen.ignorable \in Nat /\ scen.batch \in Nat /\ NumRacks \in Nat
    BY <1>0, RollingAssumption DEF TypeOK, ScenarioType, RollingAssumption
  <1>5. FewIgnored
    <2>1. \A r \in Rack : Idle.ignorable \cap Members(r) = {}
      BY IdleFacts
    <2>2. Cardinality({}) <= scen.ignorable
      BY SMT, <1>4, FS_EmptySet
    <2> QED BY <1>1, <2>1, <2>2 DEF FewIgnored
  <1>6. OneBatchOut
    <2>1. {p \in Pod : pods[p].out} = {}
      BY <1>3
    <2>2. Cardinality({}) <= scen.batch + NumRacks * scen.ignorable
      BY SMT, <1>4, FS_EmptySet
    <2> QED BY <2>1, <2>2 DEF OneBatchOut
  <1> QED BY <1>2, <1>3, <1>5, <1>6 DEF OutInv, AllSound

\* Planned restarts of rollingRestartRack and upgradeRack never have more pods
\* out of the cluster than one batch and the pods a pass may overlook, whatever
\* pods fail and passes die, for any number of racks and pods.
THEOREM OneBatchOnly == Spec => []OneBatchOut
  <1>1. Init => TypeOK /\ OutInv
    BY InitType, OutInvInit
  <1>2. TypeOK /\ OutInv /\ [Next]_vars => (TypeOK /\ OutInv)'
    BY NextType, OutInvKept
  <1>3. OutInv => OneBatchOut
    BY DEF OutInv
  <1> QED BY <1>1, <1>2, <1>3, PTL DEF Spec

-----------------------------------------------------------------------------
(* What happens to a pod *)

\* What one change of a pod leaves alone.
SameConf(a, b) == b.s = a.s /\ b.d = a.d /\ b.hash = a.hash /\ b.partial = a.partial /\ b.image = a.image
SameLive(a, b) == b.live = a.live /\ b.unsaved = a.unsaved
SameRun(a, b) == b.quiesced = a.quiesced /\ b.mfd = a.mfd /\ b.park = a.park

LEMMA DownFacts ==
    ASSUME NEW a \in PodType, NEW b, NEW out, b = Down(a) \/ b = [Down(a) EXCEPT !.out = out]
    PROVE  b.server = "down" /\ SameConf(a, b) /\ SameLive(a, b) /\ b.dirty = a.dirty
  BY DEF Down, PodType, SameConf, SameLive

LEMMA ASDFacts ==
    ASSUME NEW p \in Pod, pods[p] \in PodType, NEW b, b = restartASD(p)
    PROVE  /\ b.server = "up" /\ b.s = cm[RackOf(p)].s /\ b.d = cm[RackOf(p)].d /\ b.hash = pods[p].hash
           /\ b.live = b.d /\ ~b.partial /\ b.image = pods[p].image /\ b.dirty = pods[p].dirty
           /\ ~b.quiesced /\ b.mfd = "config" /\ b.park = "no"
  BY DEF restartASD, Restarted, PodType

\* Eviction requests, checkpoints, migrate-fill-delay, quiesce and dirty volumes
\* do not concern what a pod runs.
SameServer(a, b) == b.server = a.server /\ SameConf(a, b) /\ SameLive(a, b)

\* What the user, the kubelet and most steps of a pass do to a pod.
Drift(p) ==
    LET a == pods[p]
        b == pods'[p]
        c == cm[RackOf(p)]
    IN \/ SameServer(a, b)
       \/ SameConf(a, b) /\ SameLive(a, b) /\ b.server = "down"
       \/ /\ SameConf(a, b) /\ b.live = b.d /\ a.server \in {"up", "failed"} /\ b.server \in {"up", "failed"}
       \/ /\ a.server = "down" /\ b.server = "pending" /\ b.image = sts[RackOf(p)].image /\ SameLive(a, b)
          /\ b.s = a.s /\ b.d = a.d /\ b.hash = a.hash /\ b.partial = a.partial
       \/ /\ a.server \in {"down", "pending"} /\ b.server \in {"up", "failed"}
          /\ b.s = c.s /\ b.d = c.d /\ b.hash = c.w /\ b.live = b.d /\ ~b.partial
          /\ b.image = IF a.server = "pending" THEN a.image ELSE sts[RackOf(p)].image
          /\ \A o \in asked : o.id \in served'[p]
       \/ /\ a.server = "up" /\ b.server = "up" /\ b.hash = a.hash /\ b.image = a.image
          /\ b.s \in {a.s, c.s} /\ b.d = c.d /\ b.live = b.d /\ (b.partial => a.partial)

\* A value set at run time that is not in the file was not completed.
LiveOk(a) == a.live = a.d \/ a.partial \/ a.unsaved

\* Only setMigrateFillDelay, quiescePods and triggerIndexCheckpointSave give a
\* server something that a rollout has to take back.
Cleaner(p) ==
    LET a == pods[p]
        b == pods'[p]
    IN b.server = "up" =>
          \/ ~b.quiesced /\ b.mfd = "config" /\ b.park = "no"
          \/ /\ a.server = "up"
             /\ (b.quiesced => a.quiesced) /\ (a.mfd = "config" => b.mfd = "config") /\ (a.park = "no" => b.park = "no")

\* A volume is wiped when a pod starts with a configuration that uses it.
Washed(p) ==
    LET a == pods[p]
        b == pods'[p]
        c == cm[RackOf(p)]
    IN \/ b.dirty = a.dirty /\ b.s = a.s
       \/ b.dirty = (a.dirty /\ c.s = 1) /\ b.s = c.s

\* A restart is remembered for the operations it serves.
LEMMA ServeFacts ==
    ASSUME TypeOK, NEW ps, NEW type, Serve(ps, type), NEW p \in Pod
    PROVE  /\ served[p] \subseteq served'[p]
           /\ p \in ps /\ type = "podRestart" => \A o \in asked : o.id \in served'[p]
           /\ p \in ps => \A o \in asked : o.kind = "WarmRestart" => o.id \in served'[p]
  <1>1. served'[p] = IF p \notin ps THEN served[p]
                     ELSE served[p] \cup {o.id : o \in {x \in asked : type = "podRestart" \/ x.kind = "WarmRestart"}}
    BY DEF Serve
  <1>2. CASE p \notin ps
    BY <1>1, <1>2
  <1>3. CASE p \in ps
    BY <1>1, <1>3
  <1> QED BY <1>2, <1>3

LEMMA SamePod ==
    ASSUME NEW p \in Pod, pods'[p] = pods[p]
    PROVE  Drift(p) /\ Cleaner(p) /\ Washed(p)
  BY DEF Drift, Cleaner, Washed, SameServer, SameConf, SameLive

LEMMA OnePodDrifts ==
    ASSUME TypeOK, NEW p \in Pod, NEW b, SetPod(p, b), Drift(p), Cleaner(p), Washed(p)
    PROVE  \A q \in Pod : Drift(q) /\ Cleaner(q) /\ Washed(q)
  <1>1. \A q \in Pod : q # p => pods'[q] = pods[q]
    BY DEF TypeOK, SetPod
  <1> QED BY <1>1, SamePod

LEMMA EnvironmentDrifts ==
    ASSUME TypeOK, AllSound, Environment \/ UNCHANGED vars
    PROVE  \A q \in Pod : Drift(q) /\ Cleaner(q) /\ Washed(q)
  <1>saved. ASSUME NEW a \in PodType
            PROVE  LET b == [a EXCEPT !.park = "saved"]
                   IN SameServer(a, b) /\ b.quiesced = a.quiesced /\ b.mfd = a.mfd /\ b.dirty = a.dirty
    BY <1>saved DEF PodType, SameServer, SameConf, SameLive
  <1>evicted. ASSUME NEW a \in PodType
              PROVE  LET b == [a EXCEPT !.evict = TRUE]
                     IN SameServer(a, b) /\ SameRun(a, b) /\ b.dirty = a.dirty
    BY <1>evicted DEF PodType, SameServer, SameConf, SameLive, SameRun
  <1>restarted. ASSUME NEW a \in PodType
                PROVE  LET b == Restarted(a)
                       IN /\ b.server = "up" /\ SameConf(a, b) /\ b.live = b.d /\ b.dirty = a.dirty
                          /\ ~b.quiesced /\ b.mfd = "config" /\ b.park = "no" /\ ~b.unsaved
    BY <1>restarted DEF Restarted, PodType, SameConf
  <1>failed. ASSUME NEW a \in PodType, NEW b, NEW x,
                    b = [a EXCEPT !.server = "failed"] \/ b = [a EXCEPT !.server = "failed", !.out = x]
             PROVE  /\ b.server = "failed" /\ SameConf(a, b) /\ SameLive(a, b) /\ SameRun(a, b) /\ b.dirty = a.dirty
    BY <1>failed DEF PodType, SameConf, SameLive, SameRun
  <1> USE DEF cluster, history, looks, outside
  <1>1. CASE Edit \/ Interrupt \/ UNCHANGED vars
    BY <1>1, SamePod DEF Edit, Interrupt, vars
  <1> SUFFICES ASSUME NEW p \in Pod,
                      \/ EvictionRequest(p) \/ PodStarts(p) \/ PodStartFails(p) \/ PodPends(p) \/ PodCrashes(p)
                      \/ PodRecovers(p) \/ PodLost(p) \/ SaveCompletes(p) \/ ParkTimesOut(p)
               PROVE  \A q \in Pod : Drift(q) /\ Cleaner(q) /\ Washed(q)
    BY <1>1 DEF Environment
  <1>2. pods[p] \in PodType
    BY DEF TypeOK
  <1>3. ASSUME NEW b, SetPod(p, b) PROVE pods'[p] = b
    BY <1>3 DEF TypeOK, SetPod
  <1>4. CASE EvictionRequest(p)
    <2>1. SetPod(p, [pods[p] EXCEPT !.evict = TRUE])
      BY <1>4 DEF EvictionRequest, SetPod
    <2>2. LET b == pods'[p] IN SameServer(pods[p], b) /\ SameRun(pods[p], b) /\ b.dirty = pods[p].dirty
      BY <1>2, <1>3, <2>1, <1>evicted
    <2>3. Drift(p) /\ Washed(p) /\ Cleaner(p)
      BY <2>2 DEF Drift, Washed, Cleaner, SameServer, SameConf, SameRun
    <2> QED BY <2>1, <2>3, OnePodDrifts
  <1>9. CASE SaveCompletes(p)
    <2>1. SetPod(p, [pods[p] EXCEPT !.park = "saved"]) /\ pods[p].park = "saving"
      BY <1>9 DEF SaveCompletes
    <2>2. LET b == pods'[p] IN /\ SameServer(pods[p], b) /\ b.quiesced = pods[p].quiesced /\ b.mfd = pods[p].mfd
                               /\ b.dirty = pods[p].dirty
      BY <1>2, <1>3, <2>1, <1>saved
    <2>3. Drift(p) /\ Washed(p) /\ Cleaner(p)
      BY <2>1, <2>2 DEF Drift, Washed, Cleaner, SameServer, SameConf
    <2> QED BY <2>1, <2>3, OnePodDrifts
  <1>5. CASE PodStarts(p) \/ PodStartFails(p)
    <2> DEFINE f == Fresh(p)
    <2>1. PICK b : SetPod(p, b) /\ (b = f \/ b = [f EXCEPT !.server = "failed", !.out = pods[p].out])
      BY <1>5 DEF PodStarts, PodStartFails
    <2>2. pods[p].server \in {"down", "pending"} /\ Serve({p}, "podRestart")
      BY <1>5 DEF PodStarts, PodStartFails
    <2>3. pods'[p] = b /\ \A o \in asked : o.id \in served'[p]
      BY <1>3, <2>1, <2>2, ServeFacts
    <2>4. f \in PodType
      BY PodTypes
    <2>5. /\ f.server = "up" /\ f.s = cm[RackOf(p)].s /\ f.d = cm[RackOf(p)].d /\ f.hash = cm[RackOf(p)].w
          /\ f.live = f.d /\ ~f.partial /\ f.image = Template(p).image
          /\ ~f.quiesced /\ f.mfd = "config" /\ f.park = "no" /\ f.dirty = (pods[p].dirty /\ cm[RackOf(p)].s = 1)
      BY DEF Fresh
    <2>6. f.image = IF pods[p].server = "pending" THEN pods[p].image ELSE sts[RackOf(p)].image
      BY <2>5 DEF Template
    <2> HIDE DEF f
    <2>7. b # f => b.server = "failed" /\ SameConf(f, b) /\ SameLive(f, b) /\ SameRun(f, b) /\ b.dirty = f.dirty
      BY <2>1, <2>4, <1>failed
    <2>8. /\ b.server \in {"up", "failed"} /\ SameConf(f, b) /\ b.live = b.d /\ b.dirty = f.dirty
          /\ ~b.quiesced /\ b.mfd = "config" /\ b.park = "no"
      BY <2>5, <2>7 DEF SameConf, SameLive, SameRun
    <2>9. Drift(p)
      BY <2>2, <2>3, <2>5, <2>6, <2>8 DEF Drift, SameConf
    <2>10. Washed(p) /\ Cleaner(p)
      BY <2>3, <2>5, <2>8 DEF Washed, Cleaner, SameConf
    <2> QED BY <2>1, <2>9, <2>10, OnePodDrifts
  <1>6. CASE PodPends(p)
    <2>1. pods[p].server = "down" /\ Template(p).image = sts[RackOf(p)].image
      BY <1>6 DEF PodPends, Template
    <2>2. PICK w, image, b : /\ SetPod(p, b) /\ image = Template(p).image
                             /\ b = [pods[p] EXCEPT !.server = "pending", !.w = w, !.image = image, !.evict = FALSE]
      BY <1>6 DEF PodPends
    <2>3. pods'[p] = b
      BY <1>3, <2>2
    <2>4. /\ b.server = "pending" /\ b.s = pods[p].s /\ b.d = pods[p].d /\ b.hash = pods[p].hash
          /\ b.partial = pods[p].partial /\ b.image = image /\ SameLive(pods[p], b) /\ b.dirty = pods[p].dirty
      BY <1>2, <2>2 DEF PodType, SameLive
    <2>5. Drift(p) /\ Washed(p) /\ Cleaner(p)
      BY <2>1, <2>2, <2>3, <2>4 DEF Drift, Washed, Cleaner
    <2> QED BY <2>2, <2>5, OnePodDrifts
  <1>7. CASE PodCrashes(p) \/ PodRecovers(p) \/ ParkTimesOut(p)
    <2> DEFINE f == Restarted(pods[p])
    <2>1. PICK b : SetPod(p, b) /\ (b = f \/ b = [f EXCEPT !.server = "failed"])
      BY <1>7 DEF PodCrashes, PodRecovers, ParkTimesOut
    <2>2. pods[p].server \in {"up", "failed"}
      <3>1. Sound(pods[p])
        BY DEF AllSound
      <3> QED BY <1>7, <3>1 DEF PodCrashes, PodRecovers, ParkTimesOut, Sound
    <2>3. pods'[p] = b
      BY <1>3, <2>1
    <2>4. /\ f \in PodType /\ f.server = "up" /\ SameConf(pods[p], f) /\ f.live = f.d /\ f.dirty = pods[p].dirty
          /\ ~f.quiesced /\ f.mfd = "config" /\ f.park = "no"
      BY <1>2, PodTypes, <1>restarted
    <2> HIDE DEF f
    <2>5. b # f => b.server = "failed" /\ SameConf(f, b) /\ SameLive(f, b) /\ SameRun(f, b) /\ b.dirty = f.dirty
      BY <2>1, <2>4, <1>failed
    <2>6. /\ b.server \in {"up", "failed"} /\ SameConf(pods[p], b) /\ b.live = b.d /\ b.dirty = pods[p].dirty
          /\ ~b.quiesced /\ b.mfd = "config" /\ b.park = "no"
      BY <2>4, <2>5 DEF SameConf, SameLive, SameRun
    <2>7. Drift(p)
      BY <2>2, <2>3, <2>6 DEF Drift
    <2>8. Washed(p) /\ Cleaner(p)
      BY <2>3, <2>6 DEF Washed, Cleaner, SameConf
    <2> QED BY <2>1, <2>7, <2>8, OnePodDrifts
  <1>8. CASE PodLost(p)
    <2>1. SetPod(p, Down(pods[p])) /\ pods'[p] = Down(pods[p])
      BY <1>3, <1>8 DEF PodLost
    <2>2. LET b == pods'[p] IN b.server = "down" /\ SameConf(pods[p], b) /\ SameLive(pods[p], b) /\ b.dirty = pods[p].dirty
      BY <1>2, <2>1, DownFacts
    <2>3. Drift(p) /\ Washed(p) /\ Cleaner(p)
      BY <2>2 DEF Drift, Washed, Cleaner, SameConf
    <2> QED BY <2>1, <2>3, OnePodDrifts
  <1> QED BY <1>4, <1>5, <1>6, <1>7, <1>8, <1>9

\* The changes of pods in the steps of a pass.
LEMMA DelayFacts ==
    ASSUME NEW a \in PodType, NEW x
    PROVE  LET b == [a EXCEPT !.mfd = x]
           IN /\ SameServer(a, b) /\ b.dirty = a.dirty /\ b.quiesced = a.quiesced /\ b.park = a.park /\ b.mfd = x
  BY DEF PodType, SameServer, SameConf, SameLive

LEMMA QuiesceFacts ==
    ASSUME NEW a \in PodType, NEW x \in BOOLEAN
    PROVE  LET b == [a EXCEPT !.quiesced = x]
           IN SameServer(a, b) /\ b.dirty = a.dirty /\ b.quiesced = x /\ b.mfd = a.mfd /\ b.park = a.park
  BY DEF PodType, SameServer, SameConf, SameLive

LEMMA DirtyFacts ==
    ASSUME NEW a \in PodType
    PROVE  LET b == [a EXCEPT !.dirty = TRUE]
           IN SameServer(a, b) /\ b.dirty /\ SameRun(a, b)
  BY DEF PodType, SameServer, SameConf, SameLive, SameRun

LEMMA SetFacts ==
    ASSUME NEW a \in PodType, NEW x \in Nat
    PROVE  /\ LET b == [a EXCEPT !.live = x, !.d = x, !.unsaved = FALSE]
              IN /\ b.server = a.server /\ b.s = a.s /\ b.hash = a.hash /\ b.image = a.image /\ b.partial = a.partial
                 /\ b.d = x /\ b.live = x /\ SameRun(a, b) /\ b.dirty = a.dirty
           /\ LET b == [a EXCEPT !.live = Half, !.partial = TRUE]
              IN b.server = a.server /\ b.s = a.s /\ b.partial /\ SameRun(a, b) /\ b.dirty = a.dirty
           /\ LET b == [a EXCEPT !.live = x, !.unsaved = TRUE]
              IN b.server = a.server /\ b.s = a.s /\ b.unsaved /\ SameRun(a, b) /\ b.dirty = a.dirty
  <1> USE DEF PodType, SameRun
  <1>1. LET b == [a EXCEPT !.live = x, !.d = x, !.unsaved = FALSE]
        IN /\ b.server = a.server /\ b.s = a.s /\ b.hash = a.hash /\ b.image = a.image /\ b.partial = a.partial
           /\ b.d = x /\ b.live = x /\ SameRun(a, b) /\ b.dirty = a.dirty
    OBVIOUS
  <1>2. LET b == [a EXCEPT !.live = Half, !.partial = TRUE]
        IN b.server = a.server /\ b.s = a.s /\ b.partial /\ SameRun(a, b) /\ b.dirty = a.dirty
    OBVIOUS
  <1>3. LET b == [a EXCEPT !.live = x, !.unsaved = TRUE]
        IN b.server = a.server /\ b.s = a.s /\ b.unsaved /\ SameRun(a, b) /\ b.dirty = a.dirty
    OBVIOUS
  <1> QED BY <1>1, <1>2, <1>3

\* Steps of a pass that touch no pod.
LEMMA QuietSteps ==
    ASSUME \/ Begin \/ reconcileCheckpointingPods \/ handleFailedPodsForAllRacks
           \/ SetMFDFails \/ SaveMFD \/ updateSTSConfigMap \/ upgradeOrRollingRestartRack
           \/ SafeStop \/ waitForClusterStability \/ RaiseMFD \/ handleFailedPodsInRack
           \/ RecordRestarts \/ BatchIsBack \/ AfterBatch
           \/ updateDynamicConfig \/ NextRack \/ revertMFDToConfig \/ updateStatus \/ waitForIgnorablePodsRecovery
    PROVE  pods' = pods /\ served' = served
  <1> USE DEF cluster, history, looks
  <1>1. CASE \/ Begin \/ reconcileCheckpointingPods \/ handleFailedPodsForAllRacks
             \/ SetMFDFails \/ SaveMFD \/ updateSTSConfigMap \/ upgradeOrRollingRestartRack
             \/ SafeStop \/ waitForClusterStability \/ RaiseMFD \/ handleFailedPodsInRack
    BY <1>1 DEF Begin, reconcileCheckpointingPods, handleFailedPodsForAllRacks, SetMFDFails, SaveMFD,
                updateSTSConfigMap, upgradeOrRollingRestartRack, SafeStop, waitForClusterStability, RaiseMFD,
                handleFailedPodsInRack
  <1>2. CASE \/ RecordRestarts \/ BatchIsBack \/ AfterBatch
             \/ updateDynamicConfig \/ NextRack \/ revertMFDToConfig \/ updateStatus \/ waitForIgnorablePodsRecovery
    BY <1>2 DEF RecordRestarts, BatchIsBack, AfterBatch,
                updateDynamicConfig, NextRack, revertMFDToConfig, updateStatus, waitForIgnorablePodsRecovery
  <1> QED BY <1>1, <1>2

\* What a step of a pass does to a pod.
LEMMA PassDrifts ==
    ASSUME TypeOK, PassStep, NEW q \in Pod
    PROVE  /\ Drift(q) \/ (pass' = Idle /\ queued' /\ LiveOk(pods'[q]))
           /\ \/ Washed(q)
              \/ handleNSOrDeviceRemoval \/ handleNSOrDeviceRemovalForIgnorablePods \/ \E p \in Pod : restartPods(p)
           /\ \/ Cleaner(q)
              \/ /\ SetMFD /\ q \in Reached /\ pods'[q].server = pods[q].server /\ pods'[q].quiesced = pods[q].quiesced
                 /\ pods'[q].park = pods[q].park /\ pods'[q].mfd = pass.mfd
              \/ quiescePods /\ q \in pass.group
              \/ pass' = Idle /\ queued'
  <1>parked. ASSUME NEW a \in PodType, NEW x
             PROVE  LET b == [a EXCEPT !.park = "saving", !.noted = x, !.out = TRUE]
                    IN SameServer(a, b) /\ b.dirty = a.dirty
    BY <1>parked DEF PodType, SameServer, SameConf, SameLive
  <1> USE DEF cluster, history, looks
  <1>0. pods[q] \in PodType
    BY DEF TypeOK
  <1>1. ASSUME pods'[q] = pods[q] PROVE Drift(q) /\ Cleaner(q) /\ Washed(q)
    BY <1>1, SamePod
  <1>2. ASSUME NEW out, pods'[q] = Down(pods[q]) \/ pods'[q] = [Down(pods[q]) EXCEPT !.out = out]
        PROVE  Drift(q) /\ Cleaner(q) /\ Washed(q)
    <2>1. LET b == pods'[q] IN b.server = "down" /\ SameConf(pods[q], b) /\ SameLive(pods[q], b) /\ b.dirty = pods[q].dirty
      BY <1>0, <1>2, DownFacts
    <2> QED BY <2>1 DEF Drift, Washed, Cleaner, SameConf
  <1>3. CASE \/ Begin \/ reconcileCheckpointingPods \/ handleFailedPodsForAllRacks
             \/ SetMFDFails \/ SaveMFD \/ updateSTSConfigMap \/ upgradeOrRollingRestartRack
             \/ SafeStop \/ waitForClusterStability \/ RaiseMFD \/ handleFailedPodsInRack
             \/ RecordRestarts \/ ensurePodsRunningAndReady \/ ensurePodsImageUpdated \/ AfterBatch
             \/ updateDynamicConfig \/ NextRack \/ revertMFDToConfig \/ updateStatus \/ waitForIgnorablePodsRecovery
    BY <1>1, <1>3, QuietSteps DEF ensurePodsRunningAndReady, ensurePodsImageUpdated
  <1>4. ASSUME NEW p \in Pod, pollAndDeleteParkedPods(p)
        PROVE  Drift(q) /\ Cleaner(q) /\ Washed(q)
    <2>1. pods'[q] = pods[q] \/ pods'[q] = Down(pods[q])
      BY <1>4 DEF pollAndDeleteParkedPods, SetPod, TypeOK
    <2> QED BY <1>1, <1>2, <2>1
  <1>5. ASSUME NEW p \in Pod, restartPods(p) \/ deletePodAndEnsureImageUpdated(p)
        PROVE  Drift(q) /\ Cleaner(q) /\ (Washed(q) \/ restartPods(p))
    <2>1. \/ pods' = pods
          \/ SetPod(p, [Down(pods[p]) EXCEPT !.out = pass.planned])
          \/ SetPod(p, restartASD(p)) /\ restartPods(p) /\ pods[p].server = "up"
      <3>1. CASE restartPods(p) /\ pass.types[p] = "quickRestart"
        <4>1. pods[p].server \in {"up", "down", "failed", "pending"}
          BY DEF TypeOK, PodType
        <4> QED BY <3>1, <4>1 DEF restartPods
      <3>2. CASE restartPods(p) /\ pass.types[p] # "quickRestart"
        BY <3>2 DEF restartPods
      <3>3. CASE deletePodAndEnsureImageUpdated(p)
        BY <3>3 DEF deletePodAndEnsureImageUpdated
      <3> QED BY <1>5, <3>1, <3>2, <3>3
    <2>2. \/ pods'[q] = pods[q]
          \/ pods'[q] = [Down(pods[q]) EXCEPT !.out = pass.planned]
          \/ pods'[q] = restartASD(q) /\ restartPods(p) /\ pods[q].server = "up"
      BY <2>1 DEF SetPod, TypeOK
    <2>3. CASE pods'[q] = restartASD(q) /\ restartPods(p) /\ pods[q].server = "up"
      <3>1. LET b == pods'[q]
            IN /\ b.server = "up" /\ b.s = cm[RackOf(q)].s /\ b.d = cm[RackOf(q)].d /\ b.hash = pods[q].hash
               /\ b.live = b.d /\ ~b.partial /\ b.image = pods[q].image
               /\ ~b.quiesced /\ b.mfd = "config" /\ b.park = "no"
        BY <1>0, <2>3, ASDFacts
      <3> QED BY <2>3, <3>1 DEF Drift, Cleaner
    <2> QED BY <1>1, <1>2, <2>2, <2>3
  <1>6. CASE recoverIgnorablePods
    <2>1. pods'[q] = pods[q] \/ pods'[q] = Down(pods[q])
      BY <1>6 DEF recoverIgnorablePods
    <2> QED BY <1>1, <1>2, <2>1
  <1>7. CASE SetMFD
    <2>1. CASE q \in Reached
      <3>1. pods'[q] = [pods[q] EXCEPT !.mfd = pass.mfd]
        BY <1>7, <2>1 DEF SetMFD
      <3>2. LET b == [pods[q] EXCEPT !.mfd = pass.mfd]
            IN /\ SameServer(pods[q], b) /\ b.dirty = pods[q].dirty /\ b.quiesced = pods[q].quiesced
               /\ b.park = pods[q].park /\ b.mfd = pass.mfd
        BY <1>0, DelayFacts
      <3> QED BY <1>7, <2>1, <3>1, <3>2 DEF Drift, Washed, SameServer, SameConf
    <2>2. CASE q \notin Reached
      BY <1>1, <1>7, <2>2 DEF SetMFD
    <2> QED BY <2>1, <2>2
  <1>8. CASE quiescePods
    <2>1. CASE pods'[q] # pods[q]
      <3>1. pods'[q] = [pods[q] EXCEPT !.quiesced = TRUE] /\ q \in pass.group
        BY <1>8, <2>1 DEF quiescePods
      <3>2. SameServer(pods[q], pods'[q]) /\ pods'[q].dirty = pods[q].dirty
        BY <1>0, <3>1, QuiesceFacts
      <3> QED BY <1>8, <3>1, <3>2 DEF Drift, Washed, SameServer, SameConf
    <2> QED BY <1>1, <2>1
  <1>9. CASE undoQuiesceState
    <2>1. CASE pods'[q] # pods[q]
      <3>1. PICK x : pods'[q] = [pods[q] EXCEPT !.quiesced = x] /\ x = (pods[q].quiesced /\ q \notin Reached)
        BY <1>9, <2>1 DEF undoQuiesceState
      <3>2. x \in BOOLEAN
        BY SMT, <3>1
      <3>3. LET b == [pods[q] EXCEPT !.quiesced = x]
            IN SameServer(pods[q], b) /\ b.dirty = pods[q].dirty /\ b.quiesced = x /\ b.mfd = pods[q].mfd /\ b.park = pods[q].park
        BY <1>0, <3>2, QuiesceFacts
      <3> QED BY <3>1, <3>3 DEF Drift, Washed, Cleaner, SameServer, SameConf
    <2> QED BY <1>1, <2>1
  <1>10. CASE handleNSOrDeviceRemoval \/ handleNSOrDeviceRemovalForIgnorablePods
    <2>1. CASE pods'[q] # pods[q]
      <3>1. pods' = pods \/ \E ps, next : MarkRemoved(ps, next)
        BY <1>10 DEF handleNSOrDeviceRemoval, handleNSOrDeviceRemovalForIgnorablePods
      <3>2. pods'[q] = [pods[q] EXCEPT !.dirty = TRUE]
        BY <2>1, <3>1 DEF MarkRemoved
      <3>3. SameServer(pods[q], pods'[q]) /\ SameRun(pods[q], pods'[q])
        BY <1>0, <3>2, DirtyFacts
      <3> QED BY <1>10, <3>3 DEF Drift, Cleaner, SameServer, SameRun
    <2> QED BY <1>1, <2>1
  <1>11. CASE triggerIndexCheckpointSave
    <2>1. CASE pods'[q] # pods[q]
      <3>1. PICK noted : pods'[q] = [pods[q] EXCEPT !.park = "saving", !.noted = (q \in noted), !.out = TRUE]
        <4> DEFINE save == {p \in pass.group : /\ scen.checkpoint
                                               /\ pass.types[p] = "podRestart"
                                               /\ splitCheckpointNamespaces(p)}
        <4>0. pods' # pods
          BY <2>1
        <4>1. \E noted \in SUBSET save :
                 pods' = [p \in Pod |-> IF p \notin save THEN pods[p]
                                        ELSE [pods[p] EXCEPT !.park = "saving", !.noted = (p \in noted), !.out = TRUE]]
          BY <1>11, <4>0 DEF triggerIndexCheckpointSave
        <4> HIDE DEF save
        <4> QED BY <2>1, <4>1
      <3>2. pass' = Idle /\ queued'
        BY <1>11, <2>1 DEF triggerIndexCheckpointSave, Requeue
      <3>3. LET b == [pods[q] EXCEPT !.park = "saving", !.noted = (q \in noted), !.out = TRUE]
            IN SameServer(pods[q], b) /\ b.dirty = pods[q].dirty
        BY <1>0, <1>parked
      <3> QED BY <1>11, <3>1, <3>2, <3>3 DEF Drift, Washed, SameServer, SameConf
    <2> QED BY <1>1, <2>1
  <1>12. ASSUME NEW p \in Pod, setDynamicConfig(p)
         PROVE  /\ Drift(q) \/ (pass' = Idle /\ queued' /\ LiveOk(pods'[q]))
                /\ Washed(q) /\ Cleaner(q)
    <2> DEFINE conf == cm[RackOf(p)].d
    <2>1. conf \in Nat
      BY RackOfPod DEF TypeOK
    <2>2. pods[p].server = "up"
      BY <1>12 DEF setDynamicConfig, Reached
    <2>3. \/ SetPod(p, [pods[p] EXCEPT !.live = conf, !.d = conf, !.unsaved = FALSE])
          \/ SetPod(p, [pods[p] EXCEPT !.live = Half, !.partial = TRUE]) /\ pass' = Idle /\ queued'
          \/ SetPod(p, [pods[p] EXCEPT !.live = conf, !.unsaved = TRUE]) /\ pass' = Idle /\ queued'
      BY <1>12 DEF setDynamicConfig, Requeue
    <2> HIDE DEF conf
    <2>4. CASE q # p
      <3>1. pods'[q] = pods[q]
        BY <2>3, <2>4 DEF SetPod, TypeOK
      <3> QED BY <1>1, <3>1
    <2>5. CASE q = p
      <3>1. \/ pods'[q] = [pods[q] EXCEPT !.live = conf, !.d = conf, !.unsaved = FALSE]
            \/ pods'[q] = [pods[q] EXCEPT !.live = Half, !.partial = TRUE] /\ pass' = Idle /\ queued'
            \/ pods'[q] = [pods[q] EXCEPT !.live = conf, !.unsaved = TRUE] /\ pass' = Idle /\ queued'
        BY <2>3, <2>5 DEF SetPod, TypeOK
      <3>2. LET b == [pods[q] EXCEPT !.live = conf, !.d = conf, !.unsaved = FALSE]
            IN /\ b.server = pods[q].server /\ b.s = pods[q].s /\ b.hash = pods[q].hash /\ b.image = pods[q].image
               /\ b.partial = pods[q].partial
               /\ b.d = conf /\ b.live = conf /\ SameRun(pods[q], b) /\ b.dirty = pods[q].dirty
        BY <1>0, <2>1, SetFacts
      <3>3. LET b == [pods[q] EXCEPT !.live = Half, !.partial = TRUE]
            IN b.server = pods[q].server /\ b.s = pods[q].s /\ b.partial /\ SameRun(pods[q], b) /\ b.dirty = pods[q].dirty
        BY <1>0, <2>1, SetFacts
      <3>4. LET b == [pods[q] EXCEPT !.live = conf, !.unsaved = TRUE]
            IN b.server = pods[q].server /\ b.s = pods[q].s /\ b.unsaved /\ SameRun(pods[q], b) /\ b.dirty = pods[q].dirty
        BY <1>0, <2>1, SetFacts
      <3>5. CASE pods'[q] = [pods[q] EXCEPT !.live = conf, !.d = conf, !.unsaved = FALSE]
        <4>1. Drift(q)
          BY <2>2, <2>5, <3>2, <3>5 DEF Drift, conf
        <4> QED BY <2>2, <2>5, <3>2, <3>5, <4>1 DEF Washed, Cleaner, SameRun
      <3>6. CASE pods'[q] = [pods[q] EXCEPT !.live = Half, !.partial = TRUE] /\ pass' = Idle /\ queued'
        BY <2>2, <2>5, <3>3, <3>6 DEF Washed, Cleaner, SameRun, LiveOk
      <3>7. CASE pods'[q] = [pods[q] EXCEPT !.live = conf, !.unsaved = TRUE] /\ pass' = Idle /\ queued'
        BY <2>2, <2>5, <3>4, <3>7 DEF Washed, Cleaner, SameRun, LiveOk
      <3> QED BY <3>1, <3>5, <3>6, <3>7
    <2> QED BY <2>4, <2>5
  <1> QED BY <1>3, <1>4, <1>5, <1>6, <1>7, <1>8, <1>9, <1>10, <1>11, <1>12 DEF PassStep

=============================================================================
