------------------------ MODULE ClusterReconcile_proofs ------------------------
(***************************************************************************)
(* For every set of operations and every bound on edits, batches and       *)
(* faults: type correctness of ClusterReconcile; Ready=True and a reporting*)
(* operation condition are never seen together; what Ready=True says of    *)
(* the racks is so; the resources of an object are guarded by its          *)
(* finalizer; the phase agrees with Ready; what a status write may never   *)
(* do.                                                                     *)
(***************************************************************************)
EXTENDS ClusterReconcile, TLAPS

\* Most steps are about sets and cases; those with arithmetic cite SMT.
USE ZenonT(30)

-----------------------------------------------------------------------------
(* Type correctness.                                                       *)

\* The bounds are natural numbers.
LEMMA Bounds == MaxGen \in Nat \ {0} /\ MaxFaults \in Nat /\ MaxBatches \in Nat
  BY ConstantsAssumption DEF ConstantsAssumption

\* A fault below the bound leaves the count within it.
LEMMA OneMoreFault ==
    ASSUME faults \in 0 .. MaxFaults, faults < MaxFaults
    PROVE  faults + 1 \in 0 .. MaxFaults
  BY SMT, Bounds

\* A generation of an object is one the status can report.
LEMMA GenType ==
    ASSUME NEW o \in Objects
    PROVE  o.gen \in Gens
  BY SMT, Bounds DEF Objects, Gens

\* A Ready condition stamped with the generation in memory is a condition.
LEMMA SetReadyType ==
    ASSUME mem \in Objects, NEW conds \in Conditions,
           NEW status \in {"", "Unknown", "True", "False"}, NEW reason \in ReadyReasons
    PROVE  SetReady(conds, status, reason) \in Conditions
  <1>1. mem.gen \in Gens
    BY GenType
  <1> QED BY <1>1 DEF SetReady, Conditions, ReadyCond

\* So is any set of flags stamped with it.
LEMMA SetFlagsType ==
    ASSUME mem \in Objects, NEW conds \in Conditions, NEW cs, NEW status \in {"", "True", "False"}
    PROVE  SetFlags(conds, cs, status) \in Conditions
  <1>1. mem.gen \in Gens
    BY GenType
  <1> QED BY <1>1 DEF SetFlags, Conditions, FlagCond

\* A cluster as the user creates it is an object.
LEMMA NewObjectType == NewObject \in Objects
  BY SMT, Bounds DEF NewObject, NoConditions, Objects, Conditions, ReadyCond, FlagCond,
                             Phases, ReadyReasons, Gens

\* The result of a merge patch of phase and conditions is an object.
LEMMA MergePatchedType ==
    ASSUME api \in Objects, NEW phase \in Phases, NEW conds \in Conditions
    PROVE  MergePatched(phase, conds) \in Objects
  BY DEF MergePatched, Objects

\* An injected fault stays within the bound.
LEMMA CountFaultType ==
    ASSUME faults \in 0 .. MaxFaults, NEW o \in Outcomes, CountFault(o)
    PROVE  faults' \in 0 .. MaxFaults
  BY SMT, Bounds DEF CountFault, Outcomes

\* mergePatchStatus leaves an object in the API server and one in memory.
LEMMA MergePatchStatusType ==
    ASSUME TypeOK, NEW phase \in Phases, NEW conds \in Conditions,
           NEW o \in Outcomes, MergePatchStatus(o, phase, conds)
    PROVE  api' \in Objects /\ mem' \in Objects /\ faults' \in 0 .. MaxFaults
  <1>1. api' \in Objects
    BY MergePatchedType DEF MergePatchStatus, TypeOK
  <1>2. mem' \in Objects
    BY <1>1 DEF MergePatchStatus, TypeOK, Objects
  <1>3. faults' \in 0 .. MaxFaults
    BY CountFaultType DEF MergePatchStatus, TypeOK
  <1> QED BY <1>1, <1>2, <1>3

\* A stage whose only status write is a merge patch keeps the types.
LEMMA PatchStageType ==
    ASSUME TypeOK, NEW phase \in Phases, NEW conds \in Conditions, NEW next \in PCs,
           NEW reason \in FailureReasons, PatchStage(phase, conds, next, reason),
           pending' \in SUBSET Ops
    PROVE  TypeOK'
  <1> PICK o \in Outcomes :
        /\ MergePatchStatus(o, phase, conds)
        /\ IF MergePatchOK(o, phase, conds) THEN Continue(next) ELSE FailWith(reason)
    BY DEF PatchStage
  <1>1. api' \in Objects /\ mem' \in Objects /\ faults' \in 0 .. MaxFaults
    BY MergePatchStatusType
  <1>2. pc' \in PCs /\ err' \in FailureReasons \cup {NoErr} /\ requeue' \in BOOLEAN
    BY DEF Continue, FailWith, TypeOK, PCs
  <1> QED BY <1>1, <1>2 DEF PatchStage, TypeOK, cluster

\* A stage of Reconcile that returns an error.
LEMMA StageFailsType ==
    ASSUME TypeOK, NEW reason \in FailureReasons, StageFails(reason)
    PROVE  TypeOK'
  BY OneMoreFault DEF StageFails, FailWith, TypeOK, PCs, cluster

\* A stage of Reconcile that is done.
LEMMA StageSucceedsType ==
    ASSUME TypeOK, NEW next \in PCs, StageSucceeds(next)
    PROVE  TypeOK'
  BY DEF StageSucceeds, Continue, TypeOK, cluster

\* A stage of Reconcile that asks for a requeue.
LEMMA StageWaitsType ==
    ASSUME TypeOK, StageWaits
    PROVE  TypeOK'
  BY OneMoreFault DEF StageWaits, RequeueAfter, TypeOK, PCs, cluster

\* What updateStatus builds and what its patch makes of the stored object are objects.
LEMMA UpdatedObjectType ==
    ASSUME TypeOK
    PROVE  UpdatedObject \in Objects /\ JSONPatched(UpdatedObject) \in Objects
  <1> DEFINE new == SetFlags(SetReady(mem.conds, "True", "ReconcileComplete"), Ops, "False")
  <1>1. mem \in Objects /\ api \in Objects /\ mem.conds \in Conditions
    BY DEF TypeOK, Objects
  <1>2. new \in Conditions
    BY <1>1, SetReadyType, SetFlagsType DEF ReadyReasons
  <1>3. UpdatedObject \in Objects
    BY <1>1, <1>2, GenType DEF UpdatedObject, Objects, Phases
  <1>4. ASSUME NEW u \in Objects
        PROVE  JSONPatched(u) \in Objects
    <2>1. u.conds \in Conditions /\ api.conds \in Conditions
      BY <1>1, <1>4 DEF Objects
    <2>2. PatchedConds(u.conds).ready \in ReadyCond
      BY <2>1 DEF PatchedConds, Patch, Conditions, ReadyCond
    <2>3. PatchedConds(u.conds).flag \in [Flags -> FlagCond]
      <3>1. ASSUME NEW c \in Flags
            PROVE  [status |-> Patch(mem.conds.flag[c].status, u.conds.flag[c].status,
                                     api.conds.flag[c].status),
                    gen |-> Patch(mem.conds.flag[c].gen, u.conds.flag[c].gen,
                                  api.conds.flag[c].gen)] \in FlagCond
        <4>1. u.conds.flag[c] \in FlagCond /\ api.conds.flag[c] \in FlagCond
          BY <2>1, <3>1 DEF Conditions
        <4> QED BY <4>1 DEF Patch, FlagCond
      <3> QED BY <3>1 DEF PatchedConds
    <2>4. PatchedConds(u.conds) \in Conditions
      BY <2>2, <2>3 DEF PatchedConds, Conditions
    <2>5. Patch(mem.phase, u.phase, api.phase) \in Phases
      BY <1>1, <1>4 DEF Patch, Objects
    <2>6. Patch(mem.statusGen, u.statusGen, api.statusGen) \in Gens
      BY <1>1, <1>4 DEF Patch, Objects
    <2> QED BY <1>1, <2>4, <2>5, <2>6 DEF JSONPatched, Objects
  <1> QED BY <1>3, <1>4

\* The end of a pass.
LEMMA EndPassType ==
    ASSUME TypeOK, EndPass, api' \in Objects, queued' \in BOOLEAN, faults' \in 0 .. MaxFaults
    PROVE  TypeOK'
  BY NewObjectType DEF TypeOK, EndPass, PCs, cluster

\* The terminal write of a pass is a phase and a list of conditions.
LEMMA TerminalType ==
    ASSUME TypeOK
    PROVE  TerminalPhase \in Phases /\ TerminalConditions \in Conditions
  <1>1. mem \in Objects /\ mem.conds \in Conditions /\ mem.phase \in Phases
    BY DEF TypeOK, Objects
  <1>2. TerminalPhase \in Phases
    BY <1>1 DEF TerminalPhase, Phases
  <1>3. err # NoErr => SetReady(mem.conds, "False", err) \in Conditions
    BY <1>1, SetReadyType DEF TypeOK, ReadyReasons
  <1>4. SetFlags(mem.conds, OpConditionsToClear, "False") \in Conditions
    BY <1>1, SetFlagsType
  <1>5. TerminalConditions \in Conditions
    BY <1>1, <1>3, <1>4 DEF TerminalConditions
  <1> QED BY <1>2, <1>5

\* Every step, of a pass or of the world around it, keeps the types.
LEMMA NextType ==
    ASSUME TypeOK, [Next]_vars
    PROVE  TypeOK'
  <1> USE DEF TypeOK
  <1>0. /\ api \in Objects /\ mem \in Objects
        /\ mem.conds \in Conditions /\ mem.phase \in Phases
        /\ "ReconcileFailed" \in FailureReasons /\ "RackReconcileFailed" \in FailureReasons
    BY DEF Objects, FailureReasons
  <1>1. CASE StartPass
    BY <1>1 DEF StartPass, PCs, cluster
  <1>2. CASE SetTerminating
    <2> DEFINE conds == SetReady(mem.conds, "False", "Terminating")
    <2>1. conds \in Conditions
      BY <1>0, SetReadyType DEF ReadyReasons
    <2>2. PICK o \in Outcomes : MergePatchStatus(o, mem.phase, conds)
      BY <1>2 DEF SetTerminating
    <2>3. api' \in Objects /\ mem' \in Objects /\ faults' \in 0 .. MaxFaults
      BY <1>0, <2>1, <2>2, MergePatchStatusType
    <2> QED BY <1>2, <2>3 DEF SetTerminating, Continue, PCs, cluster
  <1>3. CASE HandleClusterDeletion
    <2>1. CASE StageFails("ReconcileFailed")
      BY <1>0, <2>1, StageFailsType
    <2>2. ASSUME NEW o \in Outcomes, CountFault(o),
                 api' = api \/ api' = [api EXCEPT !.exists = FALSE],
                 Continue("finish") \/ FailWith("ReconcileFailed"),
                 pvc' = FALSE,
                 UNCHANGED <<queued, mem, pending, armed, work, workGen, sts, pods>>
          PROVE  TypeOK'
      <3>1. api' \in Objects
        BY <2>2 DEF Objects
      <3>2. faults' \in 0 .. MaxFaults
        BY <2>2, CountFaultType
      <3> QED BY <1>0, <2>2, <3>1, <3>2 DEF Continue, FailWith, PCs
    <2> QED BY <1>3, <2>1, <2>2 DEF HandleClusterDeletion
  <1>4. CASE InitializeConditionsIfNeeded
    <2> DEFINE seeded == SetFlags(SetReady(mem.conds, "Unknown", "Initializing"), Flags, "False")
    <2>1. seeded \in Conditions
      BY <1>0, SetReadyType, SetFlagsType DEF ReadyReasons
    <2>2. (IF mem.conds = NoConditions THEN seeded ELSE mem.conds) \in Conditions
      BY <1>0, <2>1
    <2> HIDE DEF seeded
    <2> QED BY <1>0, <1>4, <2>2, PatchStageType DEF InitializeConditionsIfNeeded, PCs, seeded
  <1>5. CASE CheckPaused
    <2>1. /\ SetFlags(mem.conds, {"Paused"}, "True") \in Conditions
          /\ SetFlags(mem.conds, {"Paused"}, "False") \in Conditions
      BY <1>0, SetFlagsType
    <2> QED BY <1>0, <1>5, <2>1, PatchStageType DEF CheckPaused, PCs
  <1>6. CASE MarkInProgress
    <2>1. SetReady(mem.conds, "False", "Reconciling") \in Conditions
      BY <1>0, SetReadyType DEF ReadyReasons
    <2> QED BY <1>0, <1>6, <2>1, PatchStageType
        DEF MarkInProgress, PCs, Phases
  <1>7. CASE AddFinalizer
    <2>1. CASE StageSucceeds("checkFailed")
      BY <2>1, StageSucceedsType DEF PCs
    <2>2. ASSUME NEW o \in Outcomes, CountFault(o),
                 api' = api \/ api' = [api EXCEPT !.finalizer = TRUE],
                 \/ mem' = api' /\ Continue("checkFailed")
                 \/ mem' = mem /\ FailWith("ClusterSetupFailed"),
                 UNCHANGED <<queued, pending, armed, cluster>>
          PROVE  TypeOK'
      <3>1. api' \in Objects
        BY <2>2 DEF Objects
      <3>2. faults' \in 0 .. MaxFaults
        BY <2>2, CountFaultType
      <3> QED BY <2>2, <3>1, <3>2 DEF Continue, FailWith, PCs, FailureReasons, cluster
    <2> QED BY <1>7, <2>1, <2>2 DEF AddFinalizer
  <1>8. CASE CheckPreviouslyFailedCluster
    <2>1. CASE StageFails("ClusterSetupFailed")
      BY <2>1, StageFailsType DEF FailureReasons
    <2>2. CASE StageSucceeds("headlessSvc")
      BY <2>2, StageSucceedsType DEF PCs
    <2>3. CASE /\ RequeueAfter
               /\ UNCHANGED <<api, queued, mem, pending, armed, cluster, faults>>
      BY <2>3 DEF RequeueAfter, PCs, cluster
    <2>4. CASE RecoverFailedCreate
      <3>1. faults' \in 0 .. MaxFaults
        BY <2>4, OneMoreFault DEF RecoverFailedCreate
      <3> QED BY <2>4, <3>1
          DEF RecoverFailedCreate, FailWith, PCs, FailureReasons, PodStates
    <2> QED BY <1>8, <2>1, <2>2, <2>3, <2>4 DEF CheckPreviouslyFailedCluster
  <1>9. CASE CreateHeadlessSvc
    <2>1. CASE StageFails("ServiceReconcileFailed")
      BY <2>1, StageFailsType DEF FailureReasons
    <2>2. CASE ~StageFails("ServiceReconcileFailed")
      <3>1. workGen' \in Gens /\ work' \in [Ops -> 0 .. MaxBatches]
        BY <1>0, <1>9, <2>2, GenType DEF CreateHeadlessSvc
      <3> QED BY <1>9, <2>2, <3>1 DEF CreateHeadlessSvc, Continue, PCs
    <2> QED BY <2>1, <2>2
  <1>10. CASE HandleFailedPods
    <2>1. CASE StageFails("RackReconcileFailed")
      BY <1>0, <2>1, StageFailsType
    <2>2. CASE StageWaits
      BY <2>2, StageWaitsType
    <2>3. CASE StageSucceeds("markRacks")
      BY <2>3, StageSucceedsType DEF PCs
    <2>4. CASE /\ pods' = "starting"
               /\ RequeueAfter
               /\ UNCHANGED <<api, queued, mem, pending, armed, work, workGen, sts, pvc, faults>>
      BY <2>4 DEF RequeueAfter, PCs, PodStates
    <2> QED BY <1>10, <2>1, <2>2, <2>3, <2>4 DEF HandleFailedPods
  <1>11. CASE MarkRacksInProgress
    <2>1. SetReady(mem.conds, "False", "Reconciling") \in Conditions
      BY <1>0, SetReadyType DEF ReadyReasons
    <2> QED BY <1>0, <1>11, <2>1, PatchStageType
        DEF MarkRacksInProgress, PCs, Phases
  <1>12. CASE CreateEmptyRack
    BY <1>12 DEF CreateEmptyRack
  <1>13. ASSUME NEW op \in Ops, ClaimOperation(op)
         PROVE  TypeOK'
    <2>1. SetFlags(mem.conds, {op}, "True") \in Conditions
      BY <1>0, SetFlagsType
    <2>2. pending' \in SUBSET Ops
      BY <1>13 DEF ClaimOperation
    <2> QED BY <1>0, <1>13, <2>1, <2>2, PatchStageType DEF ClaimOperation
  <1>14. ASSUME NEW op \in Ops, RunOperation(op)
         PROVE  TypeOK'
    <2>1. work[op] > 0 /\ work[op] \in 0 .. MaxBatches
      BY <1>14 DEF RunOperation, Current
    <2>2. work' \in [Ops -> 0 .. MaxBatches]
      BY SMT, <1>14, <2>1, Bounds DEF RunOperation
    <2> QED BY <1>14, <2>2 DEF RunOperation, RequeueAfter, Continue, PCs
  <1>15. CASE FailRackLoop
    BY <1>0, <1>15, StageFailsType, StageWaitsType DEF FailRackLoop
  <1>16. CASE WaitForAllRacksReady
    BY <1>0, <1>16
        DEF WaitForAllRacksReady, Continue, RequeueAfter, FailWith, PCs, cluster
  <1>17. CASE PostRackStages
    BY <1>17, StageFailsType, StageSucceedsType DEF PostRackStages, PCs, FailureReasons
  <1>18. CASE ReconcileAccessControl
    <2>1. CASE StageFails("ACLReconcileFailed")
      BY <2>1, StageFailsType DEF FailureReasons
    <2>2. CASE StageSucceeds("roster")
      BY <2>2, StageSucceedsType DEF PCs
    <2>3. CASE /\ mem' = [mem EXCEPT !.phase = api.phase, !.statusGen = api.statusGen,
                                     !.conds = api.conds]
               /\ Continue("roster")
               /\ UNCHANGED <<api, queued, pending, armed, cluster, faults>>
      <3>1. mem' \in Objects
        BY <2>3 DEF Objects
      <3> QED BY <2>3, <3>1 DEF Continue, PCs, cluster
    <2> QED BY <1>18, <2>1, <2>2, <2>3 DEF ReconcileAccessControl
  <1>19. CASE EnsureSCRoster
    BY <1>19, StageFailsType, StageSucceedsType, StageWaitsType
       DEF EnsureSCRoster, PCs, FailureReasons
  <1>20. CASE UpdateStatus
    <2>1. PICK o \in Outcomes :
            /\ CountFault(o)
            /\ api' = IF Applied(o) THEN JSONPatched(UpdatedObject) ELSE api
            /\ \/ mem' = UpdatedObject /\ Continue("recoverIgnorable")
               \/ mem' = mem /\ FailWith("StatusUpdateFailed")
      BY <1>20 DEF UpdateStatus
    <2>2. api' \in Objects /\ mem' \in Objects
      BY <2>1, UpdatedObjectType
    <2>3. faults' \in 0 .. MaxFaults
      BY <2>1, CountFaultType
    <2> QED BY <1>20, <2>1, <2>2, <2>3
            DEF UpdateStatus, Continue, FailWith, PCs, FailureReasons, cluster
  <1>21. CASE RecoverIgnorablePods
    <2>1. CASE /\ RequeueAfter
               /\ UNCHANGED <<api, queued, mem, pending, armed, cluster, faults>>
      BY <2>1 DEF RequeueAfter, PCs, cluster
    <2> QED BY <1>0, <1>21, <2>1, StageFailsType, StageSucceedsType DEF RecoverIgnorablePods, PCs
  <1>22. CASE FinishReconcile
    <2>1. PICK o \in Outcomes :
            /\ CountFault(o)
            /\ api' = api \/ api' = MergePatched(TerminalPhase, TerminalConditions)
      BY <1>22 DEF FinishReconcile
    <2>2. api' \in Objects
      BY <2>1, TerminalType, MergePatchedType
    <2>3. faults' \in 0 .. MaxFaults
      BY <2>1, CountFaultType
    <2>4. queued' \in BOOLEAN
      BY <1>22 DEF FinishReconcile
    <2> QED BY <1>22, <2>2, <2>3, <2>4, EndPassType DEF FinishReconcile
  <1>23. CASE Crash
    BY <1>23, EndPassType, OneMoreFault DEF Crash
  <1>24. CASE UserEdit
    <2>1. api' \in Objects
      <3>1. api.gen \in 1 .. MaxGen /\ api.gen < MaxGen
        BY <1>24 DEF UserEdit, Objects
      <3>2. api.gen + 1 \in 1 .. MaxGen
        BY SMT, <3>1, Bounds
      <3> QED BY <1>24, <3>2 DEF UserEdit, Objects
    <2> QED BY <1>24, <2>1 DEF UserEdit, pass, cluster
  <1>25. CASE UserDelete
    <2>1. api' \in Objects
      BY <1>25 DEF UserDelete, Objects
    <2> QED BY <1>25, <2>1 DEF UserDelete, pass, cluster
  <1>26. CASE PodsCreate \/ PodsSettle \/ PodsFail \/ GarbageCollect
    <2>1. pods' \in PodStates /\ faults' \in 0 .. MaxFaults
      BY <1>26, OneMoreFault DEF PodsCreate, PodsSettle, PodsFail, GarbageCollect, PodStates
    <2> QED BY <1>26, <2>1
        DEF PodsCreate, PodsSettle, PodsFail, GarbageCollect, pass
  <1>27. CASE UNCHANGED vars
    BY <1>27 DEF vars, cluster
  <1> QED BY <1>1, <1>2, <1>3, <1>4, <1>5, <1>6, <1>7, <1>8, <1>9,
      <1>10, <1>11, <1>12, <1>13,
             <1>14, <1>15, <1>16, <1>17, <1>18, <1>19, <1>20, <1>21, <1>22, <1>23, <1>24,
             <1>25, <1>26, <1>27 DEF Next, PassStep

\* Type correctness: whatever the user, the API server and Kubernetes do, every variable holds
\* a value of its kind; in particular the batches left never go below zero and memory and the
\* API server always hold well-formed objects.
THEOREM TypeCorrect == Spec => []TypeOK
  <1>1. Init => TypeOK
    <2> SUFFICES ASSUME Init PROVE TypeOK
      OBVIOUS
    <2>1. work \in [Ops -> 0 .. MaxBatches]
      BY SMT, Bounds DEF Init
    <2>2. workGen \in Gens /\ faults \in 0 .. MaxFaults
      BY SMT, Bounds DEF Init, Gens
    <2> QED BY <2>1, <2>2, NewObjectType DEF Init, TypeOK, PCs, PodStates
  <1>2. TypeOK /\ [Next]_vars => TypeOK'
    BY NextType
  <1> QED BY <1>1, <1>2, PTL DEF Spec

-----------------------------------------------------------------------------
(* The inductive invariant behind ReadyImpliesAtRest.                      *)

AtRest(o) == o.conds.ready.status = "True" => \A op \in Ops : o.conds.flag[op].status # "True"

ErrorNotReady(o) == o.phase = "Error" => o.conds.ready.status # "True"

\* The stages in which memory has the phase and the conditions of the object: every write of a
\* pass was answered, or else the pass is on its way out.
Synced ==
    \/ pc \notin {"idle", "deletion", "finish"}
    \/ pc = "finish" /\ err = NoErr /\ ~mem.deleting

RackStages == {"racks", "postRacks", "acl", "roster", "updateStatus"}

NotReadyStages ==
    {"addFinalizer", "checkFailed", "headlessSvc", "failedPods", "markRacks"} \cup RackStages

RestInv ==
    /\ AtRest(api) /\ AtRest(mem)
    /\ ErrorNotReady(api) /\ ErrorNotReady(mem)
    /\ Synced => mem.phase = api.phase /\ mem.conds = api.conds
    /\ pc \in {"terminate", "deletion"} => mem.deleting
    /\ pc \in NotReadyStages => mem.conds.ready.status # "True"
    /\ pc \in RackStages => mem.conds.ready.reason = "Reconciling"
    /\ pc \in {"deletion", "finish"} /\ api.conds.ready.status = "True"
       => mem.conds.ready.status = "True" \/ mem.conds.ready.reason = "Reconciling"

\* What a merge patch does while memory has the phase and conditions of the object: both get
\* the new ones, or memory keeps its own and the pass fails.
LEMMA SyncedPatch ==
    ASSUME TypeOK, NEW phase \in Phases, NEW conds \in Conditions, NEW next, NEW reason,
           mem.phase = api.phase, mem.conds = api.conds, PatchStage(phase, conds, next, reason)
    PROVE  /\ mem'.deleting = mem.deleting
           /\ \/ /\ pc' = next /\ err' = err
                 /\ mem'.phase = phase /\ mem'.conds = conds
                 /\ api'.phase = phase /\ api'.conds = conds
              \/ /\ pc' = "finish" /\ err' = reason
                 /\ mem' = mem
                 /\ \/ api' = api
                    \/ api'.phase = phase /\ api'.conds = conds
  <1> PICK o \in Outcomes :
        /\ MergePatchStatus(o, phase, conds)
        /\ IF MergePatchOK(o, phase, conds) THEN Continue(next) ELSE FailWith(reason)
    BY DEF PatchStage
  <1>1. /\ MergePatched(phase, conds).phase = phase
        /\ MergePatched(phase, conds).conds = conds
    BY DEF MergePatched, TypeOK, Objects
  <1>2. CASE Unchanged(phase, conds)
    BY SMTT(30), <1>2 DEF MergePatchStatus, MergePatchOK, Unchanged, Continue
  <1>3. CASE ~Unchanged(phase, conds) /\ Answered(o)
    <2>1. api' = MergePatched(phase, conds)
      BY <1>3 DEF MergePatchStatus, Answered, Applied
    <2>2. mem' = [mem EXCEPT !.phase = phase, !.conds = conds]
      BY <1>1, <1>3, <2>1 DEF MergePatchStatus
    <2>3. mem'.phase = phase /\ mem'.conds = conds /\ mem'.deleting = mem.deleting
      BY <2>2 DEF TypeOK, Objects
    <2> QED BY <1>1, <1>3, <2>1, <2>3 DEF MergePatchOK, Continue
  <1>4. CASE ~Unchanged(phase, conds) /\ ~Answered(o)
    BY <1>1, <1>4 DEF MergePatchStatus, MergePatchOK, FailWith
  <1> QED BY <1>2, <1>3, <1>4

\* Such a stage keeps the invariant when what it writes is at rest, an error phase comes with
\* a Ready that is not True, it does not set Ready, and the next stage gets what it relies on.
LEMMA RestAfterPatch ==
    ASSUME TypeOK, RestInv, NEW phase \in Phases, NEW conds \in Conditions,
           NEW next, NEW reason \in FailureReasons,
           mem.phase = api.phase, mem.conds = api.conds, PatchStage(phase, conds, next, reason),
           conds.ready.status = "True" =>
               mem.conds.ready.status = "True" /\ \A op \in Ops : conds.flag[op].status # "True",
           phase = "Error" => conds.ready.status # "True",
           next \notin {"idle", "terminate", "deletion"},
           next \in NotReadyStages => conds.ready.status # "True",
           next \in RackStages => conds.ready.reason = "Reconciling"
    PROVE  RestInv'
  <1>1. CASE /\ pc' = next
             /\ mem'.phase = phase /\ mem'.conds = conds
             /\ api'.phase = phase /\ api'.conds = conds
    BY <1>1 DEF RestInv, AtRest, ErrorNotReady, Synced
  <1>2. CASE /\ pc' = "finish" /\ err' = reason /\ mem' = mem
             /\ api' = api \/ (api'.phase = phase /\ api'.conds = conds)
    <2>1. reason # NoErr
      BY DEF FailureReasons, NoErr
    <2> QED BY <1>2, <2>1 DEF RestInv, AtRest, ErrorNotReady, Synced, NotReadyStages, RackStages
  <1> QED BY <1>1, <1>2, SyncedPatch

\* A stage that leaves the status alone keeps the invariant when the next one relies on no
\* more than it did, or when it ends the pass.
LEMMA RestAfterQuiet ==
    ASSUME RestInv, Synced,
           api'.phase = api.phase, api'.conds = api.conds,
           mem'.phase = mem.phase, mem'.conds = mem.conds,
           pc' \notin {"idle", "terminate", "deletion"},
           pc' \in NotReadyStages => pc \in NotReadyStages,
           pc' \in RackStages => pc \in RackStages
    PROVE  RestInv'
  BY DEF RestInv, AtRest, ErrorNotReady, Synced

\* While memory has the conditions of the object, the patch of updateStatus makes them the
\* ones it built: Ready, and every operation condition at rest.
LEMMA UpdatedRest ==
    ASSUME TypeOK, mem.phase = api.phase, mem.conds = api.conds
    PROVE  /\ UpdatedObject.phase = "Completed" /\ JSONPatched(UpdatedObject).phase = "Completed"
           /\ JSONPatched(UpdatedObject).conds = UpdatedObject.conds
           /\ \A op \in Ops : UpdatedObject.conds.flag[op].status = "False"
  <1> DEFINE new == UpdatedObject
  <1>1. new \in Objects /\ api \in Objects /\ mem \in Objects
    BY UpdatedObjectType DEF TypeOK
  <1>2. new.phase = "Completed"
    BY SMTT(30), <1>1 DEF UpdatedObject, Objects
  <1>3. \A op \in Ops : new.conds.flag[op].status = "False"
    BY <1>1
        DEF UpdatedObject, SetFlags, SetReady, Objects, Conditions, Flags
  <1> HIDE DEF new
  <1>4. JSONPatched(new).phase = "Completed"
    BY <1>1, <1>2 DEF JSONPatched, Patch, Objects
  <1> DEFINE cs == new.conds
  <1>a. cs \in Conditions /\ JSONPatched(new).conds = PatchedConds(cs)
    BY <1>1 DEF JSONPatched, Objects
  <1>b. mem.conds = api.conds /\ mem.conds \in Conditions
    BY SMTT(30), <1>1 DEF Objects
  <1> HIDE DEF cs
  <1>5. PatchedConds(cs).ready = cs.ready
    BY <1>a, <1>b DEF PatchedConds, Patch, Conditions, ReadyCond
  <1>6. PatchedConds(cs).flag = cs.flag
    <2>1. ASSUME NEW c \in Flags
          PROVE  PatchedConds(cs).flag[c] = cs.flag[c]
      <3>1. cs.flag[c] \in FlagCond
        BY SMTT(30), <1>a, <2>1 DEF Conditions
      <3>2. PatchedConds(cs).flag[c] =
                [status |-> Patch(mem.conds.flag[c].status, cs.flag[c].status, api.conds.flag[c].status),
                 gen |-> Patch(mem.conds.flag[c].gen, cs.flag[c].gen, api.conds.flag[c].gen)]
        BY SMTT(30), <2>1 DEF PatchedConds
      <3> QED BY <1>b, <3>1, <3>2 DEF Patch, FlagCond
    <2>2. /\ cs.flag = [c \in Flags |-> cs.flag[c]]
          /\ PatchedConds(cs).flag = [c \in Flags |-> PatchedConds(cs).flag[c]]
      BY <1>a DEF PatchedConds, Conditions
    <2> QED BY <2>1, <2>2
  <1>7. JSONPatched(new).conds \in Conditions
    BY SMTT(30), UpdatedObjectType DEF Objects, new
  <1>8. JSONPatched(new).conds = cs
    BY SMTT(30), <1>a, <1>5, <1>6, <1>7 DEF Conditions
  <1> QED BY <1>2, <1>3, <1>4, <1>8 DEF new, cs

\* A pass that ended leaves memory empty.
LEMMA EndPassRest ==
    ASSUME EndPass, AtRest(api)', ErrorNotReady(api)'
    PROVE  RestInv'
  BY DEF EndPass, NewObject, NoConditions, RestInv, AtRest, ErrorNotReady, Synced, NotReadyStages,
         RackStages, Flags

\* The terminal write of a pass, sent or not, leaves the object at rest.
LEMMA TerminalRest ==
    ASSUME TypeOK, RestInv, pc = "finish"
    PROVE  \/ Unchanged(TerminalPhase, TerminalConditions)
           \/ /\ AtRest(MergePatched(TerminalPhase, TerminalConditions))
              /\ ErrorNotReady(MergePatched(TerminalPhase, TerminalConditions))
  <1> DEFINE new == MergePatched(TerminalPhase, TerminalConditions)
  <1>0. /\ api \in Objects /\ mem \in Objects
        /\ mem.conds \in Conditions /\ api.conds \in Conditions
    BY DEF TypeOK, Objects
  <1>1. /\ new.phase = IF TerminalPhase = mem.phase THEN api.phase ELSE TerminalPhase
        /\ new.conds = IF TerminalConditions = mem.conds THEN api.conds ELSE TerminalConditions
    BY <1>0 DEF MergePatched, Objects
  <1>2. CASE err # NoErr
    <2>1. TerminalConditions = SetReady(mem.conds, "False", err)
      BY <1>2 DEF TerminalConditions
    <2>2. TerminalConditions.ready.status = "False" /\ TerminalConditions.ready.reason = err
      BY <1>0, <2>1 DEF SetReady, Conditions
    <2>3. err # "Reconciling"
      BY <1>2 DEF TypeOK, FailureReasons
    <2>4. TerminalConditions = mem.conds => api.conds.ready.status # "True"
      BY <2>2, <2>3 DEF RestInv
    <2> HIDE DEF new
    <2> QED BY <1>1, <2>2, <2>4 DEF AtRest, ErrorNotReady, new
  <1>3. CASE err = NoErr /\ mem.deleting
    BY SMTT(30), <1>3 DEF TerminalPhase, TerminalConditions, Unchanged
  <1>4. CASE err = NoErr /\ ~mem.deleting
    <2>1. /\ TerminalPhase = mem.phase
          /\ TerminalConditions = SetFlags(mem.conds, OpConditionsToClear, "False")
      BY <1>4 DEF TerminalPhase, TerminalConditions
    <2>2. mem.phase = api.phase /\ mem.conds = api.conds
      BY <1>4 DEF RestInv, Synced
    <2>3. /\ TerminalConditions.ready = api.conds.ready
          /\ \A op \in Ops : TerminalConditions.flag[op].status = "True"
                             => api.conds.flag[op].status = "True"
      BY <1>0, <2>1, <2>2 DEF SetFlags, Conditions, Flags
    <2> HIDE DEF new
    <2> QED BY <1>1, <2>1, <2>2, <2>3 DEF RestInv, AtRest, ErrorNotReady, new
  <1> QED BY <1>2, <1>3, <1>4

\* Setting flags leaves Ready and the other flags as they were.
LEMMA SetFlagsKeeps ==
    ASSUME NEW conds \in Conditions, NEW cs, NEW status
    PROVE  /\ SetFlags(conds, cs, status).ready = conds.ready
           /\ \A c \in Flags \ cs : SetFlags(conds, cs, status).flag[c] = conds.flag[c]
  BY DEF SetFlags, Conditions

\* RestInv is inductive relative to TypeOK.
LEMMA NextRest ==
    ASSUME TypeOK, RestInv, [Next]_vars
    PROVE  RestInv'
  <1>0. /\ api \in Objects /\ mem \in Objects
        /\ mem.conds \in Conditions /\ mem.phase \in Phases
        /\ "ReconcileFailed" \in FailureReasons /\ "RackReconcileFailed" \in FailureReasons
    BY SMTT(30) DEF TypeOK, Objects, FailureReasons
  <1>1. CASE StartPass
    BY SMTT(30), <1>1
       DEF StartPass, RestInv, AtRest, ErrorNotReady, Synced, NotReadyStages, RackStages
  <1>2. CASE SetTerminating
    <2> DEFINE conds == SetReady(mem.conds, "False", "Terminating")
    <2>1. conds \in Conditions /\ conds.ready.status = "False"
      BY <1>0, SetReadyType DEF ReadyReasons, SetReady, Conditions
    <2>2. PICK o \in Outcomes : MergePatchStatus(o, mem.phase, conds)
      BY <1>2 DEF SetTerminating
    <2>3. mem.phase = api.phase /\ mem.conds = api.conds /\ mem.deleting
      BY <1>2 DEF SetTerminating, RestInv, Synced
    <2> HIDE DEF conds
    <2>4. /\ MergePatched(mem.phase, conds).phase = api.phase
          /\ MergePatched(mem.phase, conds).conds = conds
      BY <1>0, <2>3 DEF MergePatched, Objects
    <2>5. /\ api'.phase = api.phase
          /\ api'.conds = api.conds \/ api'.conds = conds
          /\ mem' = mem \/ (/\ mem'.phase = api'.phase /\ mem'.conds = api'.conds
                            /\ mem'.deleting = mem.deleting)
      BY <1>0, <2>2, <2>4 DEF MergePatchStatus, Objects
    <2>6. pc' = "deletion"
      BY <1>2 DEF SetTerminating, Continue
    <2> QED BY <2>1, <2>3, <2>5, <2>6
            DEF RestInv, AtRest, ErrorNotReady, Synced, NotReadyStages, RackStages
  <1>3. CASE HandleClusterDeletion
    <2>1. /\ api'.phase = api.phase /\ api'.conds = api.conds
          /\ mem' = mem /\ pc = "deletion" /\ pc' = "finish"
      BY <1>0, <1>3 DEF HandleClusterDeletion, StageFails, FailWith, Continue, Objects
    <2> QED BY <2>1 DEF RestInv, AtRest, ErrorNotReady, Synced, NotReadyStages, RackStages
  <1>4. CASE InitializeConditionsIfNeeded
    <2> DEFINE seeded == SetFlags(SetReady(mem.conds, "Unknown", "Initializing"), Flags, "False")
               conds == IF mem.conds = NoConditions THEN seeded ELSE mem.conds
    <2>1. seeded \in Conditions /\ seeded.ready.status = "Unknown"
      <3>1. SetReady(mem.conds, "Unknown", "Initializing") \in Conditions
        BY <1>0, SetReadyType DEF ReadyReasons
      <3>2. SetReady(mem.conds, "Unknown", "Initializing").ready.status = "Unknown"
        BY <1>0 DEF SetReady, Conditions
      <3>3. seeded \in Conditions
        BY <1>0, <3>1, SetFlagsType
      <3>4. seeded.ready = SetReady(mem.conds, "Unknown", "Initializing").ready
        BY SMT, <3>1, SetFlagsKeeps
      <3> QED BY <3>2, <3>3, <3>4
    <2>2. PatchStage(mem.phase, conds, "checkPaused", "ReconcileFailed")
      BY <1>4 DEF InitializeConditionsIfNeeded
    <2> HIDE DEF seeded
    <2>3. conds \in Conditions /\ (conds = mem.conds \/ conds.ready.status = "Unknown")
      BY SMTT(30), <1>0, <2>1
    <2>4. mem.phase = api.phase /\ mem.conds = api.conds
      BY SMTT(30), <1>4 DEF InitializeConditionsIfNeeded, RestInv, Synced
    <2> HIDE DEF conds
    <2> QED BY SMT, <1>0, <2>2, <2>3, <2>4, RestAfterPatch
            DEF RestInv, AtRest, ErrorNotReady, NotReadyStages, RackStages
  <1>5. CASE CheckPaused
    <2>1. PICK status \in {"True", "False"}, next \in {"finish", "markInProgress"} :
            PatchStage(mem.phase, SetFlags(mem.conds, {"Paused"}, status), next, "ReconcileFailed")
      BY <1>5 DEF CheckPaused
    <2> DEFINE conds == SetFlags(mem.conds, {"Paused"}, status)
    <2>2. /\ conds \in Conditions /\ conds.ready = mem.conds.ready
          /\ \A op \in Ops : conds.flag[op] = mem.conds.flag[op]
      <3>1. conds \in Conditions
        BY <1>0, SetFlagsType
      <3>2. Ops \subseteq Flags \ {"Paused"}
        BY SMTT(30), ConstantsAssumption DEF ConstantsAssumption, Flags
      <3> QED BY SMT, <1>0, <3>1, <3>2, SetFlagsKeeps
    <2>3. mem.phase = api.phase /\ mem.conds = api.conds
      BY <1>5 DEF CheckPaused, RestInv, Synced
    <2> HIDE DEF conds
    <2> QED BY SMT, <1>0, <2>1, <2>2, <2>3, RestAfterPatch
            DEF conds, RestInv, AtRest, ErrorNotReady, NotReadyStages, RackStages
  <1>6. CASE MarkInProgress
    <2> DEFINE conds == SetReady(mem.conds, "False", "Reconciling")
    <2>1. conds \in Conditions /\ conds.ready.status = "False"
      BY <1>0, SetReadyType DEF ReadyReasons, SetReady, Conditions
    <2>2. mem.phase = api.phase /\ mem.conds = api.conds
      BY SMTT(30), <1>6 DEF MarkInProgress, RestInv, Synced
    <2>3. CASE /\ mem.phase = "Error"
               /\ PatchStage(mem.phase, mem.conds, "addFinalizer", "ReconcileFailed")
      BY SMTT(30), <1>0, <2>2, <2>3, RestAfterPatch
         DEF RestInv, AtRest, ErrorNotReady, NotReadyStages, RackStages
    <2> HIDE DEF conds
    <2>4. CASE PatchStage("InProgress", conds, "addFinalizer", "ReconcileFailed")
      BY <1>0, <2>1, <2>2, <2>4, RestAfterPatch DEF Phases, RackStages
    <2> QED BY <1>6, <2>3, <2>4 DEF MarkInProgress, conds
  <1>7. CASE AddFinalizer
    <2>1. /\ api'.phase = api.phase /\ api'.conds = api.conds
          /\ mem' = mem \/ mem' = api'
          /\ pc = "addFinalizer" /\ pc' \in {"checkFailed", "finish"}
      BY SMTT(30), <1>0, <1>7 DEF AddFinalizer, StageSucceeds, Continue, FailWith, Objects
    <2>2. Synced /\ mem.phase = api.phase /\ mem.conds = api.conds
      BY <2>1 DEF RestInv, Synced
    <2> QED BY <2>1, <2>2, RestAfterQuiet DEF NotReadyStages, RackStages
  <1>8. CASE CheckPreviouslyFailedCluster
    <2>1. /\ api' = api /\ mem' = mem
          /\ pc = "checkFailed" /\ pc' \in {"headlessSvc", "finish"}
      BY <1>8 DEF CheckPreviouslyFailedCluster, StageFails, StageSucceeds, RequeueAfter, Continue,
                  FailWith, RecoverFailedCreate
    <2> QED BY SMTT(30), <2>1, RestAfterQuiet DEF Synced, NotReadyStages, RackStages
  <1>9. CASE CreateHeadlessSvc
    <2>1. /\ api' = api /\ mem' = mem
          /\ pc = "headlessSvc" /\ pc' \in {"failedPods", "finish"}
      BY <1>9 DEF CreateHeadlessSvc, StageFails, Continue, FailWith
    <2> QED BY <2>1, RestAfterQuiet DEF Synced, NotReadyStages, RackStages
  <1>10. CASE HandleFailedPods
    <2>1. /\ api' = api /\ mem' = mem
          /\ pc = "failedPods" /\ pc' \in {"markRacks", "finish"}
      BY SMTT(30), <1>10
         DEF HandleFailedPods, StageFails, StageWaits, StageSucceeds, RequeueAfter, Continue,
                   FailWith
    <2> QED BY <2>1, RestAfterQuiet DEF Synced, NotReadyStages, RackStages
  <1>11. CASE MarkRacksInProgress
    <2> DEFINE conds == SetReady(mem.conds, "False", "Reconciling")
    <2>1. /\ conds \in Conditions
          /\ conds.ready.status = "False" /\ conds.ready.reason = "Reconciling"
      BY <1>0, SetReadyType DEF ReadyReasons, SetReady, Conditions
    <2>2. mem.phase = api.phase /\ mem.conds = api.conds
      BY <1>11 DEF MarkRacksInProgress, RestInv, Synced
    <2>3. PatchStage("InProgress", conds, "racks", "RackReconcileFailed")
      BY <1>11 DEF MarkRacksInProgress
    <2> HIDE DEF conds
    <2> QED BY <1>0, <2>1, <2>2, <2>3, RestAfterPatch DEF Phases
  <1>12. CASE CreateEmptyRack
    <2>1. api' = api /\ mem' = mem /\ pc = "racks" /\ pc' = "racks"
      BY SMTT(30), <1>12 DEF CreateEmptyRack
    <2> QED BY <2>1, RestAfterQuiet DEF Synced
  <1>13. ASSUME NEW op \in Ops, ClaimOperation(op)
         PROVE  RestInv'
    <2> DEFINE conds == SetFlags(mem.conds, {op}, "True")
    <2>1. conds \in Conditions /\ conds.ready = mem.conds.ready
      <3>1. conds \in Conditions
        BY <1>0, SetFlagsType
      <3>2. conds.ready = mem.conds.ready
        BY SMT, <1>0, SetFlagsKeeps
      <3> QED BY <3>1, <3>2
    <2>2. pc \in {"racks", "failedPods"} /\ PatchStage(mem.phase, conds, pc, "RackReconcileFailed")
      BY SMTT(30), <1>13 DEF ClaimOperation, InRackLoop
    <2>3. /\ mem.phase = api.phase /\ mem.conds = api.conds
          /\ mem.conds.ready.status # "True"
          /\ pc \in RackStages => mem.conds.ready.reason = "Reconciling"
      BY <2>2 DEF RestInv, Synced, NotReadyStages, RackStages
    <2> HIDE DEF conds
    <2> QED BY <1>0, <2>1, <2>2, <2>3, RestAfterPatch
  <1>14. ASSUME NEW op \in Ops, RunOperation(op)
         PROVE  RestInv'
    <2>1. /\ api' = api /\ mem' = mem
          /\ pc \in {"racks", "failedPods"} /\ pc' \in {pc, "finish"}
      BY <1>14 DEF RunOperation, InRackLoop, RequeueAfter, Continue
    <2> QED BY <2>1, RestAfterQuiet DEF Synced, NotReadyStages, RackStages
  <1>15. CASE FailRackLoop \/ WaitForAllRacksReady
    <2>1. /\ api' = api /\ mem' = mem
          /\ pc = "racks" /\ pc' \in {"postRacks", "finish"}
      BY <1>15 DEF FailRackLoop, WaitForAllRacksReady, StageFails, StageWaits, RequeueAfter,
                   Continue, FailWith
    <2> QED BY <2>1, RestAfterQuiet DEF Synced, NotReadyStages, RackStages
  <1>16. CASE PostRackStages
    <2>1. api' = api /\ mem' = mem /\ pc = "postRacks" /\ pc' \in {"acl", "finish"}
      BY <1>16 DEF PostRackStages, StageFails, StageSucceeds, Continue, FailWith
    <2> QED BY <2>1, RestAfterQuiet DEF Synced, NotReadyStages, RackStages
  <1>17. CASE ReconcileAccessControl
    <2>1. pc = "acl" /\ Synced /\ mem.phase = api.phase /\ mem.conds = api.conds
      BY <1>17 DEF ReconcileAccessControl, RestInv, Synced
    <2>2. /\ api' = api /\ mem'.phase = mem.phase /\ mem'.conds = mem.conds
          /\ pc' \in {"roster", "finish"}
      BY <1>0, <1>17, <2>1
          DEF ReconcileAccessControl, StageFails, StageSucceeds, Continue,
                               FailWith, Objects
    <2> QED BY <2>1, <2>2, RestAfterQuiet DEF NotReadyStages, RackStages
  <1>18. CASE EnsureSCRoster
    <2>1. api' = api /\ mem' = mem /\ pc = "roster" /\ pc' \in {"updateStatus", "finish"}
      BY <1>18 DEF EnsureSCRoster, StageFails, StageWaits, StageSucceeds, RequeueAfter, Continue,
                   FailWith
    <2> QED BY <2>1, RestAfterQuiet DEF Synced, NotReadyStages, RackStages
  <1>19. CASE UpdateStatus
    <2>1. /\ mem.phase = api.phase /\ mem.conds = api.conds
          /\ mem.conds.ready.reason = "Reconciling"
      BY <1>19 DEF UpdateStatus, RestInv, Synced, RackStages
    <2>2. \/ /\ pc' = "recoverIgnorable"
             /\ mem' = UpdatedObject /\ api' = JSONPatched(UpdatedObject)
          \/ /\ pc' = "finish" /\ err' = "StatusUpdateFailed"
             /\ mem' = mem /\ (api' = api \/ api' = JSONPatched(UpdatedObject))
      BY SMTT(30), <1>19 DEF UpdateStatus, Applied, Answered, Continue, FailWith
    <2>3. \/ /\ pc' = "recoverIgnorable"
             /\ AtRest(api)' /\ ErrorNotReady(api)' /\ AtRest(mem)' /\ ErrorNotReady(mem)'
             /\ mem'.phase = api'.phase /\ mem'.conds = api'.conds
          \/ /\ pc' = "finish" /\ err' = "StatusUpdateFailed"
             /\ AtRest(api)' /\ ErrorNotReady(api)' /\ mem' = mem
      BY <2>1, <2>2, UpdatedRest DEF RestInv, AtRest, ErrorNotReady
    <2> QED BY <2>1, <2>3
            DEF RestInv, AtRest, ErrorNotReady, Synced, NotReadyStages, RackStages, NoErr
  <1>20. CASE RecoverIgnorablePods
    <2>1. api' = api /\ mem' = mem /\ pc = "recoverIgnorable" /\ pc' = "finish"
      BY <1>20 DEF RecoverIgnorablePods, StageFails, StageSucceeds, RequeueAfter, Continue, FailWith
    <2> QED BY <2>1, RestAfterQuiet DEF Synced, NotReadyStages, RackStages
  <1>21. CASE FinishReconcile
    <2>1. AtRest(api)' /\ ErrorNotReady(api)'
      BY SMTT(30), <1>21, TerminalRest DEF FinishReconcile, RestInv, AtRest, ErrorNotReady
    <2> QED BY SMTT(30), <1>21, <2>1, EndPassRest DEF FinishReconcile
  <1>22. CASE Crash
    BY SMTT(30), <1>22, EndPassRest DEF Crash, RestInv, AtRest, ErrorNotReady
  <1>23. CASE UserEdit \/ UserDelete
    <2>1. api'.phase = api.phase /\ api'.conds = api.conds /\ UNCHANGED pass
      BY <1>0, <1>23 DEF UserEdit, UserDelete, Objects
    <2> QED BY SMTT(30), <2>1 DEF pass, RestInv, AtRest, ErrorNotReady, Synced
  <1>24. CASE PodsCreate \/ PodsSettle \/ PodsFail \/ GarbageCollect \/ UNCHANGED vars
    <2>1. api' = api /\ UNCHANGED pass
      BY <1>24 DEF PodsCreate, PodsSettle, PodsFail, GarbageCollect, vars, pass
    <2> QED BY SMTT(30), <2>1 DEF pass, RestInv, AtRest, ErrorNotReady, Synced
  <1> QED BY SMTT(30), <1>1, <1>2, <1>3, <1>4, <1>5, <1>6, <1>7, <1>8, <1>9, <1>10,
             <1>11, <1>12, <1>13,
             <1>14, <1>15, <1>16, <1>17, <1>18, <1>19, <1>20, <1>21, <1>22, <1>23, <1>24
          DEF Next, PassStep

\* RestInv holds throughout.
LEMMA RestInvariance == Spec => []RestInv
  <1>1. Init => RestInv
    <2>1. NewObject.phase = "" /\ NewObject.conds.ready.status = ""
      BY DEF NewObject, NoConditions
    <2>2. Init => pc = "idle" /\ api = NewObject /\ mem = NewObject
      BY DEF Init
    <2> QED BY <2>1, <2>2
               DEF RestInv, AtRest, ErrorNotReady, Synced, NotReadyStages, RackStages
  <1>2. TypeOK /\ RestInv /\ [Next]_vars => RestInv'
    BY SMTT(30), NextRest
  <1> QED BY <1>1, <1>2, TypeCorrect, PTL DEF Spec

\* No observer of the object ever sees Ready=True while an operation condition is True, for any
\* set of operations, edits, failed or half-lost writes, and crashes (conditions.go, updateStatus
\* and writeTerminalStatus of reconciler.go).
THEOREM ReadyAtRest == Spec => []ReadyImpliesAtRest
  <1>1. RestInv => ReadyImpliesAtRest
    BY DEF RestInv, AtRest, ReadyImpliesAtRest, IsReady
  <1> QED BY <1>1, RestInvariance, PTL

-----------------------------------------------------------------------------
(* What a step does to the status *)

SameStatus(new, old) ==
    /\ new.phase = old.phase /\ new.conds = old.conds /\ new.statusGen = old.statusGen
    /\ new.gen = old.gen /\ new.deleting = old.deleting

\* Memory has the status of the object.
Agreed == mem.phase = api.phase /\ mem.conds = api.conds

\* A step that writes no status: memory stays, is dropped, or takes over the object.
QuietStatus ==
    /\ api'.phase = api.phase /\ api'.conds = api.conds /\ api'.statusGen = api.statusGen
    /\ api'.gen >= api.gen /\ (api.deleting => api'.deleting)
    /\ \/ SameStatus(mem', mem)
       \/ mem' = api' \/ mem' = NewObject
       \/ /\ pc = "acl" /\ Agreed /\ mem'.phase = mem.phase /\ mem'.conds = mem.conds
          /\ mem'.statusGen = api.statusGen
          /\ mem'.gen = mem.gen /\ mem'.deleting = mem.deleting
    /\ pc' \in RackStages => pc \in RackStages /\ mem'.phase = mem.phase

\* The object and memory after a merge patch of phase and conditions, at the end of which a
\* pass may forget its memory.
PatchStatus(phase, conds) ==
    /\ api'.gen = api.gen /\ api'.statusGen = api.statusGen /\ api'.deleting = api.deleting
    /\ \/ api'.phase = api.phase /\ api'.conds = api.conds
       \/ /\ api'.phase = IF phase = mem.phase THEN api.phase ELSE phase
          /\ api'.conds = IF conds = mem.conds THEN api.conds ELSE conds
    /\ \/ SameStatus(mem', mem)
       \/ mem' = NewObject
       \/ /\ mem'.phase = api'.phase /\ mem'.conds = api'.conds
          /\ mem'.gen = mem.gen /\ mem'.statusGen = mem.statusGen /\ mem'.deleting = mem.deleting
    /\ pc' \in RackStages =>
          mem'.phase = phase /\ (phase = "InProgress" \/ (pc \in RackStages /\ phase = mem.phase))

\* The phases and Ready conditions a pass writes: a phase of its own comes with Ready=False,
\* and before its last write memory has the status of the object.
WrittenPhase(phase, conds) ==
    \/ phase = mem.phase /\ conds = mem.conds /\ mem' = NewObject /\ pc' = "idle"
    \/ Agreed /\ phase = mem.phase /\ conds.ready = mem.conds.ready
    \/ /\ Agreed /\ phase = mem.phase /\ conds.ready.status # "True"
       /\ mem.deleting \/ mem.conds.ready.status # "True"
    \/ Agreed /\ phase = "InProgress" /\ conds.ready.status = "False"
    \/ /\ phase = "Error" /\ conds.ready.status = "False" /\ conds.ready.reason # "Reconciling"
       /\ pc = "finish" /\ pc' = "idle" /\ mem' = NewObject

\* A condition is as it was in memory, or carries the generation in memory.
Stamped(conds) ==
    /\ conds.ready.gen \in {mem.conds.ready.gen, mem.gen}
    /\ \A c \in Flags : conds.flag[c].gen \in {mem.conds.flag[c].gen, mem.gen}

\* An operation condition is as it was, or is seeded, claimed, or cleared at the end of a pass
\* that armed the reset and did not fail.
FlagsKept(conds) ==
    \A op \in Ops :
        \/ conds.flag[op] = mem.conds.flag[op]
        \/ mem.conds = NoConditions
        \/ armed /\ conds.flag[op].status = "True"
        \/ armed /\ op \in pending /\ err = NoErr

StatusWrite(phase, conds) ==
    PatchStatus(phase, conds) /\ WrittenPhase(phase, conds) /\ Stamped(conds) /\ FlagsKept(conds)

StatusStep ==
    \/ QuietStatus
    \/ UpdateStatus
    \/ \E phase \in Phases, conds \in Conditions : StatusWrite(phase, conds)

DoneStages == {"postRacks", "acl", "roster", "updateStatus"}

WorkStages == {"failedPods", "markRacks", "racks"} \cup DoneStages

\* A pass that works on the racks has armed the reset, and one that failed goes on to its end.
ArmedInv ==
    /\ pc \in WorkStages => armed
    /\ err # NoErr => pc = "finish"

\* What a merge patch of phase and conditions does to the object and to memory.
LEMMA MergePatchWrites ==
    ASSUME TypeOK, NEW o \in Outcomes, NEW phase \in Phases, NEW conds \in Conditions,
           MergePatchStatus(o, phase, conds),
           pc' \in RackStages =>
              mem'.phase = phase /\ (phase = "InProgress" \/ (pc \in RackStages /\ phase = mem.phase))
    PROVE  PatchStatus(phase, conds)
  <1>0. api \in Objects /\ mem \in Objects
    BY DEF TypeOK
  <1>2. \/ api' = api
        \/ api' = MergePatched(phase, conds)
    BY DEF MergePatchStatus
  <1>3. /\ api'.gen = api.gen /\ api'.statusGen = api.statusGen /\ api'.deleting = api.deleting
        /\ \/ api'.phase = api.phase /\ api'.conds = api.conds
           \/ /\ api'.phase = IF phase = mem.phase THEN api.phase ELSE phase
              /\ api'.conds = IF conds = mem.conds THEN api.conds ELSE conds
    BY <1>0, <1>2 DEF MergePatched, Objects
  <1>4. mem' = mem \/ mem' = [mem EXCEPT !.phase = api'.phase, !.conds = api'.conds]
    BY DEF MergePatchStatus
  <1>5. \/ SameStatus(mem', mem)
        \/ /\ mem'.phase = api'.phase /\ mem'.conds = api'.conds
           /\ mem'.gen = mem.gen /\ mem'.statusGen = mem.statusGen /\ mem'.deleting = mem.deleting
    BY <1>0, <1>4 DEF Objects, SameStatus
  <1> QED BY <1>3, <1>5 DEF PatchStatus

\* A stage whose only status write is such a patch, while memory has the status of the object.
LEMMA PatchStageWrites ==
    ASSUME TypeOK, NEW phase \in Phases, NEW conds \in Conditions, NEW next, NEW reason,
           Agreed, PatchStage(phase, conds, next, reason),
           next \in RackStages => phase = "InProgress" \/ (pc \in RackStages /\ phase = mem.phase)
    PROVE  PatchStatus(phase, conds)
  <1>1. PICK o \in Outcomes : MergePatchStatus(o, phase, conds)
    BY DEF PatchStage
  <1>2. (pc' = next /\ mem'.phase = phase) \/ pc' = "finish"
    BY SyncedPatch DEF Agreed
  <1>3. "finish" \notin RackStages
    BY DEF RackStages
  <1> QED BY <1>1, <1>2, <1>3, MergePatchWrites

\* What setting Ready makes of the conditions in memory.
LEMMA SetReadyWrites ==
    ASSUME mem \in Objects, NEW status \in {"Unknown", "True", "False"}, NEW reason \in ReadyReasons
    PROVE  LET conds == SetReady(mem.conds, status, reason)
           IN  /\ conds \in Conditions /\ Stamped(conds) /\ FlagsKept(conds)
               /\ conds.ready.status = status /\ conds.ready.reason = reason
               /\ conds.ready.gen = mem.gen /\ conds.flag = mem.conds.flag
  <1> DEFINE conds == SetReady(mem.conds, status, reason)
  <1>0. mem.conds \in Conditions
    BY SMTT(30) DEF Objects
  <1>1. conds \in Conditions
    BY <1>0, SetReadyType
  <1>2. /\ conds.ready = [status |-> status, reason |-> reason, gen |-> mem.gen]
        /\ conds.flag = mem.conds.flag
    BY <1>0 DEF SetReady, Conditions
  <1> HIDE DEF conds
  <1>3. /\ conds.ready.status = status /\ conds.ready.reason = reason
        /\ conds.ready.gen = mem.gen
    BY SMT, <1>2
  <1>4. Stamped(conds) /\ FlagsKept(conds)
    BY <1>2, <1>3 DEF Stamped, FlagsKept
  <1> QED BY <1>1, <1>2, <1>3, <1>4 DEF conds

\* What setting flags makes of conditions stamped as those in memory.
LEMMA SetFlagsWrites ==
    ASSUME mem \in Objects, NEW old \in Conditions, Stamped(old), NEW cs,
           NEW status \in {"True", "False"}
    PROVE  LET conds == SetFlags(old, cs, status)
           IN  /\ conds \in Conditions /\ Stamped(conds) /\ conds.ready = old.ready
               /\ \A c \in Flags : \/ conds.flag[c] = old.flag[c]
                                   \/ c \in cs /\ conds.flag[c].status = status
  <1> DEFINE conds == SetFlags(old, cs, status)
  <1>1. conds \in Conditions
    BY SetFlagsType
  <1>2. /\ conds.ready = old.ready
        /\ \A c \in Flags : conds.flag[c] = IF c \in cs THEN [status |-> status, gen |-> mem.gen]
                                            ELSE old.flag[c]
    BY SMTT(30) DEF SetFlags, Conditions
  <1> HIDE DEF conds
  <1>3. \A c \in Flags : \/ conds.flag[c] = old.flag[c]
                         \/ /\ c \in cs /\ conds.flag[c].status = status
                            /\ conds.flag[c].gen = mem.gen
    BY SMT, <1>2
  <1>4. Stamped(conds)
    BY <1>2, <1>3 DEF Stamped
  <1> QED BY <1>1, <1>2, <1>3, <1>4 DEF conds

\* The last write of a pass: an error phase with Ready=False, or the conditions in memory with
\* those cleared that this pass did not claim.
LEMMA TerminalWrites ==
    ASSUME TypeOK, RestInv, FinishReconcile
    PROVE  StatusWrite(TerminalPhase, TerminalConditions)
  <1> DEFINE phase == TerminalPhase
             conds == TerminalConditions
  <1>0. /\ api \in Objects /\ mem \in Objects /\ mem.conds \in Conditions
        /\ pc = "finish" /\ pc' = "idle" /\ mem' = NewObject
    BY DEF TypeOK, Objects, FinishReconcile, EndPass
  <1>1. api' = api \/ api' = MergePatched(phase, conds)
    BY DEF FinishReconcile
  <1>2. PatchStatus(phase, conds)
    <2> HIDE DEF phase, conds
    <2>1. /\ api'.gen = api.gen /\ api'.statusGen = api.statusGen /\ api'.deleting = api.deleting
          /\ \/ api'.phase = api.phase /\ api'.conds = api.conds
             \/ /\ api'.phase = IF phase = mem.phase THEN api.phase ELSE phase
                /\ api'.conds = IF conds = mem.conds THEN api.conds ELSE conds
      BY <1>0, <1>1 DEF MergePatched, Objects
    <2> QED BY <1>0, <2>1 DEF PatchStatus, RackStages
  <1>3. WrittenPhase(phase, conds) /\ Stamped(conds) /\ FlagsKept(conds)
    <2>0. Stamped(mem.conds) /\ FlagsKept(mem.conds)
      BY DEF Stamped, FlagsKept
    <2>1. CASE err # NoErr
      <3>1. phase = "Error" /\ conds = SetReady(mem.conds, "False", err)
        BY <2>1 DEF TerminalPhase, TerminalConditions
      <3>2. err \in ReadyReasons /\ err # "Reconciling"
        BY <2>1 DEF TypeOK, FailureReasons, ReadyReasons
      <3> HIDE DEF phase, conds
      <3>3. /\ Stamped(conds) /\ FlagsKept(conds)
            /\ conds.ready.status = "False" /\ conds.ready.reason # "Reconciling"
        BY <1>0, <3>1, <3>2, SetReadyWrites
      <3> QED BY <1>0, <3>1, <3>3 DEF WrittenPhase
    <2>2. CASE err = NoErr /\ mem.deleting
      <3>1. phase = mem.phase /\ conds = mem.conds
        BY <2>2 DEF TerminalPhase, TerminalConditions
      <3> HIDE DEF phase, conds
      <3> QED BY <1>0, <2>0, <3>1 DEF WrittenPhase
    <2>3. CASE err = NoErr /\ ~mem.deleting
      <3>1. /\ phase = mem.phase
            /\ conds = SetFlags(mem.conds, OpConditionsToClear, "False")
        BY <2>3 DEF TerminalPhase, TerminalConditions
      <3>2. Agreed
        BY <1>0, <2>3 DEF RestInv, Synced, Agreed
      <3> HIDE DEF phase, conds
      <3>3. /\ Stamped(conds) /\ conds.ready = mem.conds.ready
            /\ \A c \in Flags : conds.flag[c] = mem.conds.flag[c] \/ c \in OpConditionsToClear
        BY <1>0, <2>0, <3>1, SetFlagsWrites
      <3>4. FlagsKept(conds)
        BY <2>3, <3>3 DEF FlagsKept, OpConditionsToClear, Flags
      <3> QED BY <3>1, <3>2, <3>3, <3>4 DEF WrittenPhase
    <2> QED BY <2>1, <2>2, <2>3
  <1> QED BY <1>2, <1>3 DEF StatusWrite

\* A stage that leaves the object and memory alone.
LEMMA PlainStageStatus ==
    ASSUME TypeOK, UNCHANGED <<api, mem>>, pc' \in RackStages => pc \in RackStages
    PROVE  QuietStatus
  <1>1. api.gen \in Nat
    BY SMT, Bounds DEF TypeOK, Objects
  <1> QED BY SMT, <1>1 DEF QuietStatus, SameStatus

\* Every step is one of these.
LEMMA NextStatus ==
    ASSUME TypeOK, RestInv, ArmedInv, [Next]_vars
    PROVE  StatusStep
  <1>0. /\ api \in Objects /\ mem \in Objects /\ mem.conds \in Conditions /\ mem.phase \in Phases
        /\ api.gen \in Nat /\ Stamped(mem.conds) /\ FlagsKept(mem.conds)
    BY SMT, Bounds DEF TypeOK, Objects, Stamped, FlagsKept
  <1>1. CASE StartPass
    <2>1. /\ api' = api
          /\ (mem' = api /\ pc' \in {"terminate", "initConds"}) \/ UNCHANGED <<mem, pc>>
      BY <1>1 DEF StartPass
    <2> QED BY SMT, <1>0, <2>1 DEF StatusStep, QuietStatus, SameStatus, RackStages
  <1>2. CASE SetTerminating
    <2> DEFINE conds == SetReady(mem.conds, "False", "Terminating")
    <2>1. "Terminating" \in ReadyReasons
      BY DEF ReadyReasons
    <2>2. PICK o \in Outcomes : MergePatchStatus(o, mem.phase, conds)
      BY <1>2 DEF SetTerminating
    <2>3. /\ conds \in Conditions /\ Stamped(conds) /\ FlagsKept(conds)
          /\ conds.ready.status = "False"
      BY <1>0, <2>1, SetReadyWrites
    <2>4. Agreed /\ mem.deleting /\ pc' = "deletion"
      BY <1>2 DEF SetTerminating, RestInv, Synced, Agreed, Continue
    <2> HIDE DEF conds
    <2>5. PatchStatus(mem.phase, conds)
      BY <1>0, <2>2, <2>3, <2>4, MergePatchWrites DEF RackStages
    <2>6. StatusWrite(mem.phase, conds)
      BY <2>3, <2>4, <2>5 DEF StatusWrite, WrittenPhase
    <2> QED BY <1>0, <2>3, <2>6 DEF StatusStep
  <1>3. CASE HandleClusterDeletion
    <2>1. /\ api' = api \/ api' = [api EXCEPT !.exists = FALSE]
          /\ UNCHANGED mem /\ pc' = "finish"
      BY <1>3 DEF HandleClusterDeletion, StageFails, FailWith, Continue
    <2>2. SameStatus(api', api)
      BY <1>0, <2>1 DEF Objects, SameStatus
    <2> QED BY SMT, <1>0, <2>1, <2>2 DEF StatusStep, QuietStatus, SameStatus, RackStages
  <1>4. CASE InitializeConditionsIfNeeded
    <2> DEFINE ready == SetReady(mem.conds, "Unknown", "Initializing")
               seeded == SetFlags(ready, Flags, "False")
               conds == IF mem.conds = NoConditions THEN seeded ELSE mem.conds
    <2>1. "Initializing" \in ReadyReasons
      BY DEF ReadyReasons
    <2>2. ready \in Conditions /\ Stamped(ready) /\ ready.ready.status = "Unknown"
      BY <1>0, <2>1, SetReadyWrites
    <2>3. pc = "initConds" /\ PatchStage(mem.phase, conds, "checkPaused", "ReconcileFailed")
      BY <1>4 DEF InitializeConditionsIfNeeded
    <2> HIDE DEF ready
    <2>4. seeded \in Conditions /\ Stamped(seeded) /\ seeded.ready.status = "Unknown"
      BY <1>0, <2>2, SetFlagsWrites
    <2>5. NoConditions.ready.status # "True"
      BY DEF NoConditions
    <2> HIDE DEF seeded
    <2>6. /\ conds \in Conditions /\ Stamped(conds) /\ FlagsKept(conds)
          /\ \/ conds = mem.conds
             \/ conds.ready.status # "True" /\ mem.conds.ready.status # "True"
      BY <1>0, <2>4, <2>5 DEF FlagsKept
    <2>7. Agreed
      BY <2>3 DEF RestInv, Synced, Agreed
    <2> HIDE DEF conds
    <2>8. PatchStatus(mem.phase, conds)
      BY <1>0, <2>3, <2>6, <2>7, PatchStageWrites DEF RackStages
    <2>9. StatusWrite(mem.phase, conds)
      BY <2>6, <2>7, <2>8 DEF StatusWrite, WrittenPhase
    <2> QED BY <1>0, <2>6, <2>9 DEF StatusStep
  <1>5. CASE CheckPaused
    <2>1. PICK status \in {"True", "False"}, next \in {"finish", "markInProgress"} :
            PatchStage(mem.phase, SetFlags(mem.conds, {"Paused"}, status), next, "ReconcileFailed")
      BY <1>5 DEF CheckPaused
    <2> DEFINE conds == SetFlags(mem.conds, {"Paused"}, status)
    <2>2. /\ conds \in Conditions /\ Stamped(conds) /\ conds.ready = mem.conds.ready
          /\ \A c \in Flags : conds.flag[c] = mem.conds.flag[c] \/ c = "Paused"
      BY SMT, <1>0, SetFlagsWrites
    <2>3. Agreed
      BY <1>5 DEF CheckPaused, RestInv, Synced, Agreed
    <2> HIDE DEF conds
    <2>4. FlagsKept(conds)
      BY <2>2, ConstantsAssumption DEF FlagsKept, Flags
    <2>5. PatchStatus(mem.phase, conds)
      BY <1>0, <2>1, <2>2, <2>3, PatchStageWrites DEF RackStages, conds
    <2>6. StatusWrite(mem.phase, conds)
      BY <2>2, <2>3, <2>4, <2>5 DEF StatusWrite, WrittenPhase
    <2> QED BY <1>0, <2>2, <2>6 DEF StatusStep
  <1>6. CASE MarkInProgress \/ MarkRacksInProgress
    <2> DEFINE conds == SetReady(mem.conds, "False", "Reconciling")
    <2>1. "Reconciling" \in ReadyReasons /\ "InProgress" \in Phases
      BY DEF ReadyReasons, Phases
    <2>2. /\ conds \in Conditions /\ Stamped(conds) /\ FlagsKept(conds)
          /\ conds.ready.status = "False"
      BY <1>0, <2>1, SetReadyWrites
    <2>3. Agreed
      BY <1>6 DEF MarkInProgress, MarkRacksInProgress, RestInv, Synced, Agreed
    <2>4. \/ PatchStage(mem.phase, mem.conds, "addFinalizer", "ReconcileFailed")
          \/ PatchStage("InProgress", conds, "addFinalizer", "ReconcileFailed")
          \/ PatchStage("InProgress", conds, "racks", "RackReconcileFailed")
      BY <1>6 DEF MarkInProgress, MarkRacksInProgress
    <2> HIDE DEF conds
    <2>5. PatchStatus(mem.phase, mem.conds) \/ PatchStatus("InProgress", conds)
      BY <1>0, <2>1, <2>2, <2>3, <2>4, PatchStageWrites DEF RackStages
    <2>6. StatusWrite(mem.phase, mem.conds) \/ StatusWrite("InProgress", conds)
      BY <1>0, <2>2, <2>3, <2>5 DEF StatusWrite, WrittenPhase
    <2> QED BY <1>0, <2>1, <2>2, <2>6 DEF StatusStep
  <1>7. CASE AddFinalizer
    <2>1. /\ api' = api \/ api' = [api EXCEPT !.finalizer = TRUE]
          /\ UNCHANGED mem \/ mem' = api'
          /\ pc' \in {"checkFailed", "finish"}
      BY <1>7 DEF AddFinalizer, StageSucceeds, Continue, FailWith
    <2>2. SameStatus(api', api)
      BY <1>0, <2>1 DEF Objects, SameStatus
    <2> QED BY SMT, <1>0, <2>1, <2>2 DEF StatusStep, QuietStatus, SameStatus, RackStages
  <1>8. CASE CheckPreviouslyFailedCluster
    <2>1. UNCHANGED <<api, mem>> /\ pc' \in {"headlessSvc", "finish"}
      BY <1>8 DEF CheckPreviouslyFailedCluster, StageFails, StageSucceeds, RequeueAfter,
                  Continue, FailWith, RecoverFailedCreate
    <2> QED BY <2>1, PlainStageStatus DEF RackStages, StatusStep
  <1>9. CASE CreateHeadlessSvc \/ HandleFailedPods
    <2>1. UNCHANGED <<api, mem>> /\ pc' \in {"failedPods", "markRacks", "finish"}
      BY <1>9 DEF CreateHeadlessSvc, HandleFailedPods, StageFails, StageWaits, StageSucceeds,
                  RequeueAfter, Continue, FailWith
    <2> QED BY <2>1, PlainStageStatus DEF RackStages, StatusStep
  <1>10. CASE CreateEmptyRack
    BY <1>10, PlainStageStatus DEF CreateEmptyRack, StatusStep
  <1>11. ASSUME NEW op \in Ops, ClaimOperation(op)
         PROVE  StatusStep
    <2> DEFINE conds == SetFlags(mem.conds, {op}, "True")
    <2>1. /\ conds \in Conditions /\ Stamped(conds) /\ conds.ready = mem.conds.ready
          /\ \A c \in Flags : conds.flag[c] = mem.conds.flag[c] \/ conds.flag[c].status = "True"
      BY SMT, <1>0, SetFlagsWrites
    <2>2. pc \in {"racks", "failedPods"} /\ PatchStage(mem.phase, conds, pc, "RackReconcileFailed")
      BY <1>11 DEF ClaimOperation, InRackLoop
    <2>3. Agreed /\ armed
      BY <2>2 DEF RestInv, Synced, Agreed, ArmedInv, WorkStages
    <2> HIDE DEF conds
    <2>4. FlagsKept(conds)
      BY <2>1, <2>3 DEF FlagsKept, Flags
    <2>5. PatchStatus(mem.phase, conds)
      BY <1>0, <2>1, <2>2, <2>3, PatchStageWrites
    <2>6. StatusWrite(mem.phase, conds)
      BY <2>1, <2>3, <2>4, <2>5 DEF StatusWrite, WrittenPhase
    <2> QED BY <1>0, <2>1, <2>6 DEF StatusStep
  <1>12. ASSUME NEW op \in Ops, RunOperation(op)
         PROVE  StatusStep
    <2>1. UNCHANGED <<api, mem>> /\ pc' \in {pc, "finish"}
      BY <1>12 DEF RunOperation, RequeueAfter, Continue
    <2> QED BY <2>1, PlainStageStatus DEF RackStages, StatusStep
  <1>13. CASE FailRackLoop \/ WaitForAllRacksReady \/ PostRackStages \/ EnsureSCRoster
    <2>1. /\ UNCHANGED <<api, mem>> /\ pc \in RackStages
      BY <1>13 DEF FailRackLoop, WaitForAllRacksReady, PostRackStages, EnsureSCRoster,
                   StageFails, StageWaits, StageSucceeds, RackStages
    <2> QED BY <2>1, PlainStageStatus DEF StatusStep
  <1>14. CASE ReconcileAccessControl
    <2>1. CASE UNCHANGED mem
      <3>1. UNCHANGED <<api, mem>> /\ pc \in RackStages
        BY <1>14, <2>1 DEF ReconcileAccessControl, StageFails, StageSucceeds, RackStages
      <3> QED BY <3>1, PlainStageStatus DEF StatusStep
    <2>2. CASE ~UNCHANGED mem
      <3>1. /\ mem' = [mem EXCEPT !.phase = api.phase, !.statusGen = api.statusGen,
                                  !.conds = api.conds]
            /\ UNCHANGED api /\ pc = "acl"
        BY <1>14, <2>2 DEF ReconcileAccessControl, StageFails, StageSucceeds
      <3>2. /\ mem'.phase = api.phase /\ mem'.conds = api.conds /\ mem'.statusGen = api.statusGen
            /\ mem'.gen = mem.gen /\ mem'.deleting = mem.deleting
        BY <1>0, <3>1 DEF Objects
      <3>3. Agreed
        BY <3>1 DEF RestInv, Synced, Agreed
      <3> QED BY SMT, <1>0, <3>1, <3>2, <3>3 DEF StatusStep, QuietStatus, Agreed, RackStages
    <2> QED BY <2>1, <2>2
  <1>15. CASE RecoverIgnorablePods
    <2>1. UNCHANGED <<api, mem>> /\ pc' = "finish"
      BY <1>15 DEF RecoverIgnorablePods, StageFails, StageSucceeds, RequeueAfter, Continue, FailWith
    <2> QED BY <2>1, PlainStageStatus DEF RackStages, StatusStep
  <1>16. CASE FinishReconcile
    BY <1>16, TerminalType, TerminalWrites DEF StatusStep
  <1>17. CASE Crash
    <2>1. api' = api /\ mem' = NewObject /\ pc' = "idle"
      BY <1>17 DEF Crash, EndPass
    <2> QED BY SMT, <1>0, <2>1 DEF StatusStep, QuietStatus, RackStages
  <1>18. CASE UserEdit \/ UserDelete
    <2>1. /\ UNCHANGED <<mem, pc>>
          /\ \/ \E paused \in BOOLEAN : api' = [api EXCEPT !.gen = @ + 1, !.paused = paused]
             \/ api' = [api EXCEPT !.deleting = TRUE]
             \/ api' = [api EXCEPT !.exists = FALSE]
      BY <1>18 DEF UserEdit, UserDelete, pass
    <2>2. /\ api'.phase = api.phase /\ api'.conds = api.conds /\ api'.statusGen = api.statusGen
          /\ api'.gen = api.gen \/ api'.gen = api.gen + 1
          /\ api.deleting => api'.deleting
      BY <1>0, <2>1 DEF Objects
    <2>3. api'.gen >= api.gen
      BY SMT, <1>0, <2>2
    <2> QED BY <2>1, <2>2, <2>3 DEF StatusStep, QuietStatus, SameStatus
  <1>19. CASE PodsCreate \/ PodsSettle \/ PodsFail \/ GarbageCollect
    <2>1. UNCHANGED <<api, mem, pc>>
      BY <1>19 DEF PodsCreate, PodsSettle, PodsFail, GarbageCollect, pass
    <2> QED BY <2>1, PlainStageStatus DEF StatusStep
  <1>20. CASE UNCHANGED vars
    BY <1>20, PlainStageStatus DEF vars, StatusStep
  <1>21. CASE UpdateStatus
    BY <1>21 DEF StatusStep
  <1> QED BY SMTT(30), <1>1, <1>2, <1>3, <1>4, <1>5, <1>6, <1>7, <1>8, <1>9, <1>10,
             <1>11, <1>12, <1>13,
             <1>14, <1>15, <1>16, <1>17, <1>18, <1>19, <1>20, <1>21 DEF Next, PassStep

\* ArmedInv is inductive: the racks are reached only through CreateHeadlessSvc, which arms.
LEMMA NextArmed ==
    ASSUME TypeOK, ArmedInv, [Next]_vars
    PROVE  ArmedInv'
  <1>0. "finish" \notin WorkStages /\ "idle" \notin WorkStages
    BY DEF WorkStages, DoneStages
  <1>1. ASSUME NEW phase, NEW conds, NEW next, NEW reason, PatchStage(phase, conds, next, reason),
               pc # "finish", next \in WorkStages => pc \in WorkStages
        PROVE  ArmedInv'
    BY <1>0, <1>1 DEF PatchStage, Continue, FailWith, ArmedInv
  <1>2. CASE CheckPaused \/ InitializeConditionsIfNeeded \/ MarkInProgress \/ MarkRacksInProgress
    BY <1>1, <1>2 DEF InitializeConditionsIfNeeded, CheckPaused, MarkInProgress,
                      MarkRacksInProgress, WorkStages, DoneStages
  <1>3. ASSUME NEW op \in Ops, ClaimOperation(op) \/ RunOperation(op)
        PROVE  ArmedInv'
    <2>1. pc # "finish" /\ pc \in WorkStages
      BY <1>3 DEF ClaimOperation, RunOperation, InRackLoop, WorkStages
    <2>2. CASE ClaimOperation(op)
      BY <1>1, <2>1, <2>2 DEF ClaimOperation
    <2>3. CASE RunOperation(op)
      BY <1>0, <2>1, <2>3 DEF RunOperation, RequeueAfter, Continue, ArmedInv
    <2> QED BY <1>3, <2>2, <2>3
  <1>4. CASE StartPass \/ SetTerminating \/ HandleClusterDeletion \/ AddFinalizer
    BY <1>4 DEF StartPass, SetTerminating, HandleClusterDeletion, AddFinalizer, StageFails,
                StageSucceeds, Continue, FailWith, ArmedInv, WorkStages, DoneStages
  <1>5. CASE CheckPreviouslyFailedCluster \/ CreateHeadlessSvc \/ HandleFailedPods
    BY <1>5 DEF CheckPreviouslyFailedCluster, CreateHeadlessSvc, HandleFailedPods, StageFails,
                StageWaits, StageSucceeds, Continue, FailWith, RequeueAfter, RecoverFailedCreate,
                ArmedInv, WorkStages, DoneStages
  <1>6. CASE \/ CreateEmptyRack \/ FailRackLoop \/ WaitForAllRacksReady \/ PostRackStages
             \/ ReconcileAccessControl \/ EnsureSCRoster
    BY <1>6 DEF CreateEmptyRack, FailRackLoop, WaitForAllRacksReady, PostRackStages,
                ReconcileAccessControl, EnsureSCRoster, StageFails, StageWaits, StageSucceeds,
                Continue, FailWith, RequeueAfter, ArmedInv, WorkStages, DoneStages
  <1>7. CASE UpdateStatus \/ RecoverIgnorablePods
    BY <1>7 DEF UpdateStatus, RecoverIgnorablePods, StageFails, StageSucceeds, Continue,
                FailWith, RequeueAfter, ArmedInv, WorkStages, DoneStages
  <1>8. CASE FinishReconcile \/ Crash
    BY <1>0, <1>8 DEF FinishReconcile, Crash, EndPass, ArmedInv
  <1>9. CASE \/ UserEdit \/ UserDelete \/ PodsCreate \/ PodsSettle \/ PodsFail \/ GarbageCollect
             \/ UNCHANGED vars
    BY <1>9 DEF UserEdit, UserDelete, PodsCreate, PodsSettle, PodsFail,
                GarbageCollect, vars,
                pass, ArmedInv
  <1> QED BY <1>2, <1>3, <1>4, <1>5, <1>6, <1>7, <1>8, <1>9 DEF Next, PassStep

LEMMA ArmedInvariance == Spec => []ArmedInv
  <1>1. Init => ArmedInv
    BY DEF Init, ArmedInv, WorkStages, DoneStages
  <1>2. TypeOK /\ ArmedInv /\ [Next]_vars => ArmedInv'
    BY NextArmed
  <1> QED BY <1>1, <1>2, TypeCorrect, PTL DEF Spec


-----------------------------------------------------------------------------
(* The inductive invariants *)

\* What a Ready condition says, in the object or in memory, is so.
Backed(ready) ==
    ready.status = "True" => /\ api.statusGen = ready.gen
                             /\ workGen = ready.gen
                             /\ \A op \in Ops : work[op] = 0

\* The stages in which memory has the status generation of the object.
ReadStages == {"initConds", "checkPaused", "markInProgress", "addFinalizer", "checkFailed",
               "headlessSvc"} \cup WorkStages

\* From the headless service on the racks are compared with the spec in memory, and after the
\* rack loop nothing is left to do for it.
BackedInv ==
    /\ Backed(api.conds.ready) /\ Backed(mem.conds.ready)
    /\ pc \in WorkStages => workGen = mem.gen
    /\ pc \in DoneStages => \A op \in Ops : work[op] = 0
    /\ pc \in ReadStages => mem.statusGen = api.statusGen

\* The stages that may create resources, and those on the way there.
Guarded == {"checkFailed", "headlessSvc", "failedPods", "markRacks", "racks"}

Held == sts \/ pvc \/ mem.finalizer \/ pc \in Guarded

GuardInv == api.exists /\ Held => api.finalizer

-----------------------------------------------------------------------------
(* Steps that keep them *)

OldReady(ready) == ready \in {api.conds.ready, mem.conds.ready} \/ ready.status # "True"

\* A step that brings no Ready=True and leaves the racks alone.
QuietStep ==
    /\ UNCHANGED <<work, workGen>> /\ api'.statusGen = api.statusGen
    /\ OldReady(api'.conds.ready) /\ OldReady(mem'.conds.ready)
    /\ pc' \in WorkStages => pc \in WorkStages /\ mem'.gen = mem.gen
    /\ pc' \in DoneStages => pc \in DoneStages
    /\ pc' \in ReadStages => \/ pc \in ReadStages /\ mem'.statusGen = mem.statusGen
                             \/ mem'.statusGen = api'.statusGen

\* A step that takes no finalizer from an object that stays, and gives no reason for one.
GuardedStep ==
    /\ api'.exists => api.exists /\ (api.finalizer => api'.finalizer)
    /\ Held' => Held \/ api'.finalizer \/ ~api'.exists

\* Such a step keeps what Ready says true.
LEMMA QuietBacked ==
    ASSUME BackedInv, QuietStep
    PROVE  BackedInv'
  <1>1. Backed(api.conds.ready)' /\ Backed(mem.conds.ready)'
    BY DEF BackedInv, QuietStep, OldReady, Backed
  <1> QED BY <1>1 DEF BackedInv, QuietStep

\* Such a step keeps the object guarded.
LEMMA StepGuarded ==
    ASSUME GuardInv, GuardedStep
    PROVE  GuardInv'
  BY DEF GuardInv, GuardedStep

\* What a merge patch of phase and conditions changes.
LEMMA MergePatchEffect ==
    ASSUME TypeOK, NEW o \in Outcomes, NEW phase \in Phases, NEW conds \in Conditions,
           MergePatchStatus(o, phase, conds)
    PROVE  /\ api'.statusGen = api.statusGen /\ api'.exists = api.exists
           /\ api'.finalizer = api.finalizer /\ api'.conds \in {api.conds, conds}
           /\ mem'.statusGen = mem.statusGen /\ mem'.gen = mem.gen
           /\ mem'.finalizer = mem.finalizer /\ mem'.conds \in {mem.conds, api.conds, conds}
  <1>0. api \in Objects /\ mem \in Objects
    BY DEF TypeOK
  <1> DEFINE new == MergePatched(phase, conds)
  <1>1. /\ new.statusGen = api.statusGen /\ new.exists = api.exists
        /\ new.finalizer = api.finalizer /\ new.conds \in {api.conds, conds}
    BY <1>0 DEF MergePatched, Objects
  <1> HIDE DEF new
  <1>2. api' = api \/ api' = new
    BY DEF MergePatchStatus, new
  <1>3. mem' = mem \/ mem' = [mem EXCEPT !.phase = api'.phase, !.conds = api'.conds]
    BY DEF MergePatchStatus
  <1>4. /\ mem'.statusGen = mem.statusGen /\ mem'.gen = mem.gen
        /\ mem'.finalizer = mem.finalizer /\ mem'.conds \in {mem.conds, api'.conds}
    BY <1>0, <1>3 DEF Objects
  <1> QED BY <1>1, <1>2, <1>4

\* A stage whose only write is such a patch, which does not set Ready.
LEMMA PatchStageKeeps ==
    ASSUME TypeOK, NEW phase \in Phases, NEW conds \in Conditions, NEW next, NEW reason,
           PatchStage(phase, conds, next, reason), OldReady(conds.ready),
           next \in WorkStages => pc \in WorkStages,
           next \in DoneStages => pc \in DoneStages,
           next \in ReadStages => pc \in ReadStages,
           next \in Guarded => pc \in Guarded
    PROVE  QuietStep /\ GuardedStep
  <1>1. PICK o \in Outcomes :
          /\ MergePatchStatus(o, phase, conds)
          /\ Continue(next) \/ FailWith(reason)
    BY DEF PatchStage
  <1>2. UNCHANGED <<work, workGen, sts, pvc>>
    BY DEF PatchStage, cluster
  <1>3. pc' = next \/ pc' = "finish"
    BY <1>1 DEF Continue, FailWith
  <1>4. OldReady(api'.conds.ready) /\ OldReady(mem'.conds.ready)
    BY <1>1, MergePatchEffect DEF OldReady
  <1>5. "finish" \notin WorkStages \cup DoneStages \cup ReadStages \cup Guarded
    BY DEF WorkStages, DoneStages, ReadStages, Guarded
  <1>6. QuietStep
    BY <1>1, <1>2, <1>3, <1>4, <1>5, MergePatchEffect DEF QuietStep
  <1>7. GuardedStep
    BY <1>1, <1>2, <1>3, <1>5, MergePatchEffect DEF GuardedStep, Held
  <1> QED BY <1>6, <1>7

\* A stage that leaves the object, memory and the racks alone.
LEMMA PlainStageKeeps ==
    ASSUME UNCHANGED <<api, mem, work, workGen>>,
           sts' => Held, pvc' => Held,
           pc' \in WorkStages => pc \in WorkStages,
           pc' \in DoneStages => pc \in DoneStages,
           pc' \in ReadStages => pc \in ReadStages,
           pc' \in Guarded => Held
    PROVE  QuietStep /\ GuardedStep
  <1>1. QuietStep
    BY DEF QuietStep, OldReady
  <1>2. GuardedStep
    BY DEF GuardedStep, Held
  <1> QED BY <1>1, <1>2

\* The end of a pass, whose last write does not set Ready.
LEMMA EndPassKeeps ==
    ASSUME EndPass, api'.statusGen = api.statusGen, OldReady(api'.conds.ready),
           api'.exists = api.exists, api'.finalizer = api.finalizer
    PROVE  QuietStep /\ GuardedStep
  <1>1. NewObject.conds.ready.status # "True" /\ ~NewObject.finalizer
    BY DEF NewObject, NoConditions
  <1>2. /\ mem' = NewObject /\ pc' = "idle"
        /\ UNCHANGED <<work, workGen, sts, pvc>>
    BY DEF EndPass, cluster
  <1>3. "idle" \notin WorkStages \cup DoneStages \cup ReadStages \cup Guarded
    BY DEF WorkStages, DoneStages, ReadStages, Guarded
  <1>4. QuietStep
    BY <1>1, <1>2, <1>3 DEF QuietStep, OldReady
  <1>5. GuardedStep
    BY <1>1, <1>2, <1>3 DEF GuardedStep, Held
  <1> QED BY <1>4, <1>5

\* The terminal write of a pass does not set Ready.
LEMMA TerminalKeeps ==
    ASSUME TypeOK
    PROVE  LET new == MergePatched(TerminalPhase, TerminalConditions)
           IN  /\ new.statusGen = api.statusGen /\ new.exists = api.exists
               /\ new.finalizer = api.finalizer /\ OldReady(new.conds.ready)
  <1> DEFINE new == MergePatched(TerminalPhase, TerminalConditions)
  <1>0. api \in Objects /\ mem \in Objects /\ mem.conds \in Conditions
    BY DEF TypeOK, Objects
  <1>1. OldReady(TerminalConditions.ready)
    <2>1. SetReady(mem.conds, "False", err).ready.status = "False"
      BY <1>0 DEF SetReady, Conditions
    <2>2. SetFlags(mem.conds, OpConditionsToClear, "False").ready = mem.conds.ready
      BY SMT, <1>0, SetFlagsKeeps
    <2> QED BY <2>1, <2>2 DEF TerminalConditions, OldReady
  <1>2. /\ new.statusGen = api.statusGen /\ new.exists = api.exists
        /\ new.finalizer = api.finalizer /\ new.conds \in {api.conds, TerminalConditions}
    BY <1>0 DEF MergePatched, Objects
  <1> HIDE DEF new
  <1> QED BY <1>1, <1>2 DEF OldReady, new

\* What updateStatus writes is Ready at the generation in memory, which the racks have.
LEMMA UpdatedBacked ==
    ASSUME TypeOK, RestInv, pc = "updateStatus", BackedInv
    PROVE  LET new == JSONPatched(UpdatedObject)
           IN  /\ new.statusGen = mem.gen /\ UpdatedObject.statusGen = mem.gen
               /\ new.conds.ready.gen = mem.gen /\ UpdatedObject.conds.ready.gen = mem.gen
               /\ new.exists = api.exists /\ new.finalizer = api.finalizer
               /\ UpdatedObject.finalizer = api.finalizer
  <1> DEFINE u == UpdatedObject
             new == JSONPatched(u)
             conds == SetReady(mem.conds, "True", "ReconcileComplete")
  <1>0. /\ api \in Objects /\ mem \in Objects /\ mem.conds \in Conditions
        /\ mem.conds = api.conds /\ mem.phase = api.phase /\ mem.statusGen = api.statusGen
    BY DEF TypeOK, Objects, RestInv, Synced, BackedInv, ReadStages, WorkStages, DoneStages
  <1>1. conds \in Conditions /\ conds.ready.gen = mem.gen
    BY <1>0, SetReadyType DEF ReadyReasons, SetReady, Conditions
  <1>2. SetFlags(conds, Ops, "False").ready.gen = mem.gen
    BY SMT, <1>1, SetFlagsKeeps
  <1>3. /\ u.statusGen = mem.gen /\ u.conds = SetFlags(conds, Ops, "False")
        /\ u.finalizer = api.finalizer
    BY <1>0 DEF UpdatedObject, Objects
  <1>4. new.conds = u.conds
    BY <1>0, UpdatedRest
  <1> HIDE DEF u
  <1>5. /\ new.statusGen = Patch(mem.statusGen, u.statusGen, api.statusGen)
        /\ new.exists = api.exists /\ new.finalizer = api.finalizer
    BY <1>0 DEF JSONPatched, Objects
  <1>6. new.statusGen = mem.gen
    BY <1>0, <1>3, <1>5 DEF Patch
  <1> HIDE DEF new, conds
  <1> QED BY <1>2, <1>3, <1>4, <1>5, <1>6 DEF u, new, conds

-----------------------------------------------------------------------------
(* The steps of the specification *)

\* The steps that leave both invariants alone: all but those that compare the racks with the
\* spec, run a batch, end the rack loop, and update the status.
LEMMA QuietNext ==
    ASSUME TypeOK, [Next]_vars,
           ~CreateHeadlessSvc, ~WaitForAllRacksReady, ~UpdateStatus,
           \A op \in Ops : ~RunOperation(op)
    PROVE  QuietStep /\ GuardedStep
  <1>0. /\ api \in Objects /\ mem \in Objects /\ mem.conds \in Conditions /\ mem.phase \in Phases
        /\ OldReady(mem.conds.ready) /\ OldReady(api.conds.ready)
    BY DEF TypeOK, Objects, OldReady
  <1>1. CASE StartPass
    <2>1. /\ UNCHANGED <<api, work, workGen, sts, pvc>>
          /\ \/ mem' = api /\ pc' \in {"terminate", "initConds"}
             \/ UNCHANGED <<mem, pc>>
      BY <1>1 DEF StartPass, cluster
    <2> QED BY <2>1 DEF QuietStep, GuardedStep, OldReady, Held, WorkStages, DoneStages,
                        ReadStages, Guarded
  <1>2. CASE SetTerminating
    <2> DEFINE conds == SetReady(mem.conds, "False", "Terminating")
    <2>1. conds \in Conditions /\ conds.ready.status = "False"
      BY <1>0, SetReadyType DEF ReadyReasons, SetReady, Conditions
    <2>2. PICK o \in Outcomes : MergePatchStatus(o, mem.phase, conds)
      BY <1>2 DEF SetTerminating
    <2>3. pc' = "deletion" /\ UNCHANGED <<work, workGen, sts, pvc>>
      BY <1>2 DEF SetTerminating, Continue, cluster
    <2> HIDE DEF conds
    <2>4. OldReady(api'.conds.ready) /\ OldReady(mem'.conds.ready)
      BY <1>0, <2>1, <2>2, MergePatchEffect DEF OldReady
    <2>5. "deletion" \notin WorkStages \cup DoneStages \cup ReadStages \cup Guarded
      BY DEF WorkStages, DoneStages, ReadStages, Guarded
    <2> QED BY <1>0, <2>1, <2>2, <2>3, <2>4, <2>5, MergePatchEffect
            DEF QuietStep, GuardedStep, Held
  <1>3. CASE HandleClusterDeletion
    <2>1. /\ api' = api \/ api' = [api EXCEPT !.exists = FALSE]
          /\ UNCHANGED <<mem, work, workGen, sts>> /\ (pvc' => pvc) /\ pc' = "finish"
      BY SMT, <1>3 DEF HandleClusterDeletion, StageFails, FailWith, Continue, cluster
    <2>2. /\ api'.statusGen = api.statusGen /\ api'.conds = api.conds
          /\ api'.finalizer = api.finalizer /\ (api'.exists => api.exists)
      BY <1>0, <2>1 DEF Objects
    <2> QED BY <2>1, <2>2 DEF QuietStep, GuardedStep, OldReady, Held, WorkStages, DoneStages,
                              ReadStages, Guarded
  <1>4. CASE InitializeConditionsIfNeeded
    <2> DEFINE seeded == SetFlags(SetReady(mem.conds, "Unknown", "Initializing"), Flags, "False")
               conds == IF mem.conds = NoConditions THEN seeded ELSE mem.conds
    <2>1. seeded \in Conditions /\ seeded.ready.status = "Unknown"
      <3>1. SetReady(mem.conds, "Unknown", "Initializing") \in Conditions
        BY <1>0, SetReadyType DEF ReadyReasons
      <3>2. SetReady(mem.conds, "Unknown", "Initializing").ready.status = "Unknown"
        BY <1>0 DEF SetReady, Conditions
      <3>3. seeded \in Conditions
        BY <1>0, <3>1, SetFlagsType
      <3>4. seeded.ready = SetReady(mem.conds, "Unknown", "Initializing").ready
        BY SMT, <3>1, SetFlagsKeeps
      <3> QED BY <3>2, <3>3, <3>4
    <2>2. pc = "initConds" /\ PatchStage(mem.phase, conds, "checkPaused", "ReconcileFailed")
      BY <1>4 DEF InitializeConditionsIfNeeded
    <2> HIDE DEF seeded
    <2>3. conds \in Conditions /\ OldReady(conds.ready)
      BY <1>0, <2>1 DEF OldReady
    <2> HIDE DEF conds
    <2> QED BY <1>0, <2>2, <2>3, PatchStageKeeps DEF WorkStages, DoneStages, ReadStages, Guarded
  <1>5. CASE CheckPaused
    <2>1. PICK status \in {"True", "False"}, next \in {"finish", "markInProgress"} :
            PatchStage(mem.phase, SetFlags(mem.conds, {"Paused"}, status), next, "ReconcileFailed")
      BY <1>5 DEF CheckPaused
    <2> DEFINE conds == SetFlags(mem.conds, {"Paused"}, status)
    <2>2. conds \in Conditions
      BY <1>0, SetFlagsType
    <2>3. OldReady(conds.ready)
      BY SMT, <1>0, SetFlagsKeeps
    <2>4. pc = "checkPaused"
      BY <1>5 DEF CheckPaused
    <2> HIDE DEF conds
    <2> QED BY <1>0, <2>1, <2>2, <2>3, <2>4, PatchStageKeeps
            DEF conds, WorkStages, DoneStages, ReadStages, Guarded
  <1>6. CASE MarkInProgress
    <2> DEFINE conds == SetReady(mem.conds, "False", "Reconciling")
    <2>1. conds \in Conditions /\ OldReady(conds.ready)
      BY <1>0, SetReadyType DEF ReadyReasons, SetReady, Conditions, OldReady
    <2>2. PICK phase \in {mem.phase, "InProgress"}, cs \in {mem.conds, conds} :
            PatchStage(phase, cs, "addFinalizer", "ReconcileFailed")
      BY <1>6 DEF MarkInProgress
    <2>3. pc = "markInProgress"
      BY <1>6 DEF MarkInProgress
    <2> HIDE DEF conds
    <2>4. phase \in Phases /\ cs \in Conditions /\ OldReady(cs.ready)
      BY <1>0, <2>1 DEF Phases
    <2> QED BY <2>2, <2>3, <2>4, PatchStageKeeps DEF WorkStages, DoneStages, ReadStages, Guarded
  <1>7. CASE AddFinalizer
    <2>1. /\ pc = "addFinalizer" /\ UNCHANGED <<work, workGen, sts, pvc>>
          /\ api' = api \/ api' = [api EXCEPT !.finalizer = TRUE]
          /\ \/ mem' = mem /\ pc' = "finish"
             \/ mem' = mem /\ mem.finalizer /\ pc' = "checkFailed"
             \/ mem' = api' /\ api' = [api EXCEPT !.finalizer = TRUE] /\ pc' = "checkFailed"
      BY <1>7 DEF AddFinalizer, StageSucceeds, Continue, FailWith, Answered, Applied, cluster
    <2>2. /\ api'.statusGen = api.statusGen /\ api'.conds = api.conds /\ api'.exists = api.exists
          /\ api.finalizer => api'.finalizer
          /\ api' = [api EXCEPT !.finalizer = TRUE] => api'.finalizer
      BY <1>0, <2>1 DEF Objects
    <2>3. QuietStep
      BY <2>1, <2>2 DEF QuietStep, OldReady, WorkStages, DoneStages, ReadStages
    <2>4. GuardedStep
      BY <2>1, <2>2 DEF GuardedStep, Held, Guarded
    <2> QED BY <2>3, <2>4
  <1>8. CASE CheckPreviouslyFailedCluster
    <2>1. /\ UNCHANGED <<api, mem, work, workGen>>
          /\ (sts' => sts) /\ (pvc' => pvc)
          /\ pc = "checkFailed" /\ pc' \in {"headlessSvc", "finish"}
      BY SMT, <1>8 DEF CheckPreviouslyFailedCluster, StageFails, StageSucceeds, RequeueAfter,
                  Continue, FailWith, RecoverFailedCreate, cluster
    <2> QED BY <2>1, PlainStageKeeps DEF WorkStages, DoneStages, ReadStages, Guarded, Held
  <1>9. CASE HandleFailedPods
    <2>1. /\ UNCHANGED <<api, mem, work, workGen>>
          /\ (sts' => sts) /\ (pvc' => pvc)
          /\ pc = "failedPods" /\ pc' \in {"markRacks", "finish"}
      BY SMT, <1>9 DEF HandleFailedPods, StageFails, StageWaits, StageSucceeds, RequeueAfter, Continue,
                  FailWith, cluster
    <2> QED BY <2>1, PlainStageKeeps DEF WorkStages, DoneStages, ReadStages, Guarded, Held
  <1>10. CASE MarkRacksInProgress
    <2> DEFINE conds == SetReady(mem.conds, "False", "Reconciling")
    <2>1. conds \in Conditions /\ OldReady(conds.ready)
      BY <1>0, SetReadyType DEF ReadyReasons, SetReady, Conditions, OldReady
    <2>2. pc = "markRacks" /\ PatchStage("InProgress", conds, "racks", "RackReconcileFailed")
      BY <1>10 DEF MarkRacksInProgress
    <2> HIDE DEF conds
    <2>3. "InProgress" \in Phases
      BY DEF Phases
    <2> QED BY <2>1, <2>2, <2>3, PatchStageKeeps DEF WorkStages, DoneStages, ReadStages, Guarded
  <1>11. CASE CreateEmptyRack
    BY <1>11, PlainStageKeeps DEF CreateEmptyRack, Held, Guarded
  <1>12. ASSUME NEW op \in Ops, ClaimOperation(op)
         PROVE  QuietStep /\ GuardedStep
    <2> DEFINE conds == SetFlags(mem.conds, {op}, "True")
    <2>1. conds \in Conditions
      BY <1>0, SetFlagsType
    <2>2. OldReady(conds.ready)
      BY SMT, <1>0, SetFlagsKeeps
    <2>3. PatchStage(mem.phase, conds, pc, "RackReconcileFailed")
      BY <1>12 DEF ClaimOperation
    <2> HIDE DEF conds
    <2> QED BY <1>0, <2>1, <2>2, <2>3, PatchStageKeeps
  <1>13. CASE FailRackLoop
    <2>1. /\ UNCHANGED <<api, mem, work, workGen>>
          /\ (sts' => sts) /\ (pvc' => pvc)
          /\ pc = "racks" /\ pc' \in {"finish"}
      BY SMT, <1>13 DEF FailRackLoop, StageFails, StageWaits, RequeueAfter, FailWith, cluster
    <2> QED BY <2>1, PlainStageKeeps DEF WorkStages, DoneStages, ReadStages, Guarded, Held
  <1>14. CASE PostRackStages
    <2>1. /\ UNCHANGED <<api, mem, work, workGen>>
          /\ (sts' => sts) /\ (pvc' => pvc)
          /\ pc = "postRacks" /\ pc' \in {"acl", "finish"}
      BY SMT, <1>14 DEF PostRackStages, StageFails, StageSucceeds, Continue, FailWith, cluster
    <2> QED BY <2>1, PlainStageKeeps DEF WorkStages, DoneStages, ReadStages, Guarded, Held
  <1>15. CASE ReconcileAccessControl
    <2>1. CASE UNCHANGED mem
      <3>1. /\ UNCHANGED <<api, mem, work, workGen, sts, pvc>>
            /\ pc = "acl" /\ pc' \in {"roster", "finish"}
        BY <1>15, <2>1 DEF ReconcileAccessControl, StageFails, StageSucceeds, Continue,
                           FailWith, cluster
      <3> QED BY <3>1, PlainStageKeeps DEF WorkStages, DoneStages, ReadStages, Guarded, Held
    <2>2. CASE ~UNCHANGED mem
      <3>1. /\ mem' = [mem EXCEPT !.phase = api.phase, !.statusGen = api.statusGen,
                                  !.conds = api.conds]
            /\ UNCHANGED <<api, work, workGen, sts, pvc>> /\ pc = "acl" /\ pc' = "roster"
        BY <1>15, <2>2 DEF ReconcileAccessControl, StageFails, StageSucceeds, Continue, cluster
      <3>2. /\ mem'.statusGen = api.statusGen /\ mem'.conds = api.conds
            /\ mem'.gen = mem.gen /\ mem'.finalizer = mem.finalizer
        BY <1>0, <3>1 DEF Objects
      <3> QED BY <3>1, <3>2 DEF QuietStep, GuardedStep, OldReady, Held, WorkStages, DoneStages,
                                ReadStages, Guarded
    <2> QED BY <2>1, <2>2
  <1>16. CASE EnsureSCRoster
    <2>1. /\ UNCHANGED <<api, mem, work, workGen>>
          /\ (sts' => sts) /\ (pvc' => pvc)
          /\ pc = "roster" /\ pc' \in {"updateStatus", "finish"}
      BY SMT, <1>16 DEF EnsureSCRoster, StageFails, StageWaits, StageSucceeds, RequeueAfter, Continue,
                  FailWith, cluster
    <2> QED BY <2>1, PlainStageKeeps DEF WorkStages, DoneStages, ReadStages, Guarded, Held
  <1>17. CASE RecoverIgnorablePods
    <2>1. /\ UNCHANGED <<api, mem, work, workGen>>
          /\ (sts' => sts) /\ (pvc' => pvc)
          /\ pc = "recoverIgnorable" /\ pc' \in {"finish"}
      BY SMT, <1>17 DEF RecoverIgnorablePods, StageFails, StageSucceeds, RequeueAfter, Continue,
                   FailWith, cluster
    <2> QED BY <2>1, PlainStageKeeps DEF WorkStages, DoneStages, ReadStages, Guarded, Held
  <1>18. CASE FinishReconcile
    <2> DEFINE new == MergePatched(TerminalPhase, TerminalConditions)
    <2>1. EndPass /\ (api' = api \/ api' = new)
      BY <1>18 DEF FinishReconcile
    <2>2. /\ new.statusGen = api.statusGen /\ new.exists = api.exists
          /\ new.finalizer = api.finalizer /\ OldReady(new.conds.ready)
      BY TerminalKeeps
    <2> HIDE DEF new
    <2> QED BY <1>0, <2>1, <2>2, EndPassKeeps
  <1>19. CASE Crash
    BY SMTT(30), <1>0, <1>19, EndPassKeeps DEF Crash
  <1>20. CASE UserEdit \/ UserDelete
    <2>1. /\ UNCHANGED <<mem, pc, work, workGen, sts, pvc>>
          /\ \/ \E paused \in BOOLEAN : api' = [api EXCEPT !.gen = @ + 1, !.paused = paused]
             \/ api' = [api EXCEPT !.deleting = TRUE]
             \/ api' = [api EXCEPT !.exists = FALSE]
      BY <1>20 DEF UserEdit, UserDelete, pass, cluster
    <2>2. /\ api'.statusGen = api.statusGen /\ api'.conds = api.conds
          /\ api'.finalizer = api.finalizer /\ (api'.exists => api.exists)
      BY <1>0, <2>1 DEF Objects
    <2> QED BY <2>1, <2>2 DEF QuietStep, GuardedStep, OldReady, Held
  <1>21. CASE PodsCreate \/ PodsSettle \/ PodsFail \/ GarbageCollect
    <2>1. /\ UNCHANGED <<api, mem, pc, work, workGen>>
          /\ (sts' => sts) /\ (pvc' => sts \/ pvc)
      BY SMT, <1>21 DEF PodsCreate, PodsSettle, PodsFail, GarbageCollect, pass
    <2> QED BY <2>1, PlainStageKeeps DEF Held
  <1>22. CASE UNCHANGED vars
    BY <1>22, PlainStageKeeps DEF vars, cluster, Held
  <1> QED BY <1>1, <1>2, <1>3, <1>4, <1>5, <1>6, <1>7, <1>8, <1>9, <1>10, <1>11, <1>12, <1>13,
             <1>14, <1>15, <1>16, <1>17, <1>18, <1>19, <1>20, <1>21, <1>22 DEF Next, PassStep

\* BackedInv is inductive relative to TypeOK and RestInv: the racks change only in stages in
\* which neither the object nor memory is Ready.
LEMMA NextBacked ==
    ASSUME TypeOK, RestInv, BackedInv, [Next]_vars
    PROVE  BackedInv'
  <1>0. pc \in NotReadyStages /\ Synced
        => api.conds.ready.status # "True" /\ mem.conds.ready.status # "True"
    BY DEF RestInv
  <1>1. CASE CreateHeadlessSvc
    <2>1. CASE pc' = "finish"
      <3>1. UNCHANGED <<api, mem, work, workGen, sts, pvc>>
        BY <1>1, <2>1 DEF CreateHeadlessSvc, StageFails, Continue, cluster
      <3> QED BY <2>1, <3>1, PlainStageKeeps, QuietBacked
              DEF Held, WorkStages, DoneStages, ReadStages, Guarded
    <2>2. CASE pc' # "finish"
      <3>1. /\ UNCHANGED <<api, mem>> /\ workGen' = mem.gen
            /\ pc = "headlessSvc" /\ pc' = "failedPods"
        BY <1>1, <2>2 DEF CreateHeadlessSvc, StageFails, FailWith, Continue
      <3>2. api.conds.ready.status # "True" /\ mem.conds.ready.status # "True"
        BY <1>0, <3>1 DEF NotReadyStages, RackStages, Synced
      <3> QED BY <3>1, <3>2 DEF BackedInv, Backed, WorkStages, DoneStages, ReadStages
    <2> QED BY <2>1, <2>2
  <1>2. ASSUME NEW op \in Ops, RunOperation(op)
        PROVE  BackedInv'
    <2>1. /\ UNCHANGED <<api, mem, workGen>> /\ pc \in {"racks", "failedPods"}
          /\ pc' = pc \/ pc' = "finish"
      BY <1>2 DEF RunOperation, InRackLoop, RequeueAfter, Continue
    <2>2. api.conds.ready.status # "True" /\ mem.conds.ready.status # "True"
      BY <1>0, <2>1 DEF NotReadyStages, RackStages, Synced
    <2> QED BY <2>1, <2>2 DEF BackedInv, Backed, WorkStages, DoneStages, ReadStages
  <1>3. CASE WaitForAllRacksReady
    <2>1. /\ UNCHANGED <<api, mem, work, workGen>> /\ \A op \in Ops : work[op] = 0
          /\ pc = "racks" /\ pc' \in {"postRacks", "finish"}
      BY <1>3 DEF WaitForAllRacksReady, Continue, RequeueAfter, FailWith, cluster
    <2> QED BY <2>1 DEF BackedInv, Backed, WorkStages, DoneStages, ReadStages
  <1>4. CASE UpdateStatus
    <2>1. /\ pc = "updateStatus" /\ UNCHANGED <<work, workGen>>
          /\ \/ /\ pc' = "recoverIgnorable" /\ mem' = UpdatedObject
                /\ api' = JSONPatched(UpdatedObject)
             \/ /\ pc' = "finish" /\ mem' = mem
                /\ api' = api \/ api' = JSONPatched(UpdatedObject)
      BY <1>4 DEF UpdateStatus, Answered, Applied, Continue, FailWith, cluster
    <2>2. mem.conds.ready.status # "True"
      BY <1>0, <2>1 DEF NotReadyStages, RackStages, Synced
    <2>3. workGen = mem.gen /\ \A op \in Ops : work[op] = 0
      BY <2>1 DEF BackedInv, WorkStages, DoneStages
    <2>4. api' # api => api'.statusGen = mem.gen /\ api'.conds.ready.gen = mem.gen
      BY <2>1, UpdatedBacked
    <2>5. mem' # mem => /\ api'.statusGen = mem.gen /\ mem'.conds.ready.gen = mem.gen
      BY <2>1, UpdatedBacked
    <2>6. Backed(api.conds.ready)' /\ Backed(mem.conds.ready)'
      BY <2>1, <2>2, <2>3, <2>4, <2>5 DEF BackedInv, Backed
    <2> QED BY <2>1, <2>6 DEF BackedInv, WorkStages, DoneStages, ReadStages
  <1> QED BY <1>1, <1>2, <1>3, <1>4, QuietNext, QuietBacked

\* GuardInv is inductive relative to TypeOK, RestInv and BackedInv.
LEMMA NextGuarded ==
    ASSUME TypeOK, RestInv, BackedInv, GuardInv, [Next]_vars
    PROVE  GuardInv'
  <1>1. CASE CreateHeadlessSvc
    <2>1. UNCHANGED <<api, mem, sts, pvc>> /\ pc = "headlessSvc"
      BY <1>1 DEF CreateHeadlessSvc, StageFails, cluster
    <2> QED BY <2>1 DEF GuardInv, Held, Guarded
  <1>2. ASSUME NEW op \in Ops, RunOperation(op)
        PROVE  GuardInv'
    <2>1. UNCHANGED <<api, mem, sts, pvc>> /\ pc \in {"racks", "failedPods"}
      BY <1>2 DEF RunOperation, InRackLoop
    <2> QED BY <2>1 DEF GuardInv, Held, Guarded
  <1>3. CASE WaitForAllRacksReady
    <2>1. UNCHANGED <<api, mem, sts, pvc>> /\ pc = "racks"
      BY <1>3 DEF WaitForAllRacksReady, cluster
    <2> QED BY <2>1 DEF GuardInv, Held, Guarded
  <1>4. CASE UpdateStatus
    <2>1. /\ pc = "updateStatus" /\ pc' \in {"recoverIgnorable", "finish"}
          /\ UNCHANGED <<sts, pvc>>
          /\ mem' = mem \/ mem' = UpdatedObject
          /\ api' = api \/ api' = JSONPatched(UpdatedObject)
      BY <1>4 DEF UpdateStatus, Continue, FailWith, cluster
    <2>2. /\ api'.exists = api.exists /\ api'.finalizer = api.finalizer
          /\ mem'.finalizer \in {mem.finalizer, api.finalizer}
      BY <2>1, UpdatedBacked
    <2> QED BY <2>1, <2>2 DEF GuardInv, Held, Guarded
  <1> QED BY <1>1, <1>2, <1>3, <1>4, QuietNext, StepGuarded

-----------------------------------------------------------------------------
(* The theorems *)

\* What Ready says holds throughout.
LEMMA BackedInvariance == Spec => []BackedInv
  <1>1. Init => BackedInv
    <2>1. NewObject.conds.ready.status # "True"
      BY DEF NewObject, NoConditions
    <2>2. Init => pc = "idle" /\ api = NewObject /\ mem = NewObject
      BY DEF Init
    <2> QED BY <2>1, <2>2 DEF BackedInv, Backed, WorkStages, DoneStages, ReadStages
  <1>2. TypeOK /\ RestInv /\ BackedInv /\ [Next]_vars => BackedInv'
    BY NextBacked
  <1> QED BY <1>1, <1>2, TypeCorrect, RestInvariance, PTL DEF Spec

\* Whoever sees Ready=True with an observed generation g can rely on it: the racks were brought
\* to the spec of generation g, no batch is left, and g is the spec the status holds, for any
\* operations, edits under a running pass, failed or half-lost writes, and crashes (updateStatus,
\* writeTerminalStatus and mergePatchStatus of reconciler.go).
THEOREM ReadyApplied == Spec => []ReadyMeansApplied
  <1>1. BackedInv => ReadyMeansApplied
    BY DEF BackedInv, Backed, ReadyMeansApplied, IsReady
  <1> QED BY <1>1, BackedInvariance, PTL

\* An object with StatefulSets or volumes carries the finalizer: addFinalizer succeeded in the
\* pass that created them, or memory had it, and only handleClusterDeletion takes it away, with
\* the object, after the volumes.
THEOREM FinalizerGuards == Spec => []FinalizerGuardsResources
  <1>1. Init => GuardInv
    <2>1. ~NewObject.finalizer
      BY DEF NewObject
    <2>2. Init => ~sts /\ ~pvc /\ pc = "idle" /\ mem = NewObject
      BY DEF Init
    <2> QED BY <2>1, <2>2 DEF GuardInv, Held, Guarded
  <1>2. TypeOK /\ RestInv /\ BackedInv /\ GuardInv /\ [Next]_vars => GuardInv'
    BY NextGuarded
  <1>3. GuardInv => FinalizerGuardsResources
    BY DEF GuardInv, Held, FinalizerGuardsResources
  <1> QED BY <1>1, <1>2, <1>3, TypeCorrect, RestInvariance, BackedInvariance, PTL DEF Spec

-----------------------------------------------------------------------------
(* The phase and Ready *)

PhaseAgrees(o) ==
    /\ o.conds.ready.status = "True" => o.phase = "Completed"
    /\ o.phase = "Completed" => o.conds.ready.status = "True" \/ o.deleting

\* The phase agrees with Ready in the object and in memory; memory is not the first to know of
\* a deletion; and a pass that could have written Completed without knowing it does not have
\* the error phase in memory, which its last write would then not send.
PhaseInv ==
    /\ PhaseAgrees(api) /\ PhaseAgrees(mem)
    /\ mem.deleting => api.deleting
    /\ pc \in RackStages => mem.phase = "InProgress"
    /\ api.phase = "Completed" => mem.phase # "Error"

\* What updateStatus builds: Ready, its conditions stamped as those of any other write.
LEMMA UpdatedWrites ==
    ASSUME TypeOK
    PROVE  LET new == JSONPatched(UpdatedObject)
           IN  /\ UpdatedObject.deleting = api.deleting /\ new.deleting = api.deleting
               /\ UpdatedObject.gen = api.gen /\ new.gen = api.gen
               /\ UpdatedObject.conds.ready.status = "True" /\ Stamped(UpdatedObject.conds)
  <1> DEFINE new == JSONPatched(UpdatedObject)
             ready == SetReady(mem.conds, "True", "ReconcileComplete")
  <1>0. api \in Objects /\ mem \in Objects /\ "ReconcileComplete" \in ReadyReasons
    BY DEF TypeOK, ReadyReasons
  <1>1. /\ UpdatedObject.deleting = api.deleting /\ new.deleting = api.deleting
        /\ UpdatedObject.gen = api.gen /\ new.gen = api.gen
        /\ UpdatedObject.conds = SetFlags(ready, Ops, "False")
    BY <1>0 DEF UpdatedObject, JSONPatched, Objects
  <1>2. ready \in Conditions /\ Stamped(ready) /\ ready.ready.status = "True"
    BY <1>0, SetReadyWrites
  <1> HIDE DEF ready
  <1>3. UpdatedObject.conds.ready.status = "True" /\ Stamped(UpdatedObject.conds)
    BY SMT, <1>0, <1>1, <1>2, SetFlagsWrites
  <1> QED BY <1>1, <1>3

\* PhaseInv is inductive.
LEMMA NextPhase ==
    ASSUME TypeOK, RestInv, BackedInv, PhaseInv, StatusStep
    PROVE  PhaseInv'
  <1>0. PhaseAgrees(NewObject) /\ ~NewObject.deleting /\ NewObject.phase # "Error"
    BY DEF PhaseAgrees, NewObject, NoConditions
  <1>1. CASE QuietStatus
    BY SMT, <1>0, <1>1 DEF QuietStatus, SameStatus, PhaseInv, PhaseAgrees, RackStages
  <1>2. ASSUME NEW phase \in Phases, NEW conds \in Conditions, StatusWrite(phase, conds)
        PROVE  PhaseInv'
    <2>1. CASE phase = mem.phase /\ conds = mem.conds /\ mem' = NewObject /\ pc' = "idle"
      BY <1>0, <1>2, <2>1 DEF StatusWrite, PatchStatus, PhaseInv, PhaseAgrees, RackStages
    <2>2. CASE Agreed /\ phase = mem.phase /\ conds.ready = mem.conds.ready
      BY SMTT(30), <1>0, <1>2, <2>2
         DEF Agreed, StatusWrite, PatchStatus, SameStatus, PhaseInv, PhaseAgrees
    <2>3. CASE /\ Agreed /\ phase = mem.phase /\ conds.ready.status # "True"
               /\ mem.deleting \/ mem.conds.ready.status # "True"
      BY SMTT(30), <1>0, <1>2, <2>3
         DEF Agreed, StatusWrite, PatchStatus, SameStatus, PhaseInv, PhaseAgrees
    <2>4. CASE Agreed /\ phase = "InProgress" /\ conds.ready.status = "False"
      BY SMTT(30), <1>0, <1>2, <2>4
         DEF Agreed, StatusWrite, PatchStatus, SameStatus, PhaseInv, PhaseAgrees
    <2>5. CASE /\ phase = "Error" /\ conds.ready.status = "False"
               /\ conds.ready.reason # "Reconciling"
               /\ pc = "finish" /\ pc' = "idle" /\ mem' = NewObject
      <3>1. api.conds.ready.status = "True" => conds # mem.conds
        BY <2>5 DEF RestInv
      <3>2. PhaseAgrees(api)'
        BY <1>2, <2>5, <3>1 DEF StatusWrite, PatchStatus, PhaseInv, PhaseAgrees
      <3> QED BY <1>0, <1>2, <2>5, <3>2 DEF StatusWrite, PatchStatus, PhaseInv, RackStages
    <2> QED BY SMTT(30), <1>2, <2>1, <2>2, <2>3, <2>4, <2>5 DEF StatusWrite, WrittenPhase
  <1>3. CASE UpdateStatus
    <2>1. Agreed /\ pc = "updateStatus" /\ mem.phase = "InProgress"
      BY <1>3 DEF UpdateStatus, RestInv, Synced, Agreed, PhaseInv, RackStages
    <2> DEFINE new == JSONPatched(UpdatedObject)
    <2>2. /\ UpdatedObject.phase = "Completed" /\ new.phase = "Completed"
          /\ new.conds = UpdatedObject.conds
      BY <2>1, UpdatedRest DEF Agreed
    <2>3. /\ UpdatedObject.conds.ready.status = "True"
          /\ UpdatedObject.deleting = api.deleting /\ new.deleting = api.deleting
      BY UpdatedWrites
    <2> HIDE DEF new
    <2>4. /\ api' = api \/ api' = new
          /\ \/ mem' = UpdatedObject /\ pc' = "recoverIgnorable" /\ api' = new
             \/ mem' = mem /\ pc' = "finish"
      BY <1>3 DEF UpdateStatus, Continue, FailWith, Applied, Answered, new
    <2> QED BY SMTT(30), <2>1, <2>2, <2>3, <2>4 DEF PhaseInv, PhaseAgrees, RackStages
  <1> QED BY <1>1, <1>2, <1>3 DEF StatusStep

\* PhaseInv holds in every state.
LEMMA PhaseInvariance == Spec => []PhaseInv
  <1>1. Init => PhaseInv
    <2>1. PhaseAgrees(NewObject) /\ ~NewObject.deleting /\ NewObject.phase # "Error"
      BY DEF PhaseAgrees, NewObject, NoConditions
    <2> QED BY <2>1 DEF Init, PhaseInv, PhaseAgrees, RackStages
  <1>2. TypeOK /\ RestInv /\ BackedInv /\ ArmedInv /\ PhaseInv /\ [Next]_vars => PhaseInv'
    BY NextStatus, NextPhase
  <1> QED BY <1>1, <1>2, TypeCorrect, RestInvariance, BackedInvariance, ArmedInvariance, PTL
          DEF Spec

\* The phase and the Ready condition never contradict each other, although setStatusPhase,
\* updateStatus and writeTerminalStatus write them from memory that may be out of date.
THEOREM PhaseAgreement == Spec => []PhaseAgreesWithReady
  <1>1. PhaseInv => PhaseAgreesWithReady
    BY DEF PhaseInv, PhaseAgrees, PhaseAgreesWithReady, IsReady
  <1> QED BY <1>1, PhaseInvariance, PTL

-----------------------------------------------------------------------------
(* The generations *)

GenBound(o) ==
    /\ o.statusGen <= o.gen
    /\ o.conds.ready.gen <= o.gen
    /\ \A c \in Flags : o.conds.flag[c].gen <= o.gen

\* Nothing reports a generation from the future, and memory is never ahead of the object.
GenInv == GenBound(api) /\ GenBound(mem) /\ mem.gen <= api.gen

\* The generations of an object are numbers.
LEMMA GenNats ==
    ASSUME NEW o \in Objects
    PROVE  /\ o.gen \in Nat /\ o.statusGen \in Nat /\ o.conds.ready.gen \in Nat
           /\ \A c \in Flags : o.conds.flag[c].gen \in Nat
  <1>1. o.gen \in Nat /\ o.statusGen \in Nat /\ o.conds \in Conditions
    BY SMT, Bounds DEF Objects, Gens
  <1>2. o.conds.ready.gen \in Nat
    <2>1. o.conds.ready.gen \in Gens
      BY <1>1 DEF Conditions, ReadyCond
    <2> QED BY SMT, Bounds, <2>1 DEF Gens
  <1>3. ASSUME NEW c \in Flags PROVE o.conds.flag[c].gen \in Nat
    <2>1. o.conds.flag[c] \in FlagCond
      BY <1>1 DEF Conditions
    <2>2. o.conds.flag[c].gen \in Gens
      BY <2>1 DEF FlagCond
    <2> QED BY SMT, Bounds, <2>2 DEF Gens
  <1> QED BY <1>1, <1>2, <1>3

\* Conditions a pass writes report no generation beyond the one in memory, and none that is
\* older than the one they replace.
LEMMA StampedBound ==
    ASSUME TypeOK, GenBound(mem), NEW conds, Stamped(conds)
    PROVE  /\ conds.ready.gen <= mem.gen /\ conds.ready.gen >= mem.conds.ready.gen
           /\ \A c \in Flags : /\ conds.flag[c].gen <= mem.gen
                               /\ conds.flag[c].gen >= mem.conds.flag[c].gen
  <1>1. /\ mem.gen \in Nat /\ mem.conds.ready.gen \in Nat
        /\ \A c \in Flags : mem.conds.flag[c].gen \in Nat
    BY GenNats DEF TypeOK
  <1>2. ASSUME NEW c \in Flags
        PROVE  /\ conds.flag[c].gen <= mem.gen
               /\ conds.flag[c].gen >= mem.conds.flag[c].gen
    BY SMT, <1>1 DEF GenBound, Stamped
  <1> QED BY SMT, <1>1, <1>2 DEF GenBound, Stamped

\* The generation updateStatus stamps the status with is not behind the one it replaces.
LEMMA UpdatedGens ==
    ASSUME TypeOK, RestInv, BackedInv, GenInv, UpdateStatus
    PROVE  LET new == JSONPatched(UpdatedObject)
           IN  /\ mem.conds = api.conds
               /\ api' = api \/ api' = new
               /\ UNCHANGED mem \/ mem' = UpdatedObject
               /\ new.gen = api.gen /\ UpdatedObject.gen = api.gen
               /\ new.statusGen = mem.gen /\ UpdatedObject.statusGen = mem.gen
               /\ new.statusGen >= api.statusGen
               /\ new.conds = UpdatedObject.conds /\ Stamped(UpdatedObject.conds)
  <1> DEFINE new == JSONPatched(UpdatedObject)
  <1>1. /\ pc = "updateStatus" /\ mem.phase = api.phase /\ mem.conds = api.conds
        /\ mem.statusGen = api.statusGen
    BY DEF UpdateStatus, RestInv, Synced, BackedInv, ReadStages, WorkStages, DoneStages
  <1>2. /\ api' = api \/ api' = new
        /\ UNCHANGED mem \/ mem' = UpdatedObject
    BY DEF UpdateStatus
  <1>3. new.conds = UpdatedObject.conds
    BY <1>1, UpdatedRest
  <1>4. /\ new.gen = api.gen /\ UpdatedObject.gen = api.gen /\ Stamped(UpdatedObject.conds)
    BY UpdatedWrites
  <1>5. new.statusGen = mem.gen /\ UpdatedObject.statusGen = mem.gen
    BY <1>1, UpdatedBacked
  <1>6. mem.gen >= api.statusGen
    <2>1. mem.gen \in Nat /\ mem.statusGen \in Nat
      BY GenNats DEF TypeOK
    <2> QED BY <1>1, <2>1 DEF GenInv, GenBound
  <1> HIDE DEF new
  <1> QED BY SMTT(30), <1>1, <1>2, <1>3, <1>4, <1>5, <1>6 DEF new

\* GenInv is inductive.
LEMMA NextGen ==
    ASSUME TypeOK, RestInv, BackedInv, GenInv, StatusStep, TypeOK'
    PROVE  GenInv'
  <1>0. /\ mem.gen \in Nat /\ api.gen \in Nat /\ mem.statusGen \in Nat /\ api.statusGen \in Nat
        /\ mem.conds.ready.gen \in Nat /\ api.conds.ready.gen \in Nat
        /\ \A c \in Flags : mem.conds.flag[c].gen \in Nat /\ api.conds.flag[c].gen \in Nat
        /\ mem'.gen \in Nat /\ api'.gen \in Nat
    BY GenNats DEF TypeOK
  <1>1. GenBound(NewObject) /\ NewObject.gen = 1 /\ api'.gen >= 1
    <2>1. api'.gen >= 1
      BY SMT, Bounds DEF TypeOK, Objects
    <2>2. /\ NewObject.gen = 1 /\ NewObject.statusGen = 0 /\ NewObject.conds.ready.gen = 0
          /\ \A c \in Flags : NewObject.conds.flag[c].gen = 0
      BY DEF NewObject, NoConditions
    <2> QED BY SMT, <2>1, <2>2 DEF GenBound
  <1>2. CASE QuietStatus
    <2>1. GenBound(api)'
      BY SMT, <1>0, <1>2 DEF QuietStatus, GenInv, GenBound
    <2>2. GenBound(mem)' /\ mem'.gen <= api'.gen
      <3>1. CASE SameStatus(mem', mem)
        BY SMT, <1>0, <1>2, <3>1 DEF QuietStatus, SameStatus, GenInv, GenBound
      <3>2. CASE mem' = api' \/ mem' = NewObject
        BY SMTT(30), <1>0, <1>1, <2>1, <3>2 DEF GenBound
      <3>3. CASE /\ pc = "acl" /\ mem'.conds = mem.conds /\ mem'.statusGen = api.statusGen
                 /\ mem'.gen = mem.gen
        <4>1. mem.statusGen = api.statusGen
          BY <3>3 DEF BackedInv, ReadStages, WorkStages, DoneStages
        <4> QED BY SMT, <1>0, <1>2, <3>3, <4>1 DEF QuietStatus, GenInv, GenBound
      <3> QED BY SMTT(30), <1>2, <3>1, <3>2, <3>3 DEF QuietStatus
    <2> QED BY SMTT(30), <2>1, <2>2 DEF GenInv
  <1>3. ASSUME NEW phase \in Phases, NEW conds \in Conditions, StatusWrite(phase, conds)
        PROVE  GenInv'
    <2>1. /\ conds.ready.gen <= mem.gen
          /\ \A c \in Flags : conds.flag[c].gen <= mem.gen
      BY SMTT(30), <1>3, StampedBound DEF StatusWrite, GenInv
    <2>2. conds.ready.gen \in Nat /\ \A c \in Flags : conds.flag[c].gen \in Nat
      BY SMTT(30), <1>0, <1>3 DEF StatusWrite, Stamped
    <2>3. api'.conds \in {api.conds, conds}
      BY SMTT(30), <1>3 DEF StatusWrite, PatchStatus
    <2>4. GenBound(api)'
      BY SMT, <1>0, <1>3, <2>1, <2>2, <2>3 DEF StatusWrite, PatchStatus, GenInv, GenBound
    <2>5. CASE mem' = NewObject
      BY <1>1, <2>4, <2>5 DEF GenInv
    <2>6. CASE Agreed /\ mem' # NewObject
      <3>1. /\ mem'.gen = mem.gen /\ mem'.statusGen = mem.statusGen /\ api'.gen = api.gen
            /\ mem'.conds \in {mem.conds, conds}
        BY SMTT(30), <1>3, <2>3, <2>6 DEF StatusWrite, PatchStatus, SameStatus, Agreed
      <3>2. GenBound(mem)'
        BY SMTT(30), <1>0, <2>1, <2>2, <3>1 DEF GenInv, GenBound
      <3> QED BY SMTT(30), <2>4, <3>1, <3>2 DEF GenInv
    <2> QED BY SMTT(30), <1>3, <2>5, <2>6 DEF StatusWrite, WrittenPhase
  <1>4. CASE UpdateStatus
    <2> DEFINE new == JSONPatched(UpdatedObject)
               u == UpdatedObject
    <2>1. /\ api' = api \/ api' = new
          /\ UNCHANGED mem \/ mem' = u
          /\ new.gen = api.gen /\ u.gen = api.gen
          /\ new.statusGen = mem.gen /\ u.statusGen = mem.gen
          /\ new.conds = u.conds /\ Stamped(u.conds)
      BY <1>4, UpdatedGens
    <2> HIDE DEF new, u
    <2>2. /\ u.conds.ready.gen <= mem.gen
          /\ \A c \in Flags : u.conds.flag[c].gen <= mem.gen
      BY SMTT(30), <2>1, StampedBound DEF GenInv
    <2>3. u.conds.ready.gen \in Nat /\ \A c \in Flags : u.conds.flag[c].gen \in Nat
      BY SMTT(30), <1>0, <2>1 DEF Stamped
    <2>4. GenBound(u) /\ GenBound(new)
      BY SMT, <1>0, <2>1, <2>2, <2>3 DEF GenInv, GenBound
    <2> QED BY SMT, <1>0, <2>1, <2>4 DEF GenInv, GenBound
  <1> QED BY SMTT(30), <1>2, <1>3, <1>4 DEF StatusStep

\* GenInv holds in every state.
LEMMA GenInvariance == Spec => []GenInv
  <1>1. Init => GenInv
    <2>1. /\ NewObject.gen = 1 /\ NewObject.statusGen = 0 /\ NewObject.conds.ready.gen = 0
          /\ \A c \in Flags : NewObject.conds.flag[c].gen = 0
      BY DEF NewObject, NoConditions
    <2> QED BY SMT, <2>1 DEF Init, GenInv, GenBound
  <1>2. TypeOK /\ RestInv /\ BackedInv /\ ArmedInv /\ GenInv /\ [Next]_vars /\ TypeOK' => GenInv'
    BY NextStatus, NextGen
  <1> QED BY <1>1, <1>2, TypeCorrect, RestInvariance, BackedInvariance, ArmedInvariance, PTL
          DEF Spec

\* The generations that the status and its conditions report never go back, however the spec
\* changes between the read of the object and the write of a status stamped from memory.
THEOREM GenerationsMonotone == Spec => ObservedGenerationMonotone
  <1> DEFINE Mono ==
        /\ api'.statusGen >= api.statusGen
        /\ Informed => /\ api'.conds.ready.gen >= api.conds.ready.gen
                       /\ \A c \in Flags : api'.conds.flag[c].gen >= api.conds.flag[c].gen
  <1>1. ASSUME TypeOK, RestInv, BackedInv, ArmedInv, GenInv, [Next]_vars
        PROVE  Mono
    <2>0. /\ api.statusGen \in Nat /\ api.conds.ready.gen \in Nat
          /\ \A c \in Flags : api.conds.flag[c].gen \in Nat
      BY <1>1, GenNats DEF TypeOK
    <2>1. CASE QuietStatus
      BY SMT, <2>0, <2>1 DEF QuietStatus
    <2>2. ASSUME NEW phase \in Phases, NEW conds \in Conditions, StatusWrite(phase, conds)
          PROVE  Mono
      <3>1. /\ conds.ready.gen >= mem.conds.ready.gen
            /\ \A c \in Flags : conds.flag[c].gen >= mem.conds.flag[c].gen
        BY SMTT(30), <1>1, <2>2, StampedBound DEF StatusWrite, GenInv
      <3>2. api'.statusGen = api.statusGen /\ api'.conds \in {api.conds, conds}
        BY <2>2 DEF StatusWrite, PatchStatus
      <3> QED BY SMT, <2>0, <3>1, <3>2 DEF Informed
    <2>3. CASE UpdateStatus
      <3> DEFINE new == JSONPatched(UpdatedObject)
                 conds == UpdatedObject.conds
      <3>1. /\ mem.conds = api.conds /\ (api' = api \/ api' = new)
            /\ new.statusGen >= api.statusGen /\ new.conds = conds /\ Stamped(conds)
        BY <1>1, <2>3, UpdatedGens
      <3> HIDE DEF new, conds
      <3>2. /\ conds.ready.gen >= mem.conds.ready.gen
            /\ \A c \in Flags : conds.flag[c].gen >= mem.conds.flag[c].gen
        BY <1>1, <3>1, StampedBound DEF GenInv
      <3> QED BY SMT, <2>0, <3>1, <3>2
    <2> HIDE DEF Mono
    <2> QED BY <1>1, <2>1, <2>2, <2>3, NextStatus DEF StatusStep
  <1>2. TypeOK /\ RestInv /\ BackedInv /\ ArmedInv /\ GenInv /\ [Next]_vars => [Mono]_vars
    BY <1>1
  <1> QED BY <1>2, TypeCorrect, RestInvariance, BackedInvariance, ArmedInvariance, GenInvariance,
             PTL DEF Spec, ObservedGenerationMonotone

-----------------------------------------------------------------------------
(* The operation conditions *)

\* An operation condition of an informed pass changes only as FlagsKept says, or with Ready.
LEMMA FlagSteps ==
    ASSUME TypeOK, RestInv, ArmedInv, [Next]_vars, Informed, NEW op \in Ops
    PROVE  \/ api'.conds.flag[op] = api.conds.flag[op]
           \/ api.conds.flag[op].status = ""
           \/ armed /\ api'.conds.flag[op].status = "True"
           \/ armed /\ err = NoErr /\ op \in pending
           \/ armed /\ err = NoErr /\ api'.conds.ready.status = "True"
  <1>1. CASE QuietStatus
    BY <1>1 DEF QuietStatus
  <1>2. ASSUME NEW phase \in Phases, NEW conds \in Conditions, StatusWrite(phase, conds),
               api'.conds = conds
        PROVE  \/ api'.conds.flag[op] = api.conds.flag[op]
               \/ api.conds.flag[op].status = ""
               \/ armed /\ api'.conds.flag[op].status = "True"
               \/ armed /\ err = NoErr /\ op \in pending
    <2>1. CASE mem.conds = NoConditions
      <3>1. NoConditions.flag[op].status = ""
        BY DEF NoConditions, Flags
      <3> QED BY <2>1, <3>1 DEF Informed
    <2>2. CASE mem.conds # NoConditions
      BY <1>2, <2>2 DEF StatusWrite, FlagsKept, Informed
    <2> QED BY <2>1, <2>2
  <1>3. ASSUME NEW phase \in Phases, NEW conds \in Conditions, StatusWrite(phase, conds)
        PROVE  api'.conds = api.conds \/ api'.conds = conds
    BY <1>3 DEF StatusWrite, PatchStatus
  <1>4. CASE UpdateStatus
    <2> DEFINE new == JSONPatched(UpdatedObject)
    <2>1. /\ pc = "updateStatus" /\ mem.phase = api.phase /\ mem.conds = api.conds
          /\ armed /\ err = NoErr
      BY <1>4 DEF UpdateStatus, RestInv, Synced, ArmedInv, WorkStages, DoneStages
    <2>2. api' = api \/ api' = new
      BY SMTT(30), <1>4 DEF UpdateStatus
    <2>3. new.conds.ready.status = "True"
      BY <2>1, UpdatedRest, UpdatedWrites
    <2> HIDE DEF new
    <2> QED BY <2>1, <2>2, <2>3
  <1> QED BY <1>1, <1>2, <1>3, <1>4, NextStatus DEF StatusStep

\* A pass that has not reached initPendingOpConditionReset, one that ends on spec.paused or on a
\* deletion included, changes no operation condition that exists.
THEOREM FrozenConditions == Spec => FrozenUnlessArmed
  <1> DEFINE Frozen == ~armed /\ Informed
                       => \A op \in Ops : \/ api'.conds.flag[op] = api.conds.flag[op]
                                          \/ api.conds.flag[op].status = ""
  <1>1. TypeOK /\ RestInv /\ ArmedInv /\ [Next]_vars => [Frozen]_vars
    BY FlagSteps
  <1> QED BY <1>1, TypeCorrect, RestInvariance, ArmedInvariance, PTL DEF Spec, FrozenUnlessArmed

\* An operation condition stops reporting only in a pass that did not fail, and one claimed in
\* this pass only when updateStatus sets Ready=True.
THEOREM ClaimsReported == Spec => ClaimedKeepsReporting
  <1> DEFINE Reports ==
        \A op \in Ops :
          Informed /\ api.conds.flag[op].status = "True" /\ api'.conds.flag[op].status # "True"
          => /\ err = NoErr
             /\ op \in pending \/ api'.conds.ready.status = "True"
  <1>1. TypeOK /\ RestInv /\ ArmedInv /\ [Next]_vars => [Reports]_vars
    BY FlagSteps
  <1> QED BY <1>1, TypeCorrect, RestInvariance, ArmedInvariance, PTL
          DEF Spec, ClaimedKeepsReporting

-----------------------------------------------------------------------------
(* The StatefulSets *)

\* recoverFailedCreate deletes the StatefulSets of a live object only while its status was never
\* filled and no pod of them is healthy or in its grace period.
THEOREM RecreateGuarded == Spec => RecreateOnlyFailedCreate
  <1> DEFINE Guard == api.exists /\ sts /\ ~sts' => /\ api.statusGen = 0
                                                    /\ pods \in {"none", "failed"}
  <1>1. ASSUME TypeOK, BackedInv, [Next]_vars
        PROVE  Guard
    <2>1. CASE CheckPreviouslyFailedCluster
      <3>1. mem.statusGen = api.statusGen
        BY <1>1, <2>1 DEF CheckPreviouslyFailedCluster, BackedInv, ReadStages
      <3> QED BY <2>1, <3>1
          DEF CheckPreviouslyFailedCluster, StageFails, StageSucceeds, cluster
    <2>2. CASE GarbageCollect
      BY <2>2 DEF GarbageCollect
    <2>3. CASE ~CheckPreviouslyFailedCluster /\ ~GarbageCollect
      <3>1. sts' = sts \/ sts'
        <4>1. CASE StartPass \/ SetTerminating \/ HandleClusterDeletion
          BY <4>1 DEF StartPass, SetTerminating, HandleClusterDeletion, StageFails, cluster
        <4>2. CASE InitializeConditionsIfNeeded \/ CheckPaused \/ MarkInProgress \/ MarkRacksInProgress
          BY <4>2 DEF InitializeConditionsIfNeeded, CheckPaused, MarkInProgress,
                      MarkRacksInProgress, PatchStage, cluster
        <4>3. CASE AddFinalizer \/ CreateHeadlessSvc \/ HandleFailedPods \/ CreateEmptyRack
          BY <4>3 DEF AddFinalizer, CreateHeadlessSvc, HandleFailedPods, CreateEmptyRack,
                      StageFails, StageWaits, StageSucceeds, cluster
        <4>4. ASSUME NEW op \in Ops, ClaimOperation(op) \/ RunOperation(op)
              PROVE  sts' = sts
          BY <4>4 DEF ClaimOperation, RunOperation, PatchStage, cluster
        <4>5. CASE \/ FailRackLoop \/ WaitForAllRacksReady \/ PostRackStages
                   \/ ReconcileAccessControl \/ EnsureSCRoster
          BY SMTT(30), <4>5
             DEF FailRackLoop, WaitForAllRacksReady, PostRackStages, ReconcileAccessControl,
                      EnsureSCRoster, StageFails, StageWaits, StageSucceeds, cluster
        <4>6. CASE UpdateStatus \/ RecoverIgnorablePods \/ FinishReconcile \/ Crash
          BY <4>6 DEF UpdateStatus, RecoverIgnorablePods, FinishReconcile, Crash,
                      EndPass, StageFails, StageSucceeds, cluster
        <4>7. CASE UserEdit \/ UserDelete \/ PodsCreate \/ PodsSettle \/ PodsFail \/ UNCHANGED vars
          BY <4>7
              DEF UserEdit, UserDelete, PodsCreate, PodsSettle, PodsFail, vars, cluster
        <4> QED BY <1>1, <2>3, <4>1, <4>2, <4>3, <4>4, <4>5, <4>6, <4>7 DEF Next, PassStep
      <3> QED BY <3>1
    <2> QED BY <2>1, <2>2, <2>3
  <1>2. TypeOK /\ BackedInv /\ [Next]_vars => [Guard]_vars
    BY <1>1
  <1> QED BY <1>2, TypeCorrect, BackedInvariance, PTL DEF Spec, RecreateOnlyFailedCreate

=============================================================================
