----------------------- MODULE RollingRollout_proofs -----------------------
(***************************************************************************)
(* What a rollout reaches: a cluster at rest runs what its status reports, *)
(* and a volume is wiped only when its pod no longer uses it.  The types   *)
(* and the steps of a pass are those of RollingRestart_proofs.             *)
(***************************************************************************)
EXTENDS RollingRestart_proofs
USE ZenonT(30)

-----------------------------------------------------------------------------
(* What a rollout has to reach *)

Conf(sp) == [s |-> sp.s, d |-> sp.d, w |-> sp.w]
Away(a) == a.server \in {"down", "pending"}
Near(a, sp) == a.s = sp.s /\ a.hash = sp.w /\ ~a.partial /\ (a.live = a.d \/ a.unsaved)
Fits(a, sp) == Near(a, sp) /\ a.d = sp.d
Placed(a, sp, image) == a.server = "down" \/ a.image \in {sp.image, image}

\* A pod that has what the ConfigMap of its rack says keeps it or gets it again.
LEMMA DriftKeeps ==
    ASSUME NEW p \in Pod, Drift(p), NEW sp, cm[RackOf(p)] = Conf(sp)
    PROVE  LET a == pods[p]
               b == pods'[p]
               image == sts[RackOf(p)].image
           IN /\ Placed(a, sp, image) => Placed(b, sp, image)
              /\ Fits(a, sp) => Fits(b, sp)
              /\ Near(a, sp) => Near(b, sp)
              /\ Away(a) => Away(b) \/ Fits(b, sp)
              /\ a.hash = sp.w => b.hash = sp.w
  <1> DEFINE a == pods[p]
             b == pods'[p]
             c == cm[RackOf(p)]
             image == sts[RackOf(p)].image
  <1>0. c.s = sp.s /\ c.d = sp.d /\ c.w = sp.w
    BY SMT DEF Conf
  <1> USE DEF SameServer, SameConf, SameLive, Placed, Fits, Near, Away
  <1>1. CASE SameServer(a, b)
    BY <1>1
  <1>2. CASE SameConf(a, b) /\ SameLive(a, b) /\ b.server = "down"
    BY <1>2
  <1>3. CASE SameConf(a, b) /\ b.live = b.d /\ a.server \in {"up", "failed"} /\ b.server \in {"up", "failed"}
    BY <1>3
  <1>4. CASE /\ a.server = "down" /\ b.server = "pending" /\ b.image = image /\ SameLive(a, b)
             /\ b.s = a.s /\ b.d = a.d /\ b.hash = a.hash /\ b.partial = a.partial
    BY <1>4
  <1>5. CASE /\ a.server \in {"down", "pending"} /\ b.server \in {"up", "failed"}
             /\ b.s = c.s /\ b.d = c.d /\ b.hash = c.w /\ b.live = b.d /\ ~b.partial
             /\ b.image = IF a.server = "pending" THEN a.image ELSE image
    BY <1>0, <1>5
  <1>6. CASE /\ a.server = "up" /\ b.server = "up" /\ b.hash = a.hash /\ b.image = a.image
             /\ b.s \in {a.s, c.s} /\ b.d = c.d /\ b.live = b.d /\ (b.partial => a.partial)
    BY <1>0, <1>6
  <1> QED BY <1>1, <1>2, <1>3, <1>4, <1>5, <1>6 DEF Drift

\* What a pass has not seen to the end is not in the file or is marked.
LEMMA DriftLive ==
    ASSUME NEW p \in Pod, Drift(p), LiveOk(pods[p])
    PROVE  LiveOk(pods'[p])
  BY DEF Drift, LiveOk, SameServer, SameConf, SameLive

\* What any step does to a pod.
LEMMA StepDrifts ==
    ASSUME TypeOK, AllSound, [Next]_vars, NEW q \in Pod
    PROVE  /\ Drift(q) \/ (pass' = Idle /\ queued' /\ LiveOk(pods'[q]))
           /\ \/ Cleaner(q)
              \/ /\ SetMFD /\ q \in Reached /\ pods'[q].server = pods[q].server /\ pods'[q].quiesced = pods[q].quiesced
                 /\ pods'[q].park = pods[q].park /\ pods'[q].mfd = pass.mfd
              \/ quiescePods /\ q \in pass.group
              \/ pass' = Idle /\ queued'
  <1>1. CASE Environment \/ UNCHANGED vars
    BY <1>1, EnvironmentDrifts
  <1>2. CASE PassStep
    BY <1>2, PassDrifts
  <1> QED BY <1>1, <1>2 DEF Next

\* Which steps write what.
SpecStays == status'.spec = status.spec /\ passed' = passed
QueueStays == queued' = queued \/ queued' = TRUE
UserStays == spec' = spec /\ undone' = undone

LEMMA Writes ==
    ASSUME TypeOK, [Next]_vars
    PROVE  /\ cm' = cm \/ updateSTSConfigMap
           /\ UNCHANGED <<sts, looks>> \/ upgradeOrRollingRestartRack \/ handleFailedPodsInRack
           /\ SpecStays \/ updateStatus \/ recoverIgnorablePods
           /\ QueueStays \/ Begin
           /\ UserStays \/ Edit \/ updateStatus
  <1> USE DEF cluster, history, outside, SpecStays, QueueStays, UserStays
  <1>1. CASE Edit \/ Interrupt \/ UNCHANGED vars
    BY <1>1 DEF Edit, Interrupt, Requeue, vars, looks
  <1>2. ASSUME NEW p \in Pod,
               \/ EvictionRequest(p) \/ PodStarts(p) \/ PodStartFails(p) \/ PodPends(p) \/ PodCrashes(p)
               \/ PodRecovers(p) \/ PodLost(p) \/ SaveCompletes(p) \/ ParkTimesOut(p)
        PROVE  cm' = cm /\ UNCHANGED <<sts, looks>> /\ SpecStays /\ QueueStays /\ UserStays
    BY <1>2 DEF EvictionRequest, PodStarts, PodStartFails, PodPends, PodCrashes, PodRecovers, PodLost,
                SaveCompletes, ParkTimesOut
  <1>3. CASE \/ Begin \/ (\E p \in Pod : pollAndDeleteParkedPods(p)) \/ handleFailedPodsForAllRacks
             \/ SetMFD \/ SetMFDFails \/ updateSTSConfigMap
    BY <1>3 DEF Begin, pollAndDeleteParkedPods, handleFailedPodsForAllRacks, SetMFD, SetMFDFails, updateSTSConfigMap,
                Continue, Requeue
  <1>4. CASE upgradeOrRollingRestartRack
    <2>1. UNCHANGED <<status, cm, passed>> /\ UserStays
      BY <1>4 DEF upgradeOrRollingRestartRack
    <2>2. QueueStays
      BY <1>4 DEF upgradeOrRollingRestartRack, Requeue
    <2> QED BY <1>4, <2>1, <2>2
  <1>5. CASE handleFailedPodsInRack
    <2>1. UNCHANGED <<status, cm, passed>> /\ UserStays
      BY <1>5 DEF handleFailedPodsInRack
    <2>2. QueueStays
      BY <1>5 DEF handleFailedPodsInRack, Requeue
    <2> QED BY <1>5, <2>1, <2>2
  <1>6. ASSUME NEW quick \in SUBSET Pod, NEW cold \in SUBSET Pod, updateOperationStatus(quick, cold)
        PROVE  status'.spec = status.spec
    BY <1>6, UpdateOperationStatusType
  <1>7. pass.done \in SUBSET Pod /\ {} \in SUBSET Pod /\ \A type : OfType(type) \in SUBSET Pod
    BY DEF TypeOK, PassType, OfType
  <1>8. CASE reconcileCheckpointingPods
    <2>1. cm' = cm /\ UNCHANGED <<sts, looks>> /\ passed' = passed /\ UserStays /\ updateOperationStatus({}, pass.done)
      BY <1>8 DEF reconcileCheckpointingPods
    <2>2. QueueStays
      BY <1>8 DEF reconcileCheckpointingPods, Requeue, Continue
    <2> QED BY <1>6, <1>7, <2>1, <2>2
  <1>9. CASE RecordRestarts
    <2>1. /\ cm' = cm /\ UNCHANGED <<sts, looks>> /\ passed' = passed /\ UserStays /\ queued' = queued
          /\ updateOperationStatus(OfType("quickRestart"), OfType("podRestart"))
      BY <1>9 DEF RecordRestarts
    <2> QED BY <1>6, <1>7, <2>1
  <1>10. CASE SaveMFD
    BY <1>10 DEF SaveMFD, Continue, TypeOK
  <1>11. CASE \/ SafeStop \/ waitForClusterStability \/ RaiseMFD \/ quiescePods \/ handleNSOrDeviceRemoval
              \/ \E p \in Pod : restartPods(p) \/ deletePodAndEnsureImageUpdated(p)
    BY <1>11 DEF SafeStop, waitForClusterStability, RaiseMFD, quiescePods, handleNSOrDeviceRemoval,
                 restartPods, deletePodAndEnsureImageUpdated, Continue, Requeue
  <1>12. CASE triggerIndexCheckpointSave
    BY <1>12 DEF triggerIndexCheckpointSave, Continue, Requeue
  <1>13. CASE ensurePodsRunningAndReady \/ ensurePodsImageUpdated \/ AfterBatch \/ updateDynamicConfig
    BY <1>13 DEF ensurePodsRunningAndReady, ensurePodsImageUpdated, BatchIsBack, AfterBatch, updateDynamicConfig,
                 Continue, Requeue
  <1>14. ASSUME NEW p \in Pod, setDynamicConfig(p)
         PROVE  cm' = cm /\ UNCHANGED <<sts, looks>> /\ SpecStays /\ QueueStays /\ UserStays
    BY <1>14 DEF setDynamicConfig, Requeue
  <1>15. CASE handleNSOrDeviceRemovalForIgnorablePods \/ NextRack \/ undoQuiesceState \/ revertMFDToConfig
    BY <1>15 DEF handleNSOrDeviceRemovalForIgnorablePods, NextRack, undoQuiesceState, revertMFDToConfig,
                 Continue, Requeue
  <1>16. CASE updateStatus \/ recoverIgnorablePods \/ waitForIgnorablePodsRecovery
    BY <1>16 DEF updateStatus, recoverIgnorablePods, waitForIgnorablePodsRecovery, Requeue
  <1> QED BY <1>1, <1>2, <1>3, <1>4, <1>5, <1>8, <1>9, <1>10, <1>11, <1>12, <1>13, <1>14, <1>15, <1>16
          DEF Next, PassStep, Environment

-----------------------------------------------------------------------------
(* What a rollout takes back *)

Clean(a) == a.server = "up" => ~a.quiesced /\ a.mfd = "config" /\ a.park = "no"
Joined(a) == a.server = "up" => ~a.quiesced /\ a.park = "no"

Late == {"next", "unquiesce", "revert", "finish", "recover"}
Rejoined == {"revert", "finish", "recover"}
Tidy == (Stage = "finish" /\ pass.pc # "setMFD") \/ Stage = "recover" \/ (Stage = "idle" /\ ~queued)
Reverting == Stage = "finish" /\ pass.pc = "setMFD"

\* undoQuiesceState and revertMFDToConfig reach all servers but the ignorable
\* ones, and those were not running when the pass chose them: they start with
\* nothing to take back.
CleanInv ==
    /\ Stage # "idle" => \A p \in pass.ignorable : Clean(pods[p])
    /\ Stage \in Late => pass.failed = {}
    /\ Stage \in Rejoined => \A p \in Pod : Joined(pods[p])
    /\ Reverting => pass.mfd = "config"
    /\ Tidy => \A p \in Pod : Clean(pods[p])

\* How a pass gets to its last steps.
CleanFlow ==
    /\ Stage' # "idle" => Begin \/ (Stage # "idle" /\ pass'.ignorable = pass.ignorable)
    /\ Stage' \in Late => pass'.failed = pass.failed /\ (Stage \in Late \/ pass.failed = {})
    /\ Stage' \in Rejoined => Stage \in Rejoined \/ undoQuiesceState
    /\ Reverting' => pass'.mfd = "config" \/ (Reverting /\ pass' = pass)
    /\ Tidy' => Tidy \/ (Reverting /\ SetMFD)

LEMMA CleanFlows ==
    ASSUME TypeOK, Resumes, [Next]_vars
    PROVE  CleanFlow
  <1> USE DEF CleanFlow, Late, Rejoined
  <1>0. Steps /\ pass \in PassType
    BY NextSteps DEF TypeOK
  <1>1. CASE Aside
    <2>1. QueueStays
      <3>1. Begin => pass' # pass
        BY BeginFacts DEF Stage
      <3> QED BY <1>1, <3>1, Writes DEF Aside
    <2>2. Stage' = Stage /\ pass'.pc = pass.pc
      BY <1>1 DEF Aside, Stage
    <2>3. ~queued' => ~queued
      BY <2>1, SMT DEF QueueStays, TypeOK
    <2>4. Tidy' => Tidy
      BY <2>2, <2>3 DEF Tidy
    <2> QED BY <1>1, <2>2, <2>4 DEF Aside, Reverting
  <1>2. CASE Begin
    BY <1>2, BeginFacts DEF Tidy, Reverting
  <1>3. CASE pass' = Idle /\ queued'
    <2>1. Stage' = "idle"
      BY <1>3, IdleFacts DEF Stage
    <2> QED BY <1>3, <2>1 DEF Tidy, Reverting
  <1>4. CASE pass' = Idle /\ (updateStatus \/ waitForIgnorablePodsRecovery)
    <2>1. Stage' = "idle" /\ Tidy
      BY <1>4, IdleFacts DEF Stage, Tidy, updateStatus, waitForIgnorablePodsRecovery, At
    <2> QED BY <2>1 DEF Reverting
  <1>5. CASE /\ Stage \notin {"idle"} \cup Late /\ Stage' \notin {"idle"} \cup Late
             /\ pass'.ignorable = pass.ignorable
    BY <1>5 DEF Tidy, Reverting
  <1>6. CASE \/ Opens \/ NextFailed \/ NoneFailed \/ SomeFailed
             \/ \E p \in Pod : pollAndDeleteParkedPods(p) \/ RestartsOne(p) \/ SetsOne(p)
    BY <1>5, <1>6, PollFacts DEF Opens, NextFailed, NoneFailed, SomeFailed, RestartsOne, SetsOne, Moves, Still, Kept
  <1>7. CASE SetMFD
    <2>1. pass'.pc = "saveMFD" /\ pass'.resume = pass.resume /\ pass.pc = "setMFD" /\ Kept
      BY <1>0, <1>7 DEF SetMFD, Continue, GoTo, At, PassType, Kept
    <2>2. Stage' = Stage /\ Stage \in {"rack", "stable", "quiesce", "finish"}
      BY <2>1 DEF Stage, Resumes
    <2> QED BY <1>7, <2>1, <2>2 DEF Tidy, Reverting, Kept
  <1>8. CASE SaveMFD
    <2>1. pass'.pc = pass.resume /\ pass.pc = "saveMFD" /\ Kept
      BY <1>0, <1>8 DEF SaveMFD, Continue, GoTo, At, PassType, Kept
    <2>2. Stage' = Stage /\ Stage = pass.resume /\ Stage \in {"rack", "stable", "quiesce", "finish"}
      BY <2>1 DEF Stage, Resumes
    <2> QED BY <1>8, <2>1, <2>2 DEF Tidy, Reverting, Kept
  <1>9. CASE upgradeOrRollingRestartRack
    <2>1. CASE \E listed : Planned(pass.rack, listed)
      BY <1>5, <1>9, <2>1, Plans DEF Planned, Batched, Kept, Stage
    <2> QED BY <1>3, <1>9, <2>1, Plans DEF Requeue
  <1>10. CASE handleFailedPodsInRack
    <2>1. CASE Kept /\ \E due : Batched(due)
      BY <1>5, <1>10, <2>1, Forces DEF Batched, Kept, Stage
    <2> QED BY <1>3, <1>10, <2>1, Forces DEF Requeue
  <1>11. CASE \/ Moves("rack", "plan") \/ Moves("stop", "stable") \/ Moves("stable", "raise") \/ Moves("raise", "quiesce")
              \/ Moves("quiesce", "removal") \/ Moves("checkpoint", "restart") \/ Moves("wait", "after")
              \/ Moves("dynamic", "ignored")
              \/ Marks(pass.group, "removal", IF pass.planned THEN "checkpoint" ELSE "restart")
              \/ Records \/ NextGroup \/ EndsBatch \/ GoesOn
    <2>1. CASE GoesOn
      BY <2>1 DEF GoesOn, Tidy, Reverting
    <2> QED BY <1>5, <1>11, <2>1 DEF Moves, Still, Kept, Marks, Records, NextGroup, EndsBatch
  <1>12. CASE \E ps : Marks(ps, "ignored", IF pass.failed # {} THEN "force" ELSE "next")
    BY <1>12 DEF Marks, Kept, Tidy, Reverting
  <1>13. CASE Moves("next", "unquiesce")
    BY <1>13 DEF Moves, Still, Kept, Tidy, Reverting
  <1>14. CASE undoQuiesceState /\ Moves("unquiesce", "revert")
    BY <1>14 DEF Moves, Still, Kept, Tidy, Reverting
  <1>15. CASE Moves("revert", "finish") /\ pass'.pc = "setMFD" /\ pass'.mfd = "config"
    BY <1>15 DEF Moves, Still, Kept, Tidy, Reverting
  <1>16. CASE Reports \/ Recovers
    <2>1. Stage' = "recover" /\ Kept /\ Stage \in {"finish", "recover"}
      BY <1>16 DEF Reports, Recovers
    <2>2. Tidy
      BY <1>16, <2>1 DEF Reports, Recovers, updateStatus, At, Tidy
    <2> QED BY <2>1, <2>2 DEF Kept, Reverting
  <1> QED BY <1>0, <1>1, <1>2, <1>3, <1>4, <1>6, <1>7, <1>8, <1>9, <1>10, <1>11, <1>12, <1>13, <1>14, <1>15, <1>16
          DEF Steps, Quits

LEMMA CleanerFacts ==
    ASSUME NEW p \in Pod, Cleaner(p)
    PROVE  /\ Clean(pods[p]) => Clean(pods'[p])
           /\ Joined(pods[p]) => Joined(pods'[p])
  BY DEF Cleaner, Clean, Joined

\* A pod that a pass overlooks is not running when the pass chooses it.
LEMMA ChosenFacts ==
    ASSUME Begin, NEW p \in Pod, p \in pass'.ignorable
    PROVE  pods'[p].server # "up"
  <1>1. PICK gone, chosen :
           /\ getIgnorablePods(Pod \ gone, chosen)
           /\ pass' = [Idle EXCEPT !.pc = "parked", !.spec = spec, !.seen = [q \in Pod |-> Recorded(q)],
                                   !.ignorable = chosen, !.group = {q \in Pod : pods[q].noted}]
    BY DEF Begin
  <1>2. RackOf(p) \in Rack /\ p \in Members(RackOf(p))
    BY RackOfPod
  <1>3. pass'.ignorable = chosen
    BY <1>1 DEF Idle
  <1>4. pods[p].server # "up"
    BY <1>1, <1>2, <1>3 DEF getIgnorablePods
  <1> QED BY <1>4, BeginFacts

LEMMA CleanInvKept ==
    ASSUME TypeOK, OutInv, CleanInv, [Next]_vars
    PROVE  CleanInv'
  <1>0. Resumes /\ AllSound /\ StageOut /\ CleanFlow
    BY CleanFlows DEF OutInv
  <1>1. ASSUME NEW q \in Pod
        PROVE  \/ Cleaner(q)
               \/ /\ SetMFD /\ q \in Reached /\ pods'[q].server = pods[q].server /\ pods'[q].quiesced = pods[q].quiesced
                  /\ pods'[q].park = pods[q].park /\ pods'[q].mfd = pass.mfd
               \/ quiescePods /\ q \in pass.group
               \/ pass' = Idle /\ queued'
    BY <1>0, StepDrifts
  <1>2. pass' = Idle => Stage' = "idle"
    BY IdleFacts DEF Stage
  <1>3. Stage' # "idle" => \A p \in pass'.ignorable : Clean(pods'[p])
    <2> SUFFICES ASSUME Stage' # "idle", NEW p \in pass'.ignorable PROVE Clean(pods'[p])
      OBVIOUS
    <2>0. p \in Pod
      <3>1. pass' \in PassType
        BY NextType DEF TypeOK
      <3> QED BY <3>1 DEF PassType
    <2>1. CASE Begin
      BY <2>0, <2>1, ChosenFacts DEF Clean
    <2>2. CASE Stage # "idle" /\ pass'.ignorable = pass.ignorable
      <3>1. Clean(pods[p]) /\ p \in pass.ignorable
        BY <2>2 DEF CleanInv
      <3>2. p \notin Reached
        BY <3>1 DEF Reached
      <3>3. quiescePods => p \notin pass.group
        BY <1>0, <3>1 DEF StageOut, InBatch, quiescePods, At, Stage
      <3> QED BY <1>1, <1>2, <2>0, <3>1, <3>2, <3>3, CleanerFacts
    <2> QED BY <1>0, <2>1, <2>2 DEF CleanFlow
  <1>4. Stage' \in Late => pass'.failed = {}
    BY <1>0 DEF CleanInv, CleanFlow
  <1>5. Stage' \in Rejoined => \A p \in Pod : Joined(pods'[p])
    <2> SUFFICES ASSUME Stage' \in Rejoined, NEW p \in Pod PROVE Joined(pods'[p])
      OBVIOUS
    <2>0. pass' # Idle
      BY <1>2 DEF Rejoined
    <2>1. CASE Stage \in Rejoined
      <3>1. Joined(pods[p]) /\ ~quiescePods
        BY <2>1 DEF CleanInv, Rejoined, quiescePods, At, Stage
      <3> QED BY <1>1, <2>0, <3>1, CleanerFacts DEF Joined
    <2>2. CASE undoQuiesceState
      <3>1. /\ Unreached = {} /\ \A q \in Reached : pods[q].park = "no"
            /\ pods' = [q \in Pod |-> [pods[q] EXCEPT !.quiesced = @ /\ q \notin Reached]]
        BY <2>0, <2>2 DEF undoQuiesceState, Requeue
      <3>2. Stage = "unquiesce"
        BY <2>2 DEF undoQuiesceState, At, Stage
      <3>3. pass.failed = {} /\ (p \in pass.ignorable => Clean(pods[p])) /\ ~pods[p].noted
        BY <1>0, <3>2 DEF CleanInv, StageOut, Late
      <3>4. pods[p].quiesced \in BOOLEAN /\ (p \notin Reached) \in BOOLEAN /\ pods[p] \in PodType
        BY SMT DEF TypeOK, PodType
      <3>5. LET b == [pods[p] EXCEPT !.quiesced = pods[p].quiesced /\ p \notin Reached]
            IN /\ SameServer(pods[p], b) /\ b.quiesced = (pods[p].quiesced /\ p \notin Reached)
               /\ b.mfd = pods[p].mfd /\ b.park = pods[p].park
        <4>1. (pods[p].quiesced /\ p \notin Reached) \in BOOLEAN
          BY <3>4
        <4> QED BY <3>4, <4>1, QuiesceFacts
      <3>6. pods'[p] = [pods[p] EXCEPT !.quiesced = pods[p].quiesced /\ p \notin Reached]
        BY <3>1
      <3>7. CASE p \in Reached
        BY <3>1, <3>5, <3>6, <3>7 DEF Joined
      <3>8. CASE p \in pass.ignorable
        BY <3>3, <3>5, <3>6, <3>8 DEF Joined, Clean, SameServer
      <3>9. CASE pods[p].server # "up"
        BY <3>5, <3>6, <3>9 DEF Joined, SameServer
      <3> QED BY <3>3, <3>7, <3>8, <3>9 DEF Reached
    <2> QED BY <1>0, <2>1, <2>2 DEF CleanFlow
  <1>6. Reverting' => pass'.mfd = "config"
    BY <1>0 DEF CleanInv, CleanFlow
  <1>7. Tidy' => \A p \in Pod : Clean(pods'[p])
    <2> SUFFICES ASSUME Tidy', NEW p \in Pod PROVE Clean(pods'[p])
      OBVIOUS
    <2>0. ~(pass' = Idle /\ queued')
      BY <1>2 DEF Tidy
    <2>1. CASE Tidy
      <3>1. Clean(pods[p]) /\ ~quiescePods
        BY <2>1 DEF CleanInv, Tidy, quiescePods, At, Stage
      <3>2. ~SetMFD
        BY <1>0, <2>1 DEF Tidy, SetMFD, At, Stage, Resumes
      <3> QED BY <1>1, <2>0, <3>1, <3>2, CleanerFacts
    <2>2. CASE Reverting /\ SetMFD
      <3>1. Stage = "finish" /\ Joined(pods[p]) /\ pass.mfd = "config" /\ pass.failed = {}
            /\ (p \in pass.ignorable => Clean(pods[p])) /\ ~pods[p].noted /\ ~quiescePods
        BY <1>0, <2>2 DEF Reverting, CleanInv, Rejoined, Late, StageOut, quiescePods, At, Stage
      <3>2. pods' = [q \in Pod |-> IF q \in Reached THEN [pods[q] EXCEPT !.mfd = pass.mfd] ELSE pods[q]]
        BY <2>2 DEF SetMFD
      <3>3. CASE p \in Reached
        <4>1. LET b == [pods[p] EXCEPT !.mfd = pass.mfd]
              IN SameServer(pods[p], b) /\ b.quiesced = pods[p].quiesced /\ b.park = pods[p].park /\ b.mfd = pass.mfd
          BY DelayFacts DEF TypeOK
        <4>2. pods'[p] = [pods[p] EXCEPT !.mfd = pass.mfd]
          BY <3>2, <3>3
        <4> QED BY <3>1, <4>1, <4>2 DEF Clean, Joined, SameServer
      <3>4. CASE p \notin Reached
        <4>1. pods'[p] = pods[p] /\ (p \in pass.ignorable \/ pods[p].server # "up")
          BY <3>1, <3>2, <3>4 DEF Reached
        <4> QED BY <3>1, <4>1 DEF Clean
      <3> QED BY <3>3, <3>4
    <2> QED BY <1>0, <2>1, <2>2 DEF CleanFlow
  <1> QED BY <1>3, <1>4, <1>5, <1>6, <1>7 DEF CleanInv

-----------------------------------------------------------------------------
(* What a pass has rolled out *)

Off == {"idle", "parked", "failed", "recover"}
Ends == {"unquiesce", "revert", "finish"}
Resting == Stage = "recover" \/ (Stage = "idle" /\ ~queued)

\* The racks a pass has done.
Behind(r) == Stage \in Ends \/ r < pass.rack \/ (r = pass.rack /\ Stage \in {"ignored", "next"})

\* How a pass gets from rack to rack.
RollFlow ==
    /\ Stage' \notin Off \cup {"rack"} =>
          updateSTSConfigMap \/ (Stage \notin Off \cup {"rack"} /\ pass'.rack = pass.rack /\ pass'.spec = pass.spec)
    /\ Stage' = "dynamic" => ~pass'.again \/ (Stage = "dynamic" /\ pass'.again = pass.again)
    /\ Resting' => Resting \/ updateStatus

LEMMA RollFlows ==
    ASSUME TypeOK, Resumes, [Next]_vars
    PROVE  RollFlow
  <1> USE DEF RollFlow, Off
  <1>0. Steps /\ pass \in PassType
    BY NextSteps DEF TypeOK
  <1>1. CASE Aside
    <2>1. QueueStays
      <3>1. Begin => pass' # pass
        BY BeginFacts DEF Stage
      <3> QED BY <1>1, <3>1, Writes DEF Aside
    <2>2. Stage' = Stage /\ pass' = pass
      BY <1>1 DEF Aside, Stage
    <2>3. ~queued' => ~queued
      BY <2>1, SMT DEF QueueStays, TypeOK
    <2>4. Resting' => Resting
      BY <2>2, <2>3 DEF Resting
    <2> QED BY <2>2, <2>4
  <1>2. CASE Begin
    BY <1>2, BeginFacts DEF Resting
  <1>3. CASE pass' = Idle /\ queued'
    <2>1. Stage' = "idle"
      BY <1>3, IdleFacts DEF Stage
    <2> QED BY <1>3, <2>1 DEF Resting
  <1>4. CASE pass' = Idle /\ (updateStatus \/ waitForIgnorablePodsRecovery)
    <2>1. Stage' = "idle" /\ (updateStatus \/ Resting)
      BY <1>4, IdleFacts DEF Stage, Resting, waitForIgnorablePodsRecovery, At
    <2> QED BY <2>1
  <1>5. CASE Stage' \in {"parked", "failed", "rack"}
    BY <1>5 DEF Resting
  <1>6. CASE \/ Opens \/ NextFailed \/ NoneFailed \/ SomeFailed \/ GoesOn \/ \E p \in Pod : pollAndDeleteParkedPods(p)
    BY <1>5, <1>6, PollFacts DEF Opens, NextFailed, NoneFailed, SomeFailed, GoesOn, Moves
  <1>7. CASE /\ Stage' \notin Off /\ Kept
             /\ Stage' = Stage \/ (Stage \notin Off \cup {"rack"} /\ Stage' # "dynamic")
             /\ pass'.again = pass.again \/ Stage' # "dynamic"
    BY <1>7 DEF Resting, Kept
  <1>8. CASE (SetMFD \/ SaveMFD) /\ Still /\ Stage' = Stage
    <2>1. Stage \in {"rack", "stable", "quiesce", "finish"}
      BY <1>8 DEF Stage, Resumes, SetMFD, SaveMFD, At
    <2> QED BY <1>7, <1>8, <2>1 DEF Still
  <1>9. CASE upgradeOrRollingRestartRack
    <2>1. CASE \E listed : Planned(pass.rack, listed)
      BY <1>7, <1>9, <2>1, Plans DEF Planned, Batched, Stage
    <2> QED BY <1>3, <1>9, <2>1, Plans DEF Requeue
  <1>10. CASE handleFailedPodsInRack
    <2>1. CASE Kept /\ \E due : Batched(due)
      BY <1>7, <1>10, <2>1, Forces DEF Batched, Stage
    <2> QED BY <1>3, <1>10, <2>1, Forces DEF Requeue
  <1>11. CASE updateSTSConfigMap /\ Moves("rack", "plan")
    BY <1>11 DEF Moves, Resting
  <1>12. CASE \/ Moves("stop", "stable") \/ Moves("stable", "raise") \/ Moves("raise", "quiesce")
              \/ Moves("quiesce", "removal") \/ Moves("checkpoint", "restart") \/ Moves("wait", "after")
              \/ Moves("dynamic", "ignored") \/ Moves("next", "unquiesce") \/ Moves("unquiesce", "revert")
              \/ Moves("revert", "finish")
    BY <1>7, <1>12 DEF Moves, Still
  <1>13. CASE \/ Marks(pass.group, "removal", IF pass.planned THEN "checkpoint" ELSE "restart")
              \/ \E ps : Marks(ps, "ignored", IF pass.failed # {} THEN "force" ELSE "next")
              \/ Records \/ NextGroup \/ \E p \in Pod : RestartsOne(p) \/ SetsOne(p)
    BY <1>7, <1>13 DEF Marks, Records, NextGroup, RestartsOne, SetsOne, SameBatch
  <1>14. CASE EndsBatch
    BY <1>14 DEF EndsBatch, Kept, Resting
  <1>15. CASE Reports \/ Recovers
    BY <1>15 DEF Reports, Recovers, Resting
  <1> QED BY <1>0, <1>1, <1>2, <1>3, <1>4, <1>6, <1>8, <1>9, <1>10, <1>11, <1>12, <1>13, <1>14, <1>15
          DEF Steps, Quits

\* How a rack comes to be done.
Rolls == \/ EndsBatch /\ pass.upgrade
         \/ updateDynamicConfig /\ Moves("dynamic", "ignored") /\ ConfPods \subseteq pass.done
BehindFlow ==
    Stage' \notin Off /\ pass'.failed = {} =>
        \/ \A r \in Rack : ~Behind(r)'
        \/ /\ Stage \notin Off /\ pass.failed = {} /\ pass'.spec = pass.spec /\ pass'.ignorable = pass.ignorable
           /\ \A r \in Rack : Behind(r)' => Behind(r) \/ (r = pass.rack /\ Rolls)

LEMMA BehindFlows ==
    ASSUME TypeOK, Resumes, [Next]_vars
    PROVE  BehindFlow
  <1> USE DEF BehindFlow, Off, Ends
  <1>0. Steps /\ pass \in PassType
    BY NextSteps DEF TypeOK
  <1>1. CASE Stage' \in Off \/ pass'.failed # {}
    BY <1>1
  <1>2. CASE Aside
    BY <1>2 DEF Aside, Stage, Behind
  <1>3. CASE Begin \/ pass' = Idle \/ (\E p \in Pod : pollAndDeleteParkedPods(p))
    BY <1>1, <1>3, BeginFacts, IdleFacts, PollFacts DEF Stage
  <1>4. CASE Opens \/ NextFailed \/ SomeFailed \/ Reports \/ Recovers
    BY <1>1, <1>4 DEF Opens, Moves, NextFailed, SomeFailed, Reports, Recovers
  <1>5. CASE NoneFailed
    <2>1. Stage' = "rack" /\ pass'.rack = 1
      BY <1>5 DEF NoneFailed
    <2>2. \A r \in Rack : ~(r < 1)
      BY SMT DEF Rack
    <2> QED BY <2>1, <2>2 DEF Behind
  <1>6. CASE /\ Stage \notin Off /\ Kept /\ Stage' \notin Off
             /\ Stage' \in {"ignored", "next"} => Stage \in {"ignored", "next"}
             /\ Stage' \in Ends => Stage \in Ends
    BY <1>6 DEF Kept, Behind
  <1>7. CASE (SetMFD \/ SaveMFD) /\ Still /\ Stage' = Stage
    <2>1. Stage \in {"rack", "stable", "quiesce", "finish"}
      BY <1>7 DEF Stage, Resumes, SetMFD, SaveMFD, At
    <2> QED BY <1>6, <1>7, <2>1 DEF Still
  <1>8. CASE upgradeOrRollingRestartRack
    <2>1. CASE \E listed : Planned(pass.rack, listed)
      BY <1>6, <1>8, <2>1, Plans DEF Planned, Batched, Stage
    <2> QED BY <1>3, <1>8, <2>1, Plans DEF Requeue
  <1>9. CASE handleFailedPodsInRack
    <2>1. CASE Kept /\ \E due : Batched(due)
      BY <1>6, <1>9, <2>1, Forces DEF Batched, Stage
    <2> QED BY <1>3, <1>9, <2>1, Forces DEF Requeue
  <1>10. CASE \/ Moves("rack", "plan") \/ Moves("stop", "stable") \/ Moves("stable", "raise") \/ Moves("raise", "quiesce")
              \/ Moves("quiesce", "removal") \/ Moves("checkpoint", "restart") \/ Moves("wait", "after")
              \/ Moves("unquiesce", "revert") \/ Moves("revert", "finish")
    BY <1>6, <1>10 DEF Moves, Still
  <1>11. CASE \/ Marks(pass.group, "removal", IF pass.planned THEN "checkpoint" ELSE "restart")
              \/ \E ps : Marks(ps, "ignored", IF pass.failed # {} THEN "force" ELSE "next")
              \/ Records \/ NextGroup \/ \E p \in Pod : RestartsOne(p) \/ SetsOne(p)
    BY <1>6, <1>11 DEF Marks, Records, NextGroup, RestartsOne, SetsOne
  <1>12. CASE EndsBatch
    <2>1. CASE ~pass.upgrade
      BY <1>6, <1>12, <2>1 DEF EndsBatch
    <2>2. CASE pass.upgrade
      <3>1. Stage = "after" /\ Stage' = "ignored" /\ Kept /\ Rolls
        BY <1>12, <2>2 DEF EndsBatch, Rolls
      <3> QED BY <3>1 DEF Kept, Behind
    <2> QED BY <2>1, <2>2
  <1>13. CASE updateDynamicConfig /\ Moves("dynamic", "ignored") /\ ConfPods \subseteq pass.done
    BY <1>13 DEF Moves, Still, Kept, Behind, Rolls
  <1>14. CASE GoesOn
    <2>1. /\ Stage = "next" /\ Stage' = "rack" /\ pass'.rack = pass.rack + 1 /\ pass'.failed = pass.failed
          /\ pass'.spec = pass.spec /\ pass'.ignorable = pass.ignorable
      BY <1>14 DEF GoesOn
    <2>2. pass.rack \in Rack
      BY <1>0 DEF PassType
    <2>3. \A r \in Rack : r < pass.rack + 1 => r < pass.rack \/ r = pass.rack
      BY <2>2, SMT DEF Rack
    <2> QED BY <2>1, <2>3 DEF Behind
  <1>15. CASE Moves("next", "unquiesce") /\ pass.rack = NumRacks
    <2>0. NumRacks \in Nat
      BY RollingAssumption
    <2>1. \A r \in Rack : r < NumRacks \/ r = NumRacks
      BY <2>0, SMT DEF Rack
    <2> QED BY <1>15, <2>1 DEF Moves, Still, Kept, Behind
  <1> QED BY <1>0, <1>2, <1>3, <1>4, <1>5, <1>7, <1>8, <1>9, <1>10, <1>11, <1>12, <1>13, <1>14, <1>15
          DEF Steps, Quits

\* Everything a rack should have once a pass is done with it.
Good(r, sp, ignored) ==
    /\ cm[r] = Conf(sp)
    /\ \A p \in Members(r) \ ignored :
          /\ Placed(pods[p], sp, sts[r].image)
          /\ p \notin upgraded \cup skipped => Away(pods[p]) \/ Fits(pods[p], sp)

GoodAfter(r, sp, ignored) ==
    /\ cm'[r] = Conf(sp)
    /\ \A p \in Members(r) \ ignored :
          /\ Placed(pods'[p], sp, sts'[r].image)
          /\ p \notin upgraded' \cup skipped' => Away(pods'[p]) \/ Fits(pods'[p], sp)

SameRack(r) ==
    /\ cm'[r] = cm[r] /\ sts'[r] = sts[r]
    /\ \A p \in Members(r) : (p \in upgraded' <=> p \in upgraded) /\ (p \in skipped' <=> p \in skipped)

\* A pass writes the ConfigMap and the StatefulSet of its own rack only.
LEMMA OtherRacks ==
    ASSUME TypeOK, [Next]_vars, NEW r \in Rack, Stage \in {"rack", "plan", "force"} => r # pass.rack
    PROVE  SameRack(r)
  <1>1. pass.rack \in Rack /\ cm \in [Rack -> [s : 0 .. 1, d : Nat, w : Nat]] /\ sts \in [Rack -> [w : Nat, image : Nat]]
    BY ThisRack DEF TypeOK
  <1>2. cm'[r] = cm[r]
    <2>1. CASE updateSTSConfigMap
      <3>1. r # pass.rack
        BY <2>1 DEF updateSTSConfigMap, At, Stage
      <3> QED BY <1>1, <2>1, <3>1 DEF updateSTSConfigMap
    <2> QED BY <2>1, Writes
  <1>3. \A p \in Members(r) : p \in Pod /\ (r # pass.rack => p \notin Members(pass.rack))
    BY <1>1, MembersArePods, RackOfPod
  <1>4. updateSTS(pass.rack) /\ r # pass.rack => sts'[r] = sts[r]
    BY <1>1 DEF updateSTS
  <1> DEFINE Same == /\ sts'[r] = sts[r]
                     /\ \A p \in Members(r) : /\ p \in upgraded' <=> p \in upgraded
                                              /\ p \in skipped' <=> p \in skipped
  <1>5. CASE UNCHANGED <<sts, looks>>
    <2>1. Same
      BY <1>5 DEF looks
    <2> QED BY <1>2, <2>1 DEF SameRack
  <1>6. CASE upgradeOrRollingRestartRack
    <2>1. r # pass.rack
      BY <1>6, Plans DEF Stage
    <2>2. CASE \E listed : Planned(pass.rack, listed)
      <3>1. sts'[r] = sts[r]
        BY <1>4, <2>1, <2>2 DEF Planned
      <3>2. /\ upgraded' = upgraded \cup Members(pass.rack) \/ upgraded' = upgraded \ Members(pass.rack)
            /\ \E P \in SUBSET Members(pass.rack) : skipped' = (skipped \ Members(pass.rack)) \cup P
        BY <2>2 DEF Planned
      <3>3. Same
        BY <1>3, <2>1, <3>1, <3>2
      <3> QED BY <1>2, <3>3 DEF SameRack
    <2> QED BY <1>5, <1>6, <2>2, Plans
  <1>7. CASE handleFailedPodsInRack
    <2>1. r # pass.rack
      BY <1>7, Forces DEF Stage
    <2>2. sts'[r] = sts[r] /\ UNCHANGED looks
      BY <1>4, <1>7, <2>1, Forces DEF history
    <2>3. Same
      BY <2>2 DEF looks
    <2> QED BY <1>2, <2>3 DEF SameRack
  <1> QED BY <1>5, <1>6, <1>7, Writes

LEMMA GoodKept ==
    ASSUME NEW r \in Rack, NEW sp, NEW ignored, Good(r, sp, ignored), SameRack(r),
           \A p \in Members(r) \ ignored : Drift(p)
    PROVE  GoodAfter(r, sp, ignored)
  <1>1. cm[r] = Conf(sp) /\ cm'[r] = Conf(sp) /\ sts'[r] = sts[r]
    BY DEF Good, SameRack
  <1>2. ASSUME NEW p \in Members(r) \ ignored
        PROVE  /\ Placed(pods'[p], sp, sts[r].image)
               /\ p \notin upgraded' \cup skipped' => Away(pods'[p]) \/ Fits(pods'[p], sp)
    <2>1. p \in Pod /\ RackOf(p) = r
      BY <1>2, MembersArePods, RackOfPod
    <2>2. Drift(p) /\ cm[RackOf(p)] = Conf(sp)
      BY <1>1, <1>2, <2>1
    <2>3. /\ Placed(pods[p], sp, sts[r].image) => Placed(pods'[p], sp, sts[r].image)
          /\ Fits(pods[p], sp) => Fits(pods'[p], sp)
          /\ Away(pods[p]) => Away(pods'[p]) \/ Fits(pods'[p], sp)
      BY <2>1, <2>2, DriftKeeps
    <2>4. p \in upgraded \cup skipped => p \in upgraded' \cup skipped'
      BY <1>2 DEF SameRack
    <2> QED BY <1>2, <2>3, <2>4 DEF Good
  <1> QED BY <1>1, <1>2 DEF GoodAfter

-----------------------------------------------------------------------------
(* What is left to do in a rack *)

First == {"stop", "stable", "raise", "quiesce", "removal", "checkpoint", "restart"}
Mid == First \cup {"record", "wait", "after", "dynamic"}
Working == Stage \in Mid /\ pass.failed = {} /\ ~pass.again

\* The pods still to restart, and those still to get their parameter.
Pending == IF Stage \in First THEN (pass.group \ pass.done) \cup pass.active
           ELSE IF Stage \in {"record", "wait"} THEN pass.active ELSE {}
ConfTodo(p) == pass.types[p] = "noRestartUpdateConf" /\ (Stage = "dynamic" => p \notin pass.done)

\* What a pass that will not come back to the rack makes of it.
WorkFlow ==
    Working' =>
        \/ upgradeOrRollingRestartRack
        \/ /\ Working /\ Kept /\ pass'.upgrade = pass.upgrade /\ pass'.types = pass.types
           /\ \/ Pending \subseteq Pending' /\ \A p \in Pod : ConfTodo(p) => ConfTodo(p)'
              \/ \E q \in Pod : /\ RestartsOne(q) /\ Pending \subseteq Pending' \cup {q}
                                /\ \A p \in Pod : ConfTodo(p) => ConfTodo(p)'
              \/ \E q \in Pod : /\ SetsOne(q) /\ Pending \subseteq Pending'
                                /\ \A p \in Pod : p # q /\ ConfTodo(p) => ConfTodo(p)'

LEMMA WorkFlows ==
    ASSUME TypeOK, Resumes, [Next]_vars
    PROVE  WorkFlow
  <1> USE DEF First, Mid
  <1>0. Steps /\ pass \in PassType
    BY NextSteps DEF TypeOK
  <1>1. CASE Stage' \notin Mid \/ pass'.again
    BY <1>1 DEF WorkFlow, Working
  <1>2. CASE Aside
    <2>1. pass' = pass /\ Stage' = Stage
      BY <1>2 DEF Aside, Stage
    <2>2. Pending' = Pending /\ \A p \in Pod : ConfTodo(p) => ConfTodo(p)'
      BY <2>1 DEF Pending, ConfTodo
    <2> QED BY <2>1, <2>2 DEF WorkFlow, Working, Kept
  <1>3. CASE Begin \/ pass' = Idle \/ (\E p \in Pod : pollAndDeleteParkedPods(p))
    BY <1>1, <1>3, BeginFacts, IdleFacts, PollFacts DEF Stage
  <1>4. CASE \/ Opens \/ NextFailed \/ NoneFailed \/ SomeFailed \/ Reports \/ Recovers \/ GoesOn
             \/ Moves("rack", "plan") \/ Moves("dynamic", "ignored") \/ Moves("next", "unquiesce")
             \/ Moves("unquiesce", "revert") \/ Moves("revert", "finish")
             \/ \E ps : Marks(ps, "ignored", IF pass.failed # {} THEN "force" ELSE "next")
    BY <1>1, <1>4 DEF Opens, Moves, NextFailed, NoneFailed, SomeFailed, Reports, Recovers, GoesOn, Marks
  <1>5. CASE upgradeOrRollingRestartRack
    BY <1>5 DEF WorkFlow
  <1>6. CASE handleFailedPodsInRack
    BY <1>1, <1>3, <1>6, Forces DEF Requeue
  <1>7. CASE /\ Kept /\ SameBatch /\ SameGroup /\ pass'.done = pass.done
             /\ (Stage \in First /\ Stage' \in First) \/ (Stage' = Stage /\ Stage # "dynamic")
    <2>1. Pending' = Pending /\ \A p \in Pod : ConfTodo(p) => ConfTodo(p)'
      BY <1>7 DEF Pending, ConfTodo, SameGroup, SameBatch
    <2> QED BY <1>7, <2>1 DEF WorkFlow, Working, Kept, SameBatch
  <1>8. CASE (SetMFD \/ SaveMFD) /\ Still /\ Stage' = Stage
    <2>1. Stage # "dynamic"
      BY <1>8 DEF Stage, Resumes, SetMFD, SaveMFD, At
    <2> QED BY <1>7, <1>8, <2>1 DEF Still
  <1>9. CASE \/ Moves("stop", "stable") \/ Moves("stable", "raise") \/ Moves("raise", "quiesce")
             \/ Moves("quiesce", "removal") \/ Moves("checkpoint", "restart")
             \/ Marks(pass.group, "removal", IF pass.planned THEN "checkpoint" ELSE "restart")
    BY <1>7, <1>9 DEF Moves, Still, Marks
  <1>10. CASE \E q \in Pod : RestartsOne(q)
    <2>1. PICK q \in Pod : RestartsOne(q)
      BY <1>10
    <2>2. /\ Stage = "restart" /\ Kept /\ SameBatch /\ SameGroup /\ pass'.done = pass.done \cup {q}
          /\ \/ Stage' = "restart"
             \/ Stage' \in {"record", "wait"} /\ pass.group = pass.done \cup {q}
      BY <2>1 DEF RestartsOne
    <2>3. Pending \subseteq Pending' \cup {q}
      BY <2>2 DEF Pending, SameGroup
    <2>4. \A p \in Pod : ConfTodo(p) => ConfTodo(p)'
      BY <2>2 DEF ConfTodo, SameBatch
    <2> QED BY <2>1, <2>2, <2>3, <2>4 DEF WorkFlow, Working, Kept, SameBatch
  <1>11. CASE Records
    <2>1. Pending' = Pending /\ \A p \in Pod : ConfTodo(p) => ConfTodo(p)'
      BY <1>11 DEF Records, Pending, ConfTodo, SameGroup, SameBatch
    <2> QED BY <1>11, <2>1 DEF Records, WorkFlow, Working, Kept, SameBatch
  <1>12. CASE NextGroup
    <2>1. pass'.done = {}
      <3>1. pass' # Idle /\ pass'.pc # "after"
        BY <1>12, IdleFacts DEF NextGroup, Stage
      <3>2. pass' = [pass EXCEPT !.group = pass.active, !.active = {}, !.planned = TRUE, !.done = {}, !.pc = "stop"]
        <4>1. pass' = [pass EXCEPT !.pc = "after"] => pass'.pc = "after"
          BY <1>0 DEF PassType
        <4> QED BY <1>12, <3>1, <4>1 DEF NextGroup, BatchIsBack, Requeue
      <3> QED BY <1>0, <3>2 DEF PassType
    <2>2. Pending' = Pending /\ \A p \in Pod : ConfTodo(p) => ConfTodo(p)'
      BY <1>12, <2>1 DEF NextGroup, Pending, ConfTodo, SameBatch
    <2> QED BY <1>12, <2>2 DEF NextGroup, WorkFlow, Working, Kept, SameBatch
  <1>13. CASE Moves("wait", "after") /\ pass.active = {}
    <2>1. Pending' = Pending /\ \A p \in Pod : ConfTodo(p) => ConfTodo(p)'
      BY <1>13 DEF Moves, Still, Pending, ConfTodo, SameBatch
    <2> QED BY <1>13, <2>1 DEF Moves, Still, WorkFlow, Working, Kept, SameBatch
  <1>14. CASE EndsBatch
    <2>1. Pending' = Pending /\ \A p \in Pod : ConfTodo(p) => ConfTodo(p)'
      BY <1>14 DEF EndsBatch, Pending, ConfTodo
    <2> QED BY <1>14, <2>1 DEF EndsBatch, WorkFlow, Working, Kept
  <1>15. CASE \E q \in Pod : SetsOne(q)
    <2>1. PICK q \in Pod : SetsOne(q)
      BY <1>15
    <2>2. Stage = "dynamic" /\ Stage' = "dynamic" /\ Kept /\ SameBatch /\ pass'.done = pass.done \cup {q}
      BY <2>1 DEF SetsOne
    <2>3. Pending \subseteq Pending' /\ \A p \in Pod : p # q /\ ConfTodo(p) => ConfTodo(p)'
      BY <2>2 DEF Pending, ConfTodo, SameBatch
    <2> QED BY <2>1, <2>2, <2>3 DEF WorkFlow, Working, Kept, SameBatch
  <1> QED BY <1>0, <1>2, <1>3, <1>4, <1>5, <1>6, <1>8, <1>9, <1>10, <1>11, <1>12, <1>13, <1>14, <1>15
          DEF Steps, Quits

\* A pod of the rack has what it should have, or its turn is still to come: a
\* pod restart brings it there, a warm restart if its pod spec is the right
\* one, and setDynamicConfig if only the parameter is missing.
Due(p) ==
    /\ Placed(pods[p], pass.spec, sts[pass.rack].image) \/ (p \in Pending /\ pass.upgrade)
    /\ p \notin upgraded \cup skipped =>
          \/ Away(pods[p]) \/ Fits(pods[p], pass.spec)
          \/ p \in Pending /\ (pass.types[p] = "podRestart" \/ pods[p].hash = pass.spec.w)
          \/ ConfTodo(p) /\ Near(pods[p], pass.spec)

WorkInv ==
    Working => /\ pass.upgrade => Members(pass.rack) \subseteq upgraded
               /\ \A p \in Members(pass.rack) \ pass.ignorable : Due(p)

LEMMA DueKept ==
    ASSUME TypeOK, NEW p \in Members(pass.rack), cm[pass.rack] = Conf(pass.spec), SameRack(pass.rack), Drift(p),
           Kept, pass'.upgrade = pass.upgrade, pass'.types = pass.types, Due(p)
    PROVE  /\ (p \in Pending => p \in Pending') /\ (ConfTodo(p) => ConfTodo(p)') => Due(p)'
           /\ p \notin Pending \/ ~pass.upgrade => Placed(pods'[p], pass.spec, sts[pass.rack].image)
           /\ Fits(pods[p], pass.spec) => Fits(pods'[p], pass.spec)
  <1>1. p \in Pod /\ RackOf(p) = pass.rack
    BY ThisRack, RackOfPod
  <1>2. /\ Placed(pods[p], pass.spec, sts[pass.rack].image) => Placed(pods'[p], pass.spec, sts[pass.rack].image)
        /\ Fits(pods[p], pass.spec) => Fits(pods'[p], pass.spec)
        /\ Near(pods[p], pass.spec) => Near(pods'[p], pass.spec)
        /\ Away(pods[p]) => Away(pods'[p]) \/ Fits(pods'[p], pass.spec)
        /\ pods[p].hash = pass.spec.w => pods'[p].hash = pass.spec.w
    BY <1>1, DriftKeeps
  <1>3. /\ pass'.spec = pass.spec /\ pass'.rack = pass.rack /\ sts'[pass.rack] = sts[pass.rack]
        /\ p \in upgraded \cup skipped => p \in upgraded' \cup skipped'
    BY DEF Kept, SameRack
  <1>4. ASSUME p \in Pending => p \in Pending', ConfTodo(p) => ConfTodo(p)'
        PROVE  Due(p)'
    BY <1>2, <1>3, <1>4 DEF Due
  <1> QED BY <1>2, <1>4 DEF Due

\* The restart of a pod brings it where it should be.
LEMMA RestartedDue ==
    ASSUME TypeOK, NEW q \in Members(pass.rack), RestartsOne(q), pass' # Idle, cm[pass.rack] = Conf(pass.spec),
           SameRack(pass.rack), Drift(q), Due(q)
    PROVE  Due(q)'
  <1>0. q \in Pod /\ RackOf(q) = pass.rack /\ pods[q] \in PodType
    <2>1. q \in Pod /\ RackOf(q) = pass.rack
      BY ThisRack, RackOfPod
    <2> QED BY <2>1 DEF TypeOK
  <1>1. /\ Kept /\ pass'.upgrade = pass.upgrade /\ pass'.types = pass.types
        /\ restartPods(q) \/ deletePodAndEnsureImageUpdated(q)
    BY DEF RestartsOne, SameBatch
  <1>2. \/ SetPod(q, [Down(pods[q]) EXCEPT !.out = pass.planned])
        \/ SetPod(q, restartASD(q)) /\ ~pass.upgrade /\ pass.types[q] = "quickRestart" /\ pods[q].server = "up"
    BY <1>1 DEF restartPods, deletePodAndEnsureImageUpdated, Requeue
  <1>3. /\ pass'.spec = pass.spec /\ pass'.rack = pass.rack /\ sts'[pass.rack] = sts[pass.rack]
        /\ q \in upgraded \cup skipped => q \in upgraded' \cup skipped'
    BY <1>1 DEF Kept, SameRack
  <1>4. CASE SetPod(q, [Down(pods[q]) EXCEPT !.out = pass.planned])
    <2>1. pods'[q] = [Down(pods[q]) EXCEPT !.out = pass.planned]
      BY <1>0, <1>4 DEF SetPod, TypeOK
    <2>2. pods'[q].server = "down"
      BY <1>0, <2>1, DownFacts
    <2> QED BY <2>2 DEF Due, Placed, Away
  <1>5. CASE SetPod(q, restartASD(q)) /\ ~pass.upgrade /\ pass.types[q] = "quickRestart" /\ pods[q].server = "up"
    <2>1. pods'[q] = restartASD(q)
      BY <1>0, <1>5 DEF SetPod, TypeOK
    <2>2. LET b == pods'[q]
          IN b.s = cm[pass.rack].s /\ b.d = cm[pass.rack].d /\ b.hash = pods[q].hash /\ b.live = b.d /\ ~b.partial
      BY <1>0, <2>1, ASDFacts
    <2>3. cm[pass.rack].s = pass.spec.s /\ cm[pass.rack].d = pass.spec.d
      BY SMT DEF Conf
    <2>4. pods[q].hash = pass.spec.w => Fits(pods'[q], pass.spec)
      BY <2>2, <2>3 DEF Fits, Near
    <2>5. /\ Placed(pods'[q], pass.spec, sts[pass.rack].image)
          /\ Fits(pods[q], pass.spec) => Fits(pods'[q], pass.spec)
      BY <1>1, <1>5, DueKept
    <2>6. ~Away(pods[q]) /\ ~ConfTodo(q) /\ pass.types[q] # "podRestart"
      BY <1>5 DEF Away, ConfTodo
    <2>7. q \notin upgraded \cup skipped => Fits(pods'[q], pass.spec)
      BY <2>4, <2>5, <2>6 DEF Due
    <2> QED BY <1>3, <2>5, <2>7 DEF Due
  <1> QED BY <1>2, <1>4, <1>5

\* setDynamicConfig gives a pod the parameter that it lacks.
LEMMA SetDue ==
    ASSUME TypeOK, NEW q \in Members(pass.rack), SetsOne(q), cm[pass.rack] = Conf(pass.spec),
           SameRack(pass.rack), Drift(q), Due(q)
    PROVE  Due(q)'
  <1>0. q \in Pod /\ RackOf(q) = pass.rack /\ pods[q] \in PodType /\ cm[pass.rack].d \in Nat
    <2>1. q \in Pod /\ RackOf(q) = pass.rack /\ pass.rack \in Rack
      BY ThisRack, RackOfPod
    <2> QED BY <2>1 DEF TypeOK
  <1>1. /\ Kept /\ pass'.upgrade = pass.upgrade /\ pass'.types = pass.types /\ Stage = "dynamic"
        /\ SetPod(q, [pods[q] EXCEPT !.live = cm[pass.rack].d, !.d = cm[pass.rack].d, !.unsaved = FALSE])
        /\ pods[q].server = "up"
    BY <1>0 DEF SetsOne, SameBatch, setDynamicConfig, Reached
  <1>2. pods'[q] = [pods[q] EXCEPT !.live = cm[pass.rack].d, !.d = cm[pass.rack].d, !.unsaved = FALSE]
    BY <1>0, <1>1 DEF SetPod, TypeOK
  <1>3. LET b == [pods[q] EXCEPT !.live = cm[pass.rack].d, !.d = cm[pass.rack].d, !.unsaved = FALSE]
        IN /\ b.s = pods[q].s /\ b.hash = pods[q].hash /\ b.partial = pods[q].partial
           /\ b.d = cm[pass.rack].d /\ b.live = cm[pass.rack].d
    BY <1>0, SetFacts
  <1>4. cm[pass.rack].d = pass.spec.d
    BY SMT DEF Conf
  <1>5. Near(pods[q], pass.spec) => Fits(pods'[q], pass.spec)
    BY <1>2, <1>3, <1>4 DEF Near, Fits
  <1>6. q \notin Pending /\ ~Away(pods[q])
    BY <1>1 DEF Pending, First, Away
  <1>7. /\ Placed(pods'[q], pass.spec, sts[pass.rack].image)
        /\ Fits(pods[q], pass.spec) => Fits(pods'[q], pass.spec)
    BY <1>1, <1>6, DueKept
  <1>8. q \notin upgraded \cup skipped => Fits(pods'[q], pass.spec)
    BY <1>5, <1>6, <1>7 DEF Due
  <1>9. /\ pass'.spec = pass.spec /\ pass'.rack = pass.rack /\ sts'[pass.rack] = sts[pass.rack]
        /\ q \in upgraded \cup skipped => q \in upgraded' \cup skipped'
    BY <1>1 DEF Kept, SameRack
  <1> QED BY <1>7, <1>8, <1>9 DEF Due

\* mergeRestartType takes the stronger of two restarts.
LEMMA MergeFacts ==
    ASSUME NEW a \in RestartTypes, NEW b \in RestartTypes
    PROVE  LET m == mergeRestartType(a, b)
           IN /\ m \in RestartTypes
              /\ m = "noRestart" => a = "noRestart" /\ b = "noRestart"
              /\ m = "noRestartUpdateConf" => a \in {"noRestart", "noRestartUpdateConf"}
                                              /\ b \in {"noRestart", "noRestartUpdateConf"}
              /\ m = "quickRestart" => a # "podRestart" /\ b # "podRestart"
  BY SMT DEF RestartTypes, mergeRestartType, Rank

\* What the restart type of a pod says of what is recorded of it.
LEMMA TypeFacts ==
    ASSUME TypeOK, NEW p \in Pod, NEW conf
    PROVE  LET t == getRollingRestartTypePod(p, conf)
               seen == pass.seen[p]
           IN /\ t = "noRestart" => seen.s = conf.s /\ seen.d = conf.d /\ seen.hash = conf.w /\ ~seen.partial
              /\ t = "noRestartUpdateConf" => seen.s = conf.s /\ seen.hash = conf.w /\ ~seen.partial
              /\ t = "quickRestart" => seen.hash = conf.w
              /\ t \in RestartTypes
  <1> DEFINE seen     == pass.seen[p]
             confType == IF seen.s = conf.s /\ seen.d = conf.d THEN "noRestart"
                         ELSE IF getNSAddedDevices THEN handleNSOrDeviceAddition(p)
                         ELSE IF isAllDynamicConfig(p, conf) THEN "noRestartUpdateConf"
                         ELSE "quickRestart"
             podType  == IF seen.hash # conf.w THEN "podRestart" ELSE "noRestart"
             backType == IF seen.partial THEN "quickRestart" ELSE "noRestart"
             opType   == onDemandOperationType(p)
             one      == mergeRestartType(confType, podType)
             two      == mergeRestartType(opType, backType)
  <1>1. getRollingRestartTypePod(p, conf) = mergeRestartType(one, two)
    BY DEF getRollingRestartTypePod
  <1>2. /\ confType \in RestartTypes /\ podType \in RestartTypes /\ backType \in RestartTypes /\ opType \in RestartTypes
        /\ confType = "noRestart" => seen.s = conf.s /\ seen.d = conf.d
        /\ confType = "noRestartUpdateConf" => seen.s = conf.s
        /\ podType # "podRestart" => seen.hash = conf.w
        /\ backType # "quickRestart" => ~seen.partial
    BY DEF RestartTypes, handleNSOrDeviceAddition, isAllDynamicConfig, onDemandOperationType
  <1> HIDE DEF confType, podType, backType, opType
  <1>3. one \in RestartTypes /\ two \in RestartTypes
    BY <1>2, MergeFacts
  <1>4. /\ one = "noRestart" => confType = "noRestart" /\ podType = "noRestart"
        /\ one = "noRestartUpdateConf" => /\ confType \in {"noRestart", "noRestartUpdateConf"}
                                          /\ podType \in {"noRestart", "noRestartUpdateConf"}
        /\ one = "quickRestart" => podType # "podRestart"
    BY <1>2, MergeFacts
  <1>5. /\ two = "noRestart" => backType = "noRestart"
        /\ two = "noRestartUpdateConf" => backType \in {"noRestart", "noRestartUpdateConf"}
    BY <1>2, MergeFacts
  <1> DEFINE m == mergeRestartType(one, two)
  <1> HIDE DEF one, two
  <1>6. /\ m \in RestartTypes
        /\ m = "noRestart" => one = "noRestart" /\ two = "noRestart"
        /\ m = "noRestartUpdateConf" => one \in {"noRestart", "noRestartUpdateConf"}
                                        /\ two \in {"noRestart", "noRestartUpdateConf"}
        /\ m = "quickRestart" => one # "podRestart"
    BY <1>3, MergeFacts
  <1>7. one \in {"noRestart", "noRestartUpdateConf", "quickRestart"} => podType # "podRestart"
    BY <1>4
  <1> HIDE DEF m
  <1>8. /\ m = "noRestart" => seen.s = conf.s /\ seen.d = conf.d /\ seen.hash = conf.w /\ ~seen.partial
        /\ m = "noRestartUpdateConf" => seen.s = conf.s /\ seen.hash = conf.w /\ ~seen.partial
    BY <1>2, <1>4, <1>5, <1>6
  <1>9. m = "quickRestart" => seen.hash = conf.w
    BY <1>2, <1>3, <1>6, <1>7 DEF RestartTypes
  <1> QED BY <1>1, <1>6, <1>8, <1>9 DEF m

\* A pod whose recorded state calls for no more has what the ConfigMap says.
LEMMA JudgedFacts ==
    ASSUME TypeOK, NEW p \in Pod, NEW sp, NEW conf, conf = Conf(sp), LiveOk(pods[p]),
           NEW t, t = getRollingRestartTypePod(p, conf), ~PassedOver(p, t)
    PROVE  /\ t = "noRestart" => Fits(pods[p], sp)
           /\ t = "noRestartUpdateConf" => Near(pods[p], sp)
           /\ t = "quickRestart" => pods[p].hash = sp.w
           /\ t \in RestartTypes
  <1>1. conf.s = sp.s /\ conf.d = sp.d /\ conf.w = sp.w
    BY SMT DEF Conf
  <1>2. /\ t = "noRestart" => /\ pass.seen[p].s = conf.s /\ pass.seen[p].d = conf.d /\ pass.seen[p].hash = conf.w
                              /\ ~pass.seen[p].partial
        /\ t = "noRestartUpdateConf" => /\ pass.seen[p].s = conf.s /\ pass.seen[p].hash = conf.w
                                        /\ ~pass.seen[p].partial
        /\ t = "quickRestart" => pass.seen[p].hash = conf.w
        /\ t \in RestartTypes
    BY TypeFacts
  <1>3. t \in {"noRestart", "noRestartUpdateConf"} => pass.seen[p] = Recorded(p)
    BY DEF PassedOver
  <1>4. LET R == Recorded(p)
        IN R.s = pods[p].s /\ R.d = pods[p].d /\ R.hash = pods[p].hash /\ R.partial = pods[p].partial
    BY SMT DEF Recorded
  <1>5. t = "quickRestart" => pass.seen[p].hash = pods[p].hash
    BY DEF PassedOver
  <1> QED BY <1>1, <1>2, <1>3, <1>4, <1>5 DEF Fits, Near, LiveOk

\* The look at a rack finds all that is missing there.
LEMMA PlanWorks ==
    ASSUME TypeOK, upgradeOrRollingRestartRack, Working', cm[pass.rack] = Conf(pass.spec),
           \A p \in Pod : LiveOk(pods[p])
    PROVE  /\ Kept /\ (pass'.upgrade => Members(pass.rack) \subseteq upgraded')
           /\ \A p \in Members(pass.rack) \ pass.ignorable : Due(p)'
  <1> DEFINE r == pass.rack
  <1>0. UNCHANGED <<cm, pods>> /\ r \in Rack /\ Members(r) \subseteq Pod
    BY Plans, ThisRack
  <1>1. ~Requeue
    BY IdleFacts DEF Requeue, Working, Mid, First, Stage
  <1>2. PICK listed \in getRackPodList(r) : Planned(r, listed)
    BY <1>1, Plans
  <1> DEFINE types == getRollingRestartTypeMap(r, listed)
             due == PlanDue(r, listed)
  <1>3. /\ Kept /\ pass'.upgrade = isRackUpgradeNeeded(listed) /\ pass'.types = PlanTypes(r, listed) /\ Batched(due)
        /\ upgraded' = IF pass'.upgrade THEN upgraded \cup Members(r) ELSE upgraded \ Members(r)
        /\ skipped' = (skipped \ Members(r)) \cup {p \in Members(r) : PassedOver(p, types[p])}
    BY <1>2 DEF Planned
  <1>4. pass'.rack = r /\ pass'.spec = pass.spec /\ pass.failed = {} /\ ~pass'.again
    BY <1>3 DEF Kept, Working
  <1>5. Scope(listed) = listed \ pass.ignorable
    BY <1>4 DEF Scope
  <1>6. Pending' = due /\ Stage' # "dynamic"
    <2>1. /\ pass'.pc \in {"removal", "stop", "after"} /\ pass'.done = {}
          /\ IF pass'.pc = "after" THEN due = {} ELSE pass'.group \cup pass'.active = due
      BY <1>3, <1>4 DEF Batched
    <2>2. Stage' = pass'.pc
      BY <2>1 DEF Stage
    <2> HIDE DEF due
    <2> QED BY <2>1, <2>2 DEF Pending, First
  <1>7. listed \subseteq Members(r) /\ \A p \in Members(r) \ listed : pods[p].server = "down"
    BY <1>2 DEF getRackPodList
  <1>8. pass'.upgrade => Members(r) \subseteq upgraded'
    BY <1>3
  <1>9. ASSUME NEW p \in Members(r) \ pass.ignorable
        PROVE  Due(p)'
    <2>0. p \in Pod /\ pods'[p] = pods[p] /\ LiveOk(pods[p]) /\ p \in Members(r)
      BY <1>0, <1>9
    <2>1. CASE p \notin listed
      BY <1>7, <1>9, <2>0, <2>1 DEF Due, Placed, Away
    <2>2. CASE p \in listed /\ isRackUpgradeNeeded(listed)
      <3>1. p \in upgraded'
        BY <1>3, <1>9, <2>2
      <3>2. pods[p].image # pass.spec.image => p \in Pending'
        BY <1>5, <1>6, <1>9, <2>2 DEF PlanDue, isPodOnDesiredImage
      <3> QED BY <1>3, <1>4, <2>0, <2>2, <3>1, <3>2 DEF Due, Placed
    <2>3. CASE p \in listed /\ ~isRackUpgradeNeeded(listed)
      <3>1. pods[p].image = pass.spec.image
        BY <1>9, <2>3 DEF isRackUpgradeNeeded, isPodOnDesiredImage
      <3>2. pass'.types = types /\ due = (listed \ pass.ignorable) \cap getRollingRestartInfo(types)
        BY <1>3, <1>5, <2>3 DEF PlanTypes, PlanDue
      <3>3. types[p] = getRollingRestartTypePod(p, cm[r])
        BY <1>4, <1>9, <2>0, <2>3 DEF getRollingRestartTypeMap
      <3>4. CASE p \in skipped'
        BY <1>4, <2>0, <3>1, <3>4 DEF Due, Placed
      <3>5. CASE p \notin skipped'
        <4>1. ~PassedOver(p, types[p])
          BY <1>3, <2>0, <3>5
        <4> HIDE DEF types
        <4>2. /\ types[p] = "noRestart" => Fits(pods[p], pass.spec)
              /\ types[p] = "noRestartUpdateConf" => Near(pods[p], pass.spec)
              /\ types[p] = "quickRestart" => pods[p].hash = pass.spec.w
              /\ types[p] \in RestartTypes
          BY <2>0, <3>3, <4>1, JudgedFacts
        <4>3. types[p] \in {"quickRestart", "podRestart"} => p \in Pending'
          BY <1>6, <1>9, <2>0, <2>3, <3>2 DEF getRollingRestartInfo
        <4>4. types[p] = "noRestartUpdateConf" => ConfTodo(p)'
          BY <1>6, <3>2 DEF ConfTodo
        <4>5. Placed(pods'[p], pass'.spec, sts'[pass'.rack].image)
          BY <1>4, <2>0, <3>1 DEF Placed
        <4>6. \/ Fits(pods'[p], pass'.spec)
              \/ p \in Pending' /\ (pass'.types[p] = "podRestart" \/ pods'[p].hash = pass'.spec.w)
              \/ ConfTodo(p)' /\ Near(pods'[p], pass'.spec)
          BY <1>4, <2>0, <3>2, <4>2, <4>3, <4>4 DEF RestartTypes
        <4> QED BY <4>5, <4>6 DEF Due
      <3> QED BY <3>4, <3>5
    <2> QED BY <2>1, <2>2, <2>3
  <1> QED BY <1>3, <1>8, <1>9

-----------------------------------------------------------------------------
(* The inductive invariant *)

LiveInv == \A p \in Pod : LiveOk(pods[p])
ConfInv == /\ Stage \notin Off \cup {"rack"} => cm[pass.rack] = Conf(pass.spec)
           /\ Stage = "dynamic" => ~pass.again
BehindInv == Stage \notin Off /\ pass.failed = {} =>
                \A r \in Rack : Behind(r) => Good(r, pass.spec, pass.ignorable)
RestInv == Resting => \A r \in Rack : Good(r, status.spec, passed)

RollInv == LiveInv /\ ConfInv /\ WorkInv /\ BehindInv /\ RestInv

LEMMA ConfInvKept ==
    ASSUME TypeOK, Resumes, ConfInv, [Next]_vars
    PROVE  ConfInv'
  <1>0. RollFlow /\ pass.rack \in Rack /\ cm \in [Rack -> [s : 0 .. 1, d : Nat, w : Nat]]
    BY RollFlows, ThisRack DEF TypeOK
  <1>1. ASSUME Stage' \notin Off \cup {"rack"} PROVE cm'[pass'.rack] = Conf(pass'.spec)
    <2>1. CASE updateSTSConfigMap
      <3>1. pass'.rack = pass.rack /\ pass'.spec = pass.spec
        BY <2>1, GoFacts DEF updateSTSConfigMap, Continue, Kept, Still, PCs, TypeOK
      <3>2. cm'[pass.rack] = Conf(pass.spec)
        BY <1>0, <2>1 DEF updateSTSConfigMap, Conf
      <3> QED BY <3>1, <3>2
    <2>2. CASE Stage \notin Off \cup {"rack"} /\ pass'.rack = pass.rack /\ pass'.spec = pass.spec /\ ~updateSTSConfigMap
      BY <2>2, Writes DEF ConfInv
    <2> QED BY <1>0, <1>1, <2>1, <2>2 DEF RollFlow
  <1>2. Stage' = "dynamic" => ~pass'.again
    BY <1>0 DEF RollFlow, ConfInv
  <1> QED BY <1>1, <1>2 DEF ConfInv

LEMMA WorkInvKept ==
    ASSUME TypeOK, OutInv, LiveInv, ConfInv, WorkInv, [Next]_vars
    PROVE  WorkInv'
  <1> SUFFICES ASSUME Working'
               PROVE  /\ pass'.upgrade => Members(pass'.rack) \subseteq upgraded'
                      /\ \A p \in Members(pass'.rack) \ pass'.ignorable : Due(p)'
    BY DEF WorkInv
  <1>0. Resumes /\ AllSound /\ WorkFlow /\ pass.rack \in Rack /\ Members(pass.rack) \subseteq Pod
    BY WorkFlows, ThisRack DEF OutInv
  <1>1. pass' # Idle
    BY IdleFacts DEF Working, Mid, First, Stage
  <1>2. \A p \in Pod : Drift(p)
    BY <1>0, <1>1, StepDrifts
  <1>3. CASE upgradeOrRollingRestartRack
    <2>1. cm[pass.rack] = Conf(pass.spec)
      BY <1>3, Plans DEF ConfInv, Off, Stage
    <2>2. /\ Kept /\ (pass'.upgrade => Members(pass.rack) \subseteq upgraded')
          /\ \A p \in Members(pass.rack) \ pass.ignorable : Due(p)'
      BY <1>3, <2>1, PlanWorks DEF LiveInv
    <2> QED BY <2>2 DEF Kept
  <1>4. CASE Working /\ Kept /\ pass'.upgrade = pass.upgrade /\ pass'.types = pass.types /\ ~upgradeOrRollingRestartRack
    <2>1. cm[pass.rack] = Conf(pass.spec) /\ SameRack(pass.rack)
      <3>1. Stage \notin Off \cup {"rack"} /\ Stage \notin {"rack", "plan", "force"}
        BY <1>4 DEF Working, Mid, First, Off
      <3> QED BY <1>0, <3>1, OtherRacks DEF ConfInv
    <2>2. /\ pass.upgrade => Members(pass.rack) \subseteq upgraded
          /\ \A p \in Members(pass.rack) \ pass.ignorable : Due(p)
      BY <1>4 DEF WorkInv
    <2>3. pass'.upgrade => Members(pass'.rack) \subseteq upgraded'
      BY <1>4, <2>1, <2>2 DEF Kept, SameRack
    <2>4. ASSUME NEW p \in Members(pass.rack) \ pass.ignorable
          PROVE  Due(p)'
      <3>0. p \in Pod /\ p \in Members(pass.rack) /\ Due(p) /\ Drift(p)
        BY <1>0, <1>2, <2>2, <2>4
      <3>1. (p \in Pending => p \in Pending') /\ (ConfTodo(p) => ConfTodo(p)') => Due(p)'
        BY <1>4, <2>1, <3>0, DueKept
      <3>2. CASE RestartsOne(p)
        BY <1>1, <2>1, <3>0, <3>2, RestartedDue
      <3>3. CASE SetsOne(p)
        BY <2>1, <3>0, <3>3, SetDue
      <3>4. CASE ~RestartsOne(p) /\ ~SetsOne(p)
        BY <1>0, <1>4, <3>0, <3>1, <3>4 DEF WorkFlow
      <3> QED BY <3>2, <3>3, <3>4
    <2> QED BY <1>4, <2>3, <2>4 DEF Kept
  <1> QED BY <1>0, <1>3, <1>4 DEF WorkFlow

\* A pass leaves a rack only when nothing is left to do in it.
LEMMA RolledNow ==
    ASSUME TypeOK, ConfInv, WorkInv, Rolls, pass.failed = {}
    PROVE  Good(pass.rack, pass.spec, pass.ignorable) /\ Stage \in {"after", "dynamic"}
  <1>1. Stage \in {"after", "dynamic"}
    BY DEF Rolls, EndsBatch, Moves
  <1>2. ~pass.again
    BY DEF Rolls, EndsBatch, Moves, ConfInv
  <1>3. /\ Working /\ cm[pass.rack] = Conf(pass.spec) /\ Pending = {}
    BY <1>1, <1>2 DEF Working, ConfInv, Off, Mid, First, Pending
  <1>4. /\ pass.upgrade => Members(pass.rack) \subseteq upgraded
        /\ \A p \in Members(pass.rack) \ pass.ignorable : Due(p)
    BY <1>3 DEF WorkInv
  <1>5. ASSUME NEW p \in Members(pass.rack) \ pass.ignorable
        PROVE  /\ Placed(pods[p], pass.spec, sts[pass.rack].image)
               /\ p \notin upgraded \cup skipped => Away(pods[p]) \/ Fits(pods[p], pass.spec)
    <2>1. Due(p) /\ p \notin Pending
      BY <1>3, <1>4, <1>5
    <2>2. CASE pass.upgrade
      BY <1>4, <1>5, <2>1, <2>2 DEF Due
    <2>3. CASE Stage = "dynamic" /\ ConfPods \subseteq pass.done
      <3>1. ~ConfTodo(p)
        BY <1>5, <2>3, ThisRack DEF ConfTodo, ConfPods
      <3> QED BY <2>1, <3>1 DEF Due
    <2> QED BY <2>2, <2>3 DEF Rolls, Moves
  <1> QED BY <1>1, <1>3, <1>5 DEF Good

LEMMA BehindInvKept ==
    ASSUME TypeOK, OutInv, ConfInv, WorkInv, BehindInv, [Next]_vars
    PROVE  BehindInv'
  <1> SUFFICES ASSUME Stage' \notin Off, pass'.failed = {}, NEW r \in Rack, Behind(r)'
               PROVE  Good(r, pass.spec, pass.ignorable)'
    BY DEF BehindInv
  <1>0. Resumes /\ AllSound /\ BehindFlow
    BY BehindFlows DEF OutInv
  <1>1. \A p \in Pod : Drift(p)
    <2>1. pass' # Idle
      BY IdleFacts DEF Off, Stage
    <2> QED BY <1>0, <2>1, StepDrifts
  <1>2. /\ Stage \notin Off /\ pass.failed = {} /\ pass'.spec = pass.spec /\ pass'.ignorable = pass.ignorable
        /\ Behind(r) \/ (r = pass.rack /\ Rolls)
    BY <1>0 DEF BehindFlow
  <1>3. Good(r, pass.spec, pass.ignorable) /\ (Stage \in {"rack", "plan", "force"} => r # pass.rack)
    <2>1. CASE Behind(r)
      <3>1. r < pass.rack => r # pass.rack
        <4>1. pass.rack \in Rack
          BY ThisRack
        <4> QED BY <4>1, SMT DEF Rack
      <3> QED BY <1>2, <2>1, <3>1 DEF BehindInv, Behind, Ends
    <2>2. CASE r = pass.rack /\ Rolls
      BY <1>2, <2>2, RolledNow
    <2> QED BY <1>2, <2>1, <2>2
  <1>4. GoodAfter(r, pass.spec, pass.ignorable)
    <2>1. SameRack(r) /\ Members(r) \subseteq Pod
      BY <1>3, OtherRacks, MembersArePods
    <2> QED BY <1>1, <1>3, <2>1, GoodKept
  <1> QED BY <1>2, <1>4 DEF Good, GoodAfter

LEMMA RestInvKept ==
    ASSUME TypeOK, OutInv, CleanInv, BehindInv, RestInv, [Next]_vars
    PROVE  RestInv'
  <1> SUFFICES ASSUME Resting', NEW r \in Rack
               PROVE  Good(r, status.spec, passed)'
    BY DEF RestInv
  <1>0. Resumes /\ AllSound /\ RollFlow /\ Members(r) \subseteq Pod
    BY RollFlows, MembersArePods DEF OutInv
  <1>1. \A p \in Pod : Drift(p)
    <2>1. ~(pass' = Idle /\ queued')
      BY IdleFacts DEF Resting, Stage
    <2> QED BY <1>0, <2>1, StepDrifts
  <1>2. CASE updateStatus
    <2>1. Stage = "finish" /\ passed' = pass.ignorable
      BY <1>2 DEF updateStatus, At, Stage
    <2>2. status'.spec = pass.spec
      BY <1>2 DEF updateStatus, TypeOK
    <2>3. Good(r, pass.spec, pass.ignorable) /\ SameRack(r)
      BY <2>1, OtherRacks DEF CleanInv, Late, BehindInv, Off, Behind, Ends
    <2>4. GoodAfter(r, pass.spec, pass.ignorable)
      BY <1>0, <1>1, <2>3, GoodKept
    <2> QED BY <2>1, <2>2, <2>4 DEF Good, GoodAfter
  <1>3. CASE Resting /\ ~updateStatus
    <2>1. Good(r, status.spec, passed) /\ SameRack(r)
      BY <1>3, OtherRacks DEF RestInv, Resting
    <2>2. GoodAfter(r, status.spec, passed)
      BY <1>0, <1>1, <2>1, GoodKept
    <2>3. CASE SpecStays
      BY <2>2, <2>3 DEF SpecStays, Good, GoodAfter
    <2>4. CASE recoverIgnorablePods
      <3> DEFINE failed == getServerFailedAndActivePods(pass.ignorable)
      <3>1. /\ status' = status /\ passed' = passed \ failed
            /\ pods' = [p \in Pod |-> IF p \in failed THEN Down(pods[p]) ELSE pods[p]]
        BY <2>4 DEF recoverIgnorablePods
      <3> HIDE DEF failed
      <3>2. ASSUME NEW p \in Members(r), p \in failed
            PROVE  pods'[p].server = "down"
        <4>1. p \in Pod /\ pods[p] \in PodType /\ pods'[p] = Down(pods[p])
          BY <1>0, <3>1, <3>2 DEF TypeOK
        <4> QED BY <4>1, DownFacts
      <3>3. ASSUME NEW p \in Members(r) \ passed'
            PROVE  /\ Placed(pods'[p], status.spec, sts'[r].image)
                   /\ p \notin upgraded' \cup skipped' => Away(pods'[p]) \/ Fits(pods'[p], status.spec)
        <4>1. CASE p \in failed
          BY <3>2, <3>3, <4>1 DEF Placed, Away
        <4>2. CASE p \notin failed
          <5>1. p \in Members(r) \ passed
            BY <3>1, <3>3, <4>2
          <5> QED BY <2>2, <5>1 DEF GoodAfter
        <4> QED BY <4>1, <4>2
      <3>4. cm'[r] = Conf(status.spec)
        BY <2>2 DEF GoodAfter
      <3> QED BY <3>1, <3>3, <3>4 DEF Good
    <2> QED BY <1>3, <2>3, <2>4, Writes
  <1> QED BY <1>0, <1>2, <1>3 DEF RollFlow

LEMMA RollInvKept ==
    ASSUME TypeOK, OutInv, CleanInv, RollInv, [Next]_vars
    PROVE  RollInv'
  <1>1. LiveInv'
    <2>1. AllSound
      BY DEF OutInv
    <2>2. ASSUME NEW p \in Pod PROVE LiveOk(pods'[p])
      BY <2>1, StepDrifts, DriftLive DEF RollInv, LiveInv
    <2> QED BY <2>2 DEF LiveInv
  <1> QED BY <1>1, ConfInvKept, WorkInvKept, BehindInvKept, RestInvKept DEF RollInv, OutInv

\* At the start every pod runs the first spec.
LEMMA RolloutInit == Init => CleanInv /\ RollInv
  <1> SUFFICES ASSUME Init PROVE CleanInv /\ RollInv
    OBVIOUS
  <1>1. pass = Idle /\ queued = FALSE /\ status.spec = FirstSpec /\ passed = {}
    BY DEF Init
  <1>2. Stage = "idle" /\ pass.failed = {}
    BY <1>1, IdleFacts DEF Stage
  <1>3. ASSUME NEW p \in Pod
        PROVE  /\ pods[p].server = "up" /\ ~pods[p].quiesced /\ pods[p].mfd = "config" /\ pods[p].park = "no"
               /\ pods[p].s = 0 /\ pods[p].d = 0 /\ pods[p].hash = 0 /\ pods[p].image = 0 /\ ~pods[p].partial
               /\ pods[p].live = 0
    BY <1>3, SMT DEF Init
  <1>4. CleanInv
    BY <1>2, <1>3 DEF CleanInv, Late, Rejoined, Reverting, Clean
  <1>5. FirstSpec.s = 0 /\ FirstSpec.d = 0 /\ FirstSpec.w = 0 /\ FirstSpec.image = 0
    BY SMT DEF FirstSpec
  <1>6. ASSUME NEW r \in Rack PROVE Good(r, status.spec, passed)
    <2>1. cm[r] = Conf(status.spec)
      BY <1>1, <1>5, <1>6 DEF Init, Conf
    <2>2. ASSUME NEW p \in Members(r)
          PROVE  Placed(pods[p], status.spec, sts[r].image) /\ Fits(pods[p], status.spec)
      <3>1. p \in Pod
        BY <1>6, <2>2, MembersArePods
      <3> QED BY <1>1, <1>3, <1>5, <3>1 DEF Placed, Fits, Near
    <2> QED BY <2>1, <2>2 DEF Good
  <1>7. LiveInv /\ ConfInv /\ WorkInv /\ BehindInv /\ RestInv
    BY <1>2, <1>3, <1>6 DEF LiveInv, LiveOk, ConfInv, Off, WorkInv, Working, Mid, First, BehindInv, RestInv
  <1> QED BY <1>4, <1>7 DEF RollInv

LEMMA RolledOutAtRest ==
    ASSUME CleanInv, RollInv
    PROVE  RestMeansRolledOut
  <1> SUFFICES ASSUME AtRest, NEW p \in Pod, pods[p].server = "up"
               PROVE  /\ ~pods[p].quiesced /\ pods[p].mfd = "config" /\ pods[p].park = "no"
                      /\ p \notin passed => pods[p].image \in {spec.image, sts[RackOf(p)].image}
                      /\ p \notin upgraded \cup skipped \cup passed =>
                            /\ pods[p].s = spec.s /\ pods[p].d = spec.d
                            /\ pods[p].live = spec.d \/ pods[p].unsaved
                            /\ ~pods[p].partial
                            /\ pods[p].hash = spec.w
    BY DEF RestMeansRolledOut
  <1>1. Stage = "idle" /\ ~queued /\ status.spec = spec
    BY DEF AtRest, At, Stage
  <1>2. Clean(pods[p])
    BY <1>1 DEF CleanInv, Tidy
  <1>3. RackOf(p) \in Rack /\ p \in Members(RackOf(p))
    BY RackOfPod
  <1>4. Good(RackOf(p), spec, passed)
    BY <1>1, <1>3 DEF RollInv, RestInv, Resting
  <1>5. p \notin passed => Placed(pods[p], spec, sts[RackOf(p)].image)
    BY <1>3, <1>4 DEF Good
  <1>6. p \notin upgraded \cup skipped \cup passed => Fits(pods[p], spec)
    BY <1>3, <1>4 DEF Good, Away
  <1> QED BY <1>2, <1>5, <1>6 DEF Clean, Placed, Fits, Near

\* A cluster at rest runs what its status reports: every running pod that the
\* last pass looked at (upgradeOrRollingRestartRack) has the configuration, the
\* image and the pod spec, and no node stays quiesced, parked or with another
\* migrate-fill-delay (undoQuiesceState, revertMFDToConfig), whatever was
\* interrupted, failed or changed by the user on the way.
THEOREM RolledOut == Spec => []RestMeansRolledOut
  <1>1. Init => TypeOK /\ OutInv /\ CleanInv /\ RollInv
    BY InitType, OutInvInit, RolloutInit
  <1>2. TypeOK /\ OutInv /\ CleanInv /\ RollInv /\ [Next]_vars => TypeOK' /\ OutInv' /\ CleanInv' /\ RollInv'
    BY NextType, OutInvKept, CleanInvKept, RollInvKept
  <1>3. CleanInv /\ RollInv => RestMeansRolledOut
    BY RolledOutAtRest
  <1> QED BY <1>1, <1>2, <1>3, PTL DEF Spec

-----------------------------------------------------------------------------
(* Which volumes are wiped *)

\* A pass works on the pods of its rack.
RackInv ==
    /\ Stage \notin {"idle", "parked", "failed"} => pass.failed \subseteq Members(pass.rack)
    /\ InBatch => pass.batch \subseteq Members(pass.rack)

\* Before a pass ends every pod that counts was seen with its configuration.
EndsInv ==
    Stage \in Ends => \A p \in Pod \ (pass.ignorable \cup upgraded \cup skipped) : pods[p].s = pass.spec.s

\* How a pass comes to know its pods, and how it gets to its last steps.
WipeFlow ==
    /\ Stage' # "idle" =>
          \/ Begin
          \/ /\ Stage # "idle" /\ pass'.spec = pass.spec
             /\ \/ pass'.seen = pass.seen
                \/ Records
                \/ \E ps, a, b : Marks(ps, a, b)
             /\ \/ pass'.types = pass.types
                \/ \A p \in Pod : pass'.types[p] # "quickRestart"
                \/ upgradeOrRollingRestartRack
    /\ Stage' \in Ends =>
          /\ Kept /\ Stage \notin {"plan", "force"}
          /\ Stage \in Ends \/ (NextRack /\ Moves("next", "unquiesce") /\ pass.rack = NumRacks
                                /\ waitForAllAerospikeServersReady /\ ~AServerFailed)
    /\ RackInv => RackInv'

LEMMA WipeFlows ==
    ASSUME TypeOK, OutInv, CleanInv, [Next]_vars
    PROVE  WipeFlow
  <1> USE DEF WipeFlow, Ends
  <1>0. Steps /\ pass \in PassType /\ pass.rack \in Rack /\ Members(pass.rack) \subseteq Pod
    BY NextSteps, ThisRack DEF TypeOK, OutInv
  <1>1. CASE Aside
    <2>1. Stage' = Stage /\ pass' = pass
      BY <1>1 DEF Aside, Stage
    <2>2. Stage \in Ends => Stage \notin {"plan", "force"}
      OBVIOUS
    <2> QED BY <2>1, <2>2 DEF Kept, RackInv, InBatch
  <1>2. CASE pass' = Idle
    <2>1. Stage' = "idle"
      BY <1>2, IdleFacts DEF Stage
    <2> QED BY <2>1 DEF RackInv, InBatch
  <1>3. CASE Begin \/ \E p \in Pod : pollAndDeleteParkedPods(p)
    BY <1>3, BeginFacts, PollFacts DEF Kept, SameBatch, RackInv, InBatch
  <1>4. CASE Opens \/ NextFailed \/ NoneFailed
    <2>1. Stage \in {"parked", "failed"} /\ pass.failed = {}
      BY <1>4 DEF Opens, NextFailed, NoneFailed, Moves, OutInv, StageOut
    <2> QED BY <1>4, <2>1 DEF Opens, NextFailed, NoneFailed, Moves, Still, Kept, SameBatch, SameLook, RackInv, InBatch
  <1>5. CASE SomeFailed
    <2>1. pass'.failed \subseteq Members(pass'.rack)
      BY <1>5 DEF SomeFailed, getServerFailedAndActivePods
    <2> QED BY <1>5, <2>1 DEF SomeFailed, SameLook, RackInv, InBatch
  <1>6. CASE GoesOn
    <2>1. pass'.failed = {}
      BY <1>6 DEF GoesOn, CleanInv, Late
    <2>2. \A p \in Pod : pass'.types[p] # "quickRestart"
      BY <1>6 DEF GoesOn, NoTypes
    <2> QED BY <1>6, <2>1, <2>2 DEF GoesOn, RackInv, InBatch
  <1>7. CASE upgradeOrRollingRestartRack /\ \E listed \in getRackPodList(pass.rack) : Planned(pass.rack, listed)
    <2>1. PICK listed \in getRackPodList(pass.rack) : Planned(pass.rack, listed)
      BY <1>7
    <2>2. /\ Stage = "plan" /\ Stage' \in {"removal", "stop", "after"} /\ Kept /\ pass'.seen = pass.seen
          /\ Stage' # "after" => pass'.batch \subseteq PlanDue(pass.rack, listed)
      BY <1>7, <2>1, Plans DEF Planned, Batched, Stage
    <2>3. RackInv => PlanDue(pass.rack, listed) \subseteq Members(pass.rack)
      BY <2>2 DEF PlanDue, Scope, getRackPodList, RackInv
    <2> QED BY <1>7, <2>2, <2>3 DEF Kept, RackInv, InBatch
  <1>8. CASE handleFailedPodsInRack /\ pass' # Idle
    <2>1. /\ Stage = "force" /\ Stage' \in {"removal", "stop", "after"} /\ Kept /\ pass'.seen = pass.seen
          /\ Stage' # "after" => pass'.batch \subseteq Members(pass.rack)
          /\ \A p \in Pod : pass'.types[p] # "quickRestart"
      BY <1>8, Forces DEF Batched, Stage, Requeue
    <2> QED BY <2>1 DEF Kept, RackInv, InBatch
  <1>9. ASSUME Kept, pass'.types = pass.types, Stage \notin {"idle", "parked", "failed"}, Stage' \notin Ends,
               InBatch' => InBatch /\ pass'.batch = pass.batch,
               pass'.seen = pass.seen \/ Records \/ \E ps, a, b : Marks(ps, a, b)
        PROVE  WipeFlow
    BY <1>9 DEF Kept, RackInv
  <1>10. CASE (SetMFD \/ SaveMFD) /\ Still /\ Stage' = Stage
    <2>1. Stage \in {"rack", "stable", "quiesce", "finish"}
      BY <1>10 DEF Stage, Resumes, SetMFD, SaveMFD, At, OutInv
    <2> QED BY <1>10, <2>1 DEF Still, Kept, SameBatch, RackInv, InBatch
  <1>11. CASE \/ Moves("rack", "plan") \/ Moves("stop", "stable") \/ Moves("stable", "raise") \/ Moves("raise", "quiesce")
              \/ Moves("quiesce", "removal") \/ Moves("checkpoint", "restart") \/ Moves("wait", "after")
              \/ Moves("dynamic", "ignored")
    BY <1>9, <1>11 DEF Moves, Still, SameBatch, InBatch
  <1>12. CASE \/ Marks(pass.group, "removal", IF pass.planned THEN "checkpoint" ELSE "restart")
              \/ \E ps \in SUBSET pass.ignorable : Marks(ps, "ignored", IF pass.failed # {} THEN "force" ELSE "next")
    BY <1>9, <1>12 DEF Marks, SameBatch, InBatch
  <1>13. CASE Records \/ NextGroup \/ EndsBatch \/ \E p \in Pod : RestartsOne(p) \/ SetsOne(p)
    BY <1>9, <1>13 DEF Records, NextGroup, EndsBatch, RestartsOne, SetsOne, SameBatch, InBatch
  <1>14. CASE \/ NextRack /\ Moves("next", "unquiesce") /\ waitForAllAerospikeServersReady /\ ~AServerFailed /\ pass.rack = NumRacks
              \/ Moves("unquiesce", "revert") \/ Moves("revert", "finish")
    BY <1>14 DEF Moves, Still, Kept, SameBatch, RackInv, InBatch
  <1>15. CASE Reports \/ Recovers
    BY <1>15 DEF Reports, Recovers, Kept, SameBatch, RackInv, InBatch
  <1> QED BY <1>0, <1>1, <1>2, <1>3, <1>4, <1>5, <1>6, <1>7, <1>8, <1>10, <1>11, <1>12, <1>13, <1>14, <1>15
          DEF Steps, Quits

\* Only a start and a warm restart change the static configuration of a pod.
LEMMA DriftStatic ==
    ASSUME NEW p \in Pod, Drift(p)
    PROVE  pods'[p].s \in {pods[p].s, cm[RackOf(p)].s}
  BY DEF Drift, SameServer, SameConf

LEMMA EndsInvKept ==
    ASSUME TypeOK, OutInv, CleanInv, RollInv, EndsInv, [Next]_vars
    PROVE  EndsInv'
  <1> SUFFICES ASSUME Stage' \in Ends, NEW p \in Pod \ (pass'.ignorable \cup upgraded' \cup skipped')
               PROVE  pods'[p].s = pass'.spec.s
    BY DEF EndsInv
  <1> DEFINE r == RackOf(p)
  <1>0. WipeFlow /\ AllSound /\ r \in Rack /\ p \in Members(r)
    BY WipeFlows, RackOfPod DEF OutInv
  <1>1. Kept /\ UNCHANGED <<upgraded, skipped>>
    <2>1. Kept /\ Stage \notin {"plan", "force"}
      BY <1>0 DEF WipeFlow
    <2>2. ~upgradeOrRollingRestartRack /\ ~handleFailedPodsInRack
      BY <2>1 DEF upgradeOrRollingRestartRack, handleFailedPodsInRack, At, Stage
    <2> QED BY <2>1, <2>2, Writes DEF looks
  <1>2. pods'[p].s \in {pods[p].s, cm[r].s}
    <2>1. pass' # Idle
      BY IdleFacts DEF Ends, Stage
    <2>2. Drift(p)
      BY <1>0, <2>1, StepDrifts
    <2> QED BY <2>2, DriftStatic
  <1>3. p \in Pod \ (pass.ignorable \cup upgraded \cup skipped)
    BY <1>1 DEF Kept
  <1>4. Conf(pass.spec).s = pass.spec.s
    BY DEF Conf
  <1>5. CASE Stage \in Ends
    <2>1. Good(r, pass.spec, pass.ignorable)
      BY <1>0, <1>5 DEF CleanInv, RollInv, BehindInv, Behind, Off, Ends, Late
    <2>2. pods[p].s = pass.spec.s /\ cm[r].s = pass.spec.s
      BY <1>3, <1>4, <1>5, <2>1 DEF EndsInv, Good
    <2> QED BY <1>1, <1>2, <2>2 DEF Kept
  <1>6. CASE Moves("next", "unquiesce") /\ pass.rack = NumRacks /\ waitForAllAerospikeServersReady /\ ~AServerFailed
    <2>1. r < pass.rack \/ r = pass.rack
      BY <1>0, <1>6, RollingAssumption, SMT DEF Rack
    <2>2. Stage = "next" /\ pass.failed = {}
      BY <1>6 DEF Moves, CleanInv, Late
    <2>3. Good(r, pass.spec, pass.ignorable)
      BY <1>0, <2>1, <2>2 DEF RollInv, BehindInv, Behind, Off
    <2>4. ~Away(pods[p])
      BY <1>3, <1>6 DEF waitForAllAerospikeServersReady, AServerFailed, ServerFailed, Away
    <2>5. pods[p].s = pass.spec.s /\ cm[r].s = pass.spec.s
      BY <1>0, <1>3, <1>4, <2>3, <2>4 DEF Good, Fits, Near
    <2> QED BY <1>1, <1>2, <2>5 DEF Kept
  <1> QED BY <1>0, <1>5, <1>6 DEF WipeFlow

\* A pod loses its volume, or starts in place without one, only in its rack's turn.
Marked(q) ==
    /\ \E ps, b : MarkRemoved(ps, b)
    /\ pods'[q].dirty /\ pods'[q].s = pods[q].s
    /\ status.spec.s = 0 /\ pass.spec.s = 1 /\ cm[RackOf(q)].s = 1 /\ Stage # "idle"
Rewarmed(q) ==
    /\ pods'[q].dirty = pods[q].dirty /\ pods'[q].s = pass.spec.s
    /\ pass.types[q] = "quickRestart" /\ Stage # "idle"

LEMMA StepWipes ==
    ASSUME TypeOK, OutInv, ConfInv, RackInv, [Next]_vars, NEW q \in Pod
    PROVE  Washed(q) \/ Marked(q) \/ Rewarmed(q)
  <1>0. AllSound /\ StageOut /\ pods[q] \in PodType /\ pass.rack \in Rack
    BY ThisRack DEF OutInv, TypeOK
  <1>1. ASSUME q \in Members(pass.rack), Stage \notin Off \cup {"rack"}
        PROVE  cm[RackOf(q)].s = pass.spec.s
    <2>1. RackOf(q) = pass.rack
      BY <1>0, <1>1, RackOfPod, RacksAssumption
    <2>2. cm[pass.rack] = Conf(pass.spec) /\ Conf(pass.spec).s = pass.spec.s
      BY <1>1 DEF ConfInv, Conf
    <2> QED BY <2>1, <2>2
  <1>2. ASSUME NEW ps \in SUBSET Members(pass.rack), NEW b, MarkRemoved(ps, b), Stage \in {"removal", "ignored"}
        PROVE  Washed(q) \/ Marked(q)
    <2>1. pods'[q] = IF (status.spec.s = 0 /\ pass.spec.s = 1) /\ q \in ps
                     THEN [pods[q] EXCEPT !.dirty = TRUE] ELSE pods[q]
      BY <1>2 DEF MarkRemoved
    <2>2. CASE pods'[q] = pods[q]
      BY <2>2 DEF Washed
    <2>3. CASE status.spec.s = 0 /\ pass.spec.s = 1 /\ q \in ps /\ pods'[q] = [pods[q] EXCEPT !.dirty = TRUE]
      <3>1. cm[RackOf(q)].s = 1
        BY <1>1, <1>2, <2>3 DEF Off
      <3>2. pods'[q].dirty /\ pods'[q].s = pods[q].s
        BY <1>0, <2>3, DirtyFacts DEF SameServer, SameConf
      <3> QED BY <1>2, <2>3, <3>1, <3>2 DEF Marked
    <2> QED BY <2>1, <2>2, <2>3
  <1>3. CASE handleNSOrDeviceRemoval
    <2>1. Stage = "removal" /\ MarkRemoved(pass.group, IF pass.planned THEN "checkpoint" ELSE "restart")
      BY <1>3 DEF handleNSOrDeviceRemoval, At, Stage
    <2>2. pass.group \in SUBSET Members(pass.rack)
      BY <1>0, <2>1 DEF StageOut, InBatch, RackInv
    <2> QED BY <1>2, <2>1, <2>2
  <1>4. CASE handleNSOrDeviceRemovalForIgnorablePods
    <2>1. PICK listed \in getRackPodList(pass.rack) :
             \/ UNCHANGED pods
             \/ MarkRemoved(pass.ignorable \cap listed, IF pass.failed # {} THEN "force" ELSE "next")
      BY <1>4 DEF handleNSOrDeviceRemovalForIgnorablePods
    <2>2. Stage = "ignored" /\ pass.ignorable \cap listed \in SUBSET Members(pass.rack)
      BY <1>4 DEF handleNSOrDeviceRemovalForIgnorablePods, At, Stage, getRackPodList
    <2>3. CASE UNCHANGED pods
      BY <2>3 DEF Washed
    <2> QED BY <1>2, <2>1, <2>2, <2>3
  <1>5. ASSUME NEW p \in Pod, restartPods(p)
        PROVE  Washed(q) \/ Rewarmed(q)
    <2>1. CASE UNCHANGED pods
      BY <2>1 DEF Washed
    <2>2. CASE SetPod(p, [Down(pods[p]) EXCEPT !.out = pass.planned])
      <3>1. pods'[q] = pods[q] \/ pods'[q] = [Down(pods[q]) EXCEPT !.out = pass.planned]
        BY <2>2 DEF SetPod, TypeOK
      <3>2. CASE pods'[q] = [Down(pods[q]) EXCEPT !.out = pass.planned]
        <4>1. SameConf(pods[q], pods'[q]) /\ pods'[q].dirty = pods[q].dirty
          BY <1>0, <3>2, DownFacts
        <4> QED BY <4>1 DEF SameConf, Washed
      <3> QED BY <3>1, <3>2 DEF Washed
    <2>3. CASE SetPod(p, restartASD(p)) /\ pass.types[p] = "quickRestart"
      <3>1. CASE q # p
        <4>1. pods'[q] = pods[q]
          BY <2>3, <3>1 DEF SetPod, TypeOK
        <4> QED BY <4>1 DEF Washed
      <3>2. CASE q = p
        <4>1. pods'[q] = restartASD(q)
          BY <2>3, <3>2 DEF SetPod, TypeOK
        <4>2. pods'[q].s = cm[RackOf(q)].s /\ pods'[q].dirty = pods[q].dirty
          BY <1>0, <4>1, ASDFacts
        <4>3. Stage = "restart" /\ q \in pass.group
          BY <1>5, <3>2 DEF restartPods, At, Stage
        <4>4. q \in Members(pass.rack)
          BY <1>0, <4>3 DEF StageOut, InBatch, RackInv
        <4>5. cm[RackOf(q)].s = pass.spec.s
          BY <1>1, <4>3, <4>4 DEF Off
        <4> QED BY <2>3, <3>2, <4>2, <4>3, <4>5 DEF Rewarmed
      <3> QED BY <3>1, <3>2
    <2> QED BY <1>5, <2>1, <2>2, <2>3 DEF restartPods
  <1>6. CASE Environment \/ UNCHANGED vars
    BY <1>0, <1>6, EnvironmentDrifts
  <1>7. CASE PassStep
    BY <1>3, <1>4, <1>5, <1>7, PassDrifts
  <1> QED BY <1>6, <1>7 DEF Next

\* The volumes that a pass removes, or that the status says are removed, may be
\* dirty; a pod that still uses its dirty volume has lost it in its ConfigMap.
Removing == spec.s = 1 /\ (Stage # "idle" => pass.spec.s = 1)
DirtyInv(p) ==
    pods[p].dirty =>
        /\ status.spec.s = 1 \/ Removing
        /\ pods[p].s = 0 => status.spec.s = 0 /\ Removing /\ cm[RackOf(p)].s = 1
\* A pass that gives the volume back knows which pods have to be restarted for it.
SeenInv(p) ==
    Stage # "idle" =>
        /\ pass.seen[p].dirty /\ pass.seen[p].s = 0 => pass.spec.s = 1
        /\ pods[p].dirty /\ pass.types[p] = "quickRestart" => pass.spec.s = 1
TakenBack == Stage # "idle" /\ pass.spec.s = 1 /\ spec.s = 0 /\ status.spec.s = 0
WipeInv ==
    /\ TakenBack => undone = Pod
    /\ Stage # "idle" => \A p \in Pod : pods[p].dirty => pass.seen[p].dirty
    /\ \A p \in Pod \ undone : DirtyInv(p) /\ SeenInv(p)

LEMMA Bits ==
    ASSUME TypeOK
    PROVE  /\ spec.s \in {0, 1} /\ status.spec.s \in {0, 1} /\ pass.spec.s \in {0, 1}
           /\ \A p \in Pod : pods[p].s \in {0, 1} /\ pass.seen[p].s \in {0, 1}
  <1>1. 0 .. 1 = {0, 1}
    BY SMT
  <1>2. spec \in SpecType /\ status.spec \in SpecType /\ pass.spec \in SpecType
    BY DEF TypeOK, PassType
  <1>3. ASSUME NEW p \in Pod
        PROVE  pods[p].s \in 0 .. 1 /\ pass.seen[p].s \in 0 .. 1
    BY <1>3 DEF TypeOK, PodType, PassType
  <1>4. \A x \in SpecType : x.s \in 0 .. 1
    BY DEF SpecType
  <1> QED BY <1>1, <1>2, <1>3, <1>4

\* A plan gives a pod with a dirty volume no warm restart when the volume comes back.
LEMMA NoWarmReturn ==
    ASSUME TypeOK, NEW p \in Pod, NEW conf, conf.s # pass.seen[p].s, status.spec.s = 1, pass.spec.s = 0, pass.seen[p].dirty
    PROVE  getRollingRestartTypePod(p, conf) # "quickRestart"
  <1> DEFINE seen     == pass.seen[p]
             confType == IF seen.s = conf.s /\ seen.d = conf.d THEN "noRestart"
                         ELSE IF getNSAddedDevices THEN handleNSOrDeviceAddition(p)
                         ELSE IF isAllDynamicConfig(p, conf) THEN "noRestartUpdateConf"
                         ELSE "quickRestart"
             podType  == IF seen.hash # conf.w THEN "podRestart" ELSE "noRestart"
             backType == IF seen.partial THEN "quickRestart" ELSE "noRestart"
             opType   == onDemandOperationType(p)
             one      == mergeRestartType(confType, podType)
             two      == mergeRestartType(opType, backType)
  <1>1. getRollingRestartTypePod(p, conf) = mergeRestartType(one, two)
    BY DEF getRollingRestartTypePod
  <1>2. confType = "podRestart"
    BY DEF getNSAddedDevices, handleNSOrDeviceAddition
  <1>3. podType \in RestartTypes /\ backType \in RestartTypes /\ opType \in RestartTypes /\ confType \in RestartTypes
    BY <1>2 DEF RestartTypes, onDemandOperationType
  <1> HIDE DEF confType, podType, backType, opType
  <1>4. one \in RestartTypes /\ two \in RestartTypes
    BY <1>3, MergeFacts
  <1>5. one = "podRestart"
    <2>1. one # "noRestart" /\ one # "noRestartUpdateConf" /\ one # "quickRestart"
      BY <1>2, <1>3, MergeFacts
    <2> QED BY <1>4, <2>1 DEF RestartTypes
  <1> HIDE DEF one, two
  <1> QED BY <1>1, <1>4, <1>5, MergeFacts

\* What a pass that goes on sees of a dirty volume.
SeesDirty(q) ==
    \/ pass'.seen[q] = pass.seen[q] /\ (pods'[q].dirty => pods[q].dirty)
    \/ /\ pass'.seen[q].dirty = pods'[q].dirty /\ pass'.seen[q].s = pods'[q].s
       /\ pods'[q].dirty => pods[q].dirty \/ pass.spec.s = 1

LEMMA StepSees ==
    ASSUME TypeOK, OutInv, CleanInv, ConfInv, RackInv, [Next]_vars, Stage' # "idle", ~Begin, NEW q \in Pod
    PROVE  SeesDirty(q)
  <1> USE DEF SeesDirty
  <1>0. WipeFlow /\ pass \in PassType /\ pods[q] \in PodType
    BY WipeFlows DEF TypeOK
  <1>1. \A p \in Pod : Recorded(p).dirty = pods[p].dirty /\ Recorded(p).s = pods[p].s
    BY DEF Recorded
  <1>2. ASSUME NEW ps, NEW b, MarkRemoved(ps, b)
        PROVE  \/ pass'.seen[q] = pass.seen[q] /\ pods' = pods
               \/ pass'.seen[q].dirty = pods'[q].dirty /\ pass'.seen[q].s = pods'[q].s /\ pass.spec.s = 1
    <2> DEFINE marked == [p \in Pod |-> IF (status.spec.s = 0 /\ pass.spec.s = 1) /\ p \in ps
                                        THEN [pods[p] EXCEPT !.dirty = TRUE] ELSE pods[p]]
               reread == [p \in Pod |-> [Recorded(p) EXCEPT !.dirty = marked[p].dirty]]
    <2>1. /\ pods' = marked
          /\ pass' = [pass EXCEPT !.pc = b, !.seen = IF (status.spec.s = 0 /\ pass.spec.s = 1) /\ ps # {}
                                                     THEN reread ELSE @]
      BY <1>2 DEF MarkRemoved
    <2>2. marked[q] = (IF (status.spec.s = 0 /\ pass.spec.s = 1) /\ q \in ps
                       THEN [pods[q] EXCEPT !.dirty = TRUE] ELSE pods[q])
      OBVIOUS
    <2>3. marked[q].s = pods[q].s
      BY <1>0, <2>2, DirtyFacts DEF SameServer, SameConf
    <2>4. reread[q] = [Recorded(q) EXCEPT !.dirty = marked[q].dirty]
      OBVIOUS
    <2>5. reread[q].dirty = marked[q].dirty /\ reread[q].s = pods[q].s
      BY <2>4 DEF Recorded
    <2>6. ~((status.spec.s = 0 /\ pass.spec.s = 1) /\ ps # {}) => marked = pods
      <3> SUFFICES ASSUME ~((status.spec.s = 0 /\ pass.spec.s = 1) /\ ps # {}) PROVE marked = pods
        OBVIOUS
      <3>1. \A p \in Pod : marked[p] = pods[p]
        OBVIOUS
      <3> QED BY <3>1 DEF TypeOK
    <2> HIDE DEF marked, reread
    <2>7. pass'.seen = IF (status.spec.s = 0 /\ pass.spec.s = 1) /\ ps # {} THEN reread ELSE pass.seen
      BY <1>0, <2>1 DEF PassType
    <2> QED BY <2>1, <2>3, <2>5, <2>6, <2>7
  <1>3. ASSUME NEW ps, NEW b, MarkRemoved(ps, b)
        PROVE  SeesDirty(q)
    BY <1>2, <1>3
  <1>4. CASE ~\E ps, b : MarkRemoved(ps, b)
    <2>1. Washed(q) \/ Rewarmed(q)
      BY <1>4, StepWipes DEF Marked
    <2>2. pods'[q].dirty => pods[q].dirty
      BY <2>1 DEF Washed, Rewarmed
    <2>3. CASE pass'.seen = pass.seen
      BY <2>2, <2>3
    <2>4. CASE Records
      <3>1. pods' = pods /\ (pass'.seen = pass.seen \/ pass'.seen = [p \in Pod |-> Recorded(p)])
        BY <1>0, <2>4 DEF Records, RecordRestarts, Seen, PassType
      <3> QED BY <1>1, <3>1
    <2> QED BY <1>0, <1>4, <2>3, <2>4 DEF WipeFlow, Marks
  <1> QED BY <1>3, <1>4

\* The plan of a rack with pods that have lost their volume and get it back.
LEMMA PlanSees ==
    ASSUME TypeOK, ConfInv, WipeInv, upgradeOrRollingRestartRack, Stage' # "idle",
           NEW p \in Pod \ undone, pods[p].dirty, pass'.types[p] = "quickRestart"
    PROVE  pass.spec.s = 1
  <1> SUFFICES ASSUME pass.spec.s # 1 PROVE FALSE
    OBVIOUS
  <1>1. /\ Stage = "plan"
        /\ \E listed \in getRackPodList(pass.rack) : Planned(pass.rack, listed)
    <2>1. ~Requeue
      BY IdleFacts DEF Requeue, Stage
    <2> QED BY <2>1, Plans DEF Stage
  <1>2. pass.spec.s = 0 /\ pass.seen[p].s = 1 /\ status.spec.s = 1 /\ pass.seen[p].dirty
    BY <1>1, Bits DEF WipeInv, DirtyInv, SeenInv, Removing
  <1>3. cm[pass.rack].s # pass.seen[p].s
    <2>1. cm[pass.rack] = Conf(pass.spec) /\ Conf(pass.spec).s = pass.spec.s
      BY <1>1 DEF ConfInv, Off, Conf
    <2>2. pass.spec.s # pass.seen[p].s
      BY <1>2
    <2> QED BY <2>1, <2>2
  <1>4. getRollingRestartTypePod(p, cm[pass.rack]) # "quickRestart"
    BY <1>2, <1>3, NoWarmReturn
  <1>5. PICK listed \in getRackPodList(pass.rack) : pass'.types = PlanTypes(pass.rack, listed)
    BY <1>1 DEF Planned
  <1>6. CASE isRackUpgradeNeeded(listed)
    <2>1. pass'.types[p] \in {"podRestart", "noRestart"}
      BY <1>5, <1>6 DEF PlanTypes
    <2> QED BY <2>1
  <1>7. CASE ~isRackUpgradeNeeded(listed)
    <2>1. pass'.types[p] = getRollingRestartTypeMap(pass.rack, listed)[p]
      BY <1>5, <1>7 DEF PlanTypes
    <2>2. getRollingRestartTypeMap(pass.rack, listed)[p]
             \in {"podRestart", "noRestart", getRollingRestartTypePod(p, cm[pass.rack])}
      BY DEF getRollingRestartTypeMap
    <2> QED BY <1>4, <2>1, <2>2
  <1> QED BY <1>6, <1>7

\* What the steps leave of the edits and of the status.
UserFlow ==
    /\ undone \subseteq undone'
    /\ \/ spec' = spec /\ undone' = undone /\ status'.spec = status.spec
       \/ Edit /\ UNCHANGED <<status, cm, pods, pass>> /\ (spec.s = 1 /\ spec'.s = 0 /\ status.spec.s = 0 => undone' = Pod)
       \/ /\ updateStatus /\ UNCHANGED <<spec, cm, pods>> /\ Stage = "finish" /\ status'.spec = pass.spec
          /\ \A p \in upgraded \cup skipped \cup pass.ignorable : pods[p].dirty => p \in undone'

LEMMA UserFlows ==
    ASSUME TypeOK, [Next]_vars
    PROVE  UserFlow
  <1>1. CASE Edit
    BY <1>1 DEF Edit, UserFlow, TypeOK
  <1>2. CASE updateStatus
    <2>1. status'.spec = pass.spec
      BY <1>2 DEF updateStatus, TypeOK
    <2> QED BY <1>2, <2>1 DEF updateStatus, UserFlow, At, Stage
  <1>3. CASE ~Edit /\ ~updateStatus
    <2>1. recoverIgnorablePods => status' = status
      BY DEF recoverIgnorablePods
    <2> QED BY <1>3, <2>1, Writes DEF UserStays, SpecStays, UserFlow
  <1> QED BY <1>1, <1>2, <1>3

LEMMA DirtyInvKept ==
    ASSUME TypeOK, TypeOK', OutInv, CleanInv, ConfInv, RackInv, EndsInv, WipeInv, [Next]_vars, NEW p \in Pod \ undone'
    PROVE  DirtyInv(p)'
  <1> SUFFICES ASSUME pods'[p].dirty
               PROVE  /\ status'.spec.s = 1 \/ Removing'
                      /\ pods'[p].s = 0 => status'.spec.s = 0 /\ Removing' /\ cm'[RackOf(p)].s = 1
    BY DEF DirtyInv
  <1>0. p \in Pod \ undone /\ DirtyInv(p) /\ SeenInv(p) /\ UserFlow /\ WipeFlow
    BY UserFlows, WipeFlows DEF UserFlow, WipeInv
  <1> 0 # 1
    BY SMT
  <1>1. CASE updateStatus /\ UNCHANGED <<spec, cm, pods>> /\ Stage = "finish" /\ status'.spec = pass.spec
             /\ \A q \in upgraded \cup skipped \cup pass.ignorable : pods[q].dirty => q \in undone'
    <2>1. pods[p].dirty /\ p \notin upgraded \cup skipped \cup pass.ignorable
      BY <1>1
    <2>2. pods[p].s = pass.spec.s
      BY <1>0, <1>1, <2>1 DEF EndsInv, Ends
    <2>3. pods[p].s = 1
      BY <1>0, <1>1, <2>1, <2>2, Bits DEF DirtyInv, Removing
    <2> QED BY <1>1, <2>2, <2>3
  <1>2. CASE Edit /\ UNCHANGED <<status, cm, pods, pass>>
             /\ (spec.s = 1 /\ spec'.s = 0 /\ status.spec.s = 0 => undone' = Pod)
    <2>1. pods[p].dirty /\ Stage' = Stage
      BY <1>2 DEF Stage
    <2>2. status.spec.s = 0 /\ spec.s = 1 => spec'.s = 1
      <3>1. spec'.s \in {0, 1}
        <4>1. spec' \in SpecType
          BY DEF TypeOK
        <4>2. spec'.s \in 0 .. 1
          BY <4>1 DEF SpecType
        <4> QED BY <4>2, SMT
      <3> QED BY <1>2, <3>1
    <2>3. status.spec.s = 0 /\ Removing => Removing'
      BY <1>2, <2>1, <2>2 DEF Removing
    <2> QED BY <1>0, <1>2, <2>1, <2>3, Bits DEF DirtyInv
  <1>3. CASE spec' = spec /\ undone' = undone /\ status'.spec = status.spec
    <2>1. Removing => Removing'
      BY <1>0, <1>3, BeginFacts DEF Removing, WipeFlow
    <2>2. cm[RackOf(p)].s = 1 /\ (Stage # "idle" => pass.spec.s = 1) => cm'[RackOf(p)].s = 1
      <3>1. CASE cm' = cm
        BY <3>1
      <3>2. CASE updateSTSConfigMap
        <4>1. cm' = [cm EXCEPT ![pass.rack] = [s |-> pass.spec.s, d |-> pass.spec.d, w |-> pass.spec.w]] /\ Stage = "rack"
          BY <3>2 DEF updateSTSConfigMap, At, Stage
        <4>2. RackOf(p) \in Rack /\ cm \in [Rack -> [s : 0 .. 1, d : Nat, w : Nat]]
          BY <1>0, RackOfPod DEF TypeOK
        <4> QED BY <4>1, <4>2
      <3> QED BY <3>1, <3>2, Writes
    <2>3. CASE Marked(p)
      <3>1. spec.s = 1
        BY <1>0, <2>3, Bits DEF Marked, WipeInv, TakenBack
      <3>2. Removing
        BY <2>3, <3>1 DEF Marked, Removing
      <3> QED BY <1>3, <2>1, <2>2, <2>3, <3>2 DEF Marked
    <2>4. CASE Rewarmed(p)
      <3>1. pods[p].dirty /\ pass.spec.s = 1
        BY <1>0, <2>4 DEF Rewarmed, SeenInv
      <3> QED BY <1>0, <1>3, <2>1, <2>4, <3>1 DEF Rewarmed, DirtyInv
    <2>5. CASE Washed(p)
      <3>1. pods[p].dirty /\ (pods'[p].s = pods[p].s \/ pods'[p].s = 1)
        BY <2>5 DEF Washed
      <3>2. pods'[p].s = 0 => pods[p].s = 0
        BY <3>1
      <3> QED BY <1>0, <1>3, <2>1, <2>2, <3>1, <3>2 DEF DirtyInv, Removing
    <2> QED BY <1>0, <2>3, <2>4, <2>5, StepWipes
  <1> QED BY <1>0, <1>1, <1>2, <1>3 DEF UserFlow

LEMMA WipeInvKept ==
    ASSUME TypeOK, TypeOK', OutInv, CleanInv, ConfInv, RackInv, EndsInv, WipeInv, [Next]_vars
    PROVE  WipeInv'
  <1>0. UserFlow /\ WipeFlow
    BY UserFlows, WipeFlows
  <1> 0 # 1
    BY SMT
  <1>1. Begin => /\ Stage' = "parked" /\ pods' = pods /\ spec' = spec /\ pass'.spec = spec
                 /\ \A p \in Pod : pass'.seen[p].dirty = pods[p].dirty /\ pass'.seen[p].s = pods[p].s
                 /\ \A p \in Pod : pass'.types[p] # "quickRestart"
    <2> HAVE Begin
    <2>1. pass'.types = NoTypes /\ spec' = spec
      BY DEF Begin, Idle
    <2>2. \A p \in Pod : Recorded(p).dirty = pods[p].dirty /\ Recorded(p).s = pods[p].s
      BY DEF Recorded
    <2> QED BY <2>1, <2>2, BeginFacts DEF NoTypes
  <1>2. (TakenBack => undone = Pod)'
    <2> SUFFICES ASSUME Stage' # "idle", pass'.spec.s = 1, spec'.s = 0, status'.spec.s = 0 PROVE undone' = Pod
      BY DEF TakenBack
    <2>1. ~Begin /\ Stage # "idle" /\ pass'.spec = pass.spec
      BY <1>0, <1>1 DEF WipeFlow
    <2>2. undone = Pod => undone' = Pod
      BY <1>0 DEF UserFlow, TypeOK
    <2> QED BY <1>0, <2>1, <2>2, Bits DEF UserFlow, WipeInv, TakenBack
  <1>3. ASSUME Stage' # "idle", NEW p \in Pod, pods'[p].dirty
        PROVE  pass'.seen[p].dirty
    <2>1. CASE Begin
      BY <1>1, <1>3, <2>1
    <2>2. CASE ~Begin
      <3>1. Stage # "idle"
        BY <1>0, <1>3, <2>2 DEF WipeFlow
      <3> QED BY <1>3, <2>2, <3>1, StepSees DEF WipeInv, SeesDirty
    <2> QED BY <2>1, <2>2
  <1>4. ASSUME NEW p \in Pod \ undone' PROVE DirtyInv(p)'
    BY <1>4, DirtyInvKept
  <1>5. ASSUME NEW p \in Pod \ undone', Stage' # "idle"
        PROVE  /\ pass'.seen[p].dirty /\ pass'.seen[p].s = 0 => pass'.spec.s = 1
               /\ pods'[p].dirty /\ pass'.types[p] = "quickRestart" => pass'.spec.s = 1
    <2>0. p \in Pod \ undone /\ SeenInv(p)
      BY <1>0, <1>5 DEF UserFlow, WipeInv
    <2>1. pods'[p].dirty /\ pods'[p].s = 0 => pass'.spec.s = 1
      BY <1>4, <1>5 DEF DirtyInv, Removing
    <2>2. CASE Begin
      BY <1>1, <1>5, <2>1, <2>2
    <2>3. CASE ~Begin
      <3>1. Stage # "idle" /\ pass'.spec = pass.spec
        BY <1>0, <1>5, <2>3 DEF WipeFlow
      <3>2. pass'.seen[p].dirty /\ pass'.seen[p].s = 0 => pass'.spec.s = 1
        BY <1>5, <2>0, <2>1, <2>3, <3>1, StepSees DEF SeenInv, SeesDirty
      <3>3. pods'[p].dirty => pods[p].dirty \/ pass.spec.s = 1
        BY <1>5, <2>3, StepSees DEF SeesDirty
      <3>4. CASE pass'.types = pass.types
        BY <2>0, <3>1, <3>2, <3>3, <3>4 DEF SeenInv
      <3>5. CASE pass'.types[p] # "quickRestart"
        BY <3>2, <3>5
      <3>6. CASE upgradeOrRollingRestartRack
        <4>1. pods[p].dirty /\ pass'.types[p] = "quickRestart" => pass.spec.s = 1
          BY <1>5, <2>0, <3>6, PlanSees
        <4> QED BY <3>1, <3>2, <3>3, <4>1
      <3> QED BY <1>0, <1>5, <2>3, <3>4, <3>5, <3>6 DEF WipeFlow
    <2> QED BY <2>2, <2>3
  <1> QED BY <1>2, <1>3, <1>4, <1>5 DEF WipeInv, SeenInv

LEMMA WipeInit == Init => RackInv /\ EndsInv /\ WipeInv
  <1> SUFFICES ASSUME Init PROVE RackInv /\ EndsInv /\ WipeInv
    OBVIOUS
  <1>1. Stage = "idle" /\ \A p \in Pod : ~pods[p].dirty
    BY IdleFacts DEF Init, Stage
  <1> QED BY <1>1 DEF RackInv, InBatch, EndsInv, Ends, WipeInv, TakenBack, DirtyInv, SeenInv

\* A volume is wiped for a pod that does not use it.
LEMMA WipesRemoved ==
    ASSUME TypeOK, OutInv, ConfInv, RackInv, WipeInv, [Next]_vars,
           NEW p \in Pod, pods[p].dirty, ~pods'[p].dirty
    PROVE  pods[p].s = 1 \/ p \in undone
  <1>1. Washed(p)
    BY StepWipes DEF Marked, Rewarmed
  <1>2. cm[RackOf(p)].s # 1
    BY <1>1 DEF Washed
  <1> QED BY <1>2, Bits DEF WipeInv, DirtyInv

\* The volume of a pod is wiped only when its server no longer uses it
\* (handleNSOrDeviceRemoval marks it, initialisation wipes it), for every
\* sequence of edits, failures and passes cut short, unless the removal was
\* taken back midway or the status was completed without the pod (undone).
THEOREM WipedWhenRemoved == Spec => WipeOnlyRemoved
  <1> DEFINE IInv == TypeOK /\ OutInv /\ CleanInv /\ RollInv /\ RackInv /\ EndsInv /\ WipeInv
  <1>1. Init => IInv
    BY InitType, OutInvInit, RolloutInit, WipeInit
  <1>2. IInv /\ [Next]_vars => IInv'
    <2> SUFFICES ASSUME TypeOK, OutInv, CleanInv, RollInv, RackInv, EndsInv, WipeInv, [Next]_vars PROVE IInv'
      OBVIOUS
    <2>1. TypeOK' /\ OutInv' /\ CleanInv' /\ RollInv' /\ EndsInv'
      BY NextType, OutInvKept, CleanInvKept, RollInvKept, EndsInvKept
    <2>2. RackInv'
      BY WipeFlows DEF WipeFlow
    <2>3. WipeInv'
      BY <2>1, WipeInvKept DEF RollInv
    <2> QED BY <2>1, <2>2, <2>3
  <1>3. IInv /\ [Next]_vars => [\A p \in Pod : pods[p].dirty /\ ~pods'[p].dirty => pods[p].s = 1 \/ p \in undone]_vars
    BY WipesRemoved DEF RollInv
  <1> QED BY <1>1, <1>2, <1>3, PTL DEF Spec, WipeOnlyRemoved

=============================================================================
