------------------------ MODULE RackScaling_proofs ------------------------
(* For every size of the rack and of a batch and any number of edits and   *)
(* faults: no pod is launched over the volume of a removed member; as long *)
(* as no batch was shifted the pods that go are the selected ones and no   *)
(* volume in use is lost; and the pods that stay, and that an earlier pass *)
(* quiesced, are out of their quiesce before the parallel scale-down       *)
(* removes others.                                                         *)
EXTENDS RackScaling, FiniteSetTheorems, TLAPS

\* Most steps are about sets and cases; those with arithmetic cite SMT.
USE ZenonT(30)

-----------------------------------------------------------------------------
(* The inductive invariant *)

WeakTypes ==
    /\ size \in Int /\ replicas \in Int /\ target \in Int
    /\ pod \in [Ordinals -> PodStates]
    /\ vol \in [Ordinals -> VolumeStates]
    /\ status \subseteq Ordinals /\ stale \subseteq Ordinals
    /\ known \subseteq Ordinals /\ batch \subseteq Ordinals /\ clean \subseteq Ordinals
    /\ resume \in {"idle", "raise", "restart", "ready"}

\* A volume left behind has a status entry, which is what the clean-up goes by:
\* until the pass lowers the size itself, it has read all of them, and none is
\* left when it raises the size.
StaleInv ==
    /\ \A k \in stale : k >= replicas /\ k \in status /\ vol[k] # "none"
    /\ pc \in {"undo", "quiesce", "rack"} => stale \subseteq known
    /\ pc \in {"volumes", "status"} /\ resume = "raise" => stale \subseteq clean
    /\ pc = "raise" => stale = {}

\* The pods a scale-up is going to launch are not there.
Raising == pc = "raise" \/ (pc \in {"volumes", "status"} /\ resume = "raise")

RaiseInv ==
    Raising => /\ replicas < target
               /\ \A k \in Ordinals : replicas <= k /\ k < target => pod[k] = "absent"

\* The batch is the end of the StatefulSet, and what is cleaned up is beyond it.
BatchInv ==
    ~shifted =>
        /\ \A k \in Ordinals : k < replicas /\ pod[k] # "absent" => vol[k] = "bound"
        /\ pc \in {"safe", "migrate", "cut"} =>
             /\ batch = replicas - Cardinality(batch) .. replicas - 1
             /\ target <= replicas - Cardinality(batch)
             /\ \A k \in batch : vol[k] = "bound"
        /\ pc \in {"wait", "validate"} =>
             /\ batch = replicas .. replicas + Cardinality(batch) - 1
             /\ \A k \in batch : vol[k] = "bound"
        /\ pc \in {"volumes", "status"} => \A k \in clean : k >= replicas

IInv == WeakTypes /\ StaleInv /\ RaiseInv /\ BatchInv

-----------------------------------------------------------------------------
\* A set of pods is finite, and no larger than the rack can be.
LEMMA OrdinalSets ==
    ASSUME NEW S, S \subseteq Ordinals
    PROVE  IsFiniteSet(S) /\ Cardinality(S) \in Nat /\ Cardinality(S) <= MaxPods
  <1>1. MaxPods \in Nat \ {0} /\ 0 \in Int /\ MaxPods - 1 \in Int
    BY SMT, ScalingAssumption DEF ScalingAssumption
  <1>2. IsFiniteSet(Ordinals) /\ Cardinality(Ordinals) = MaxPods
    BY SMT, <1>1, FS_Interval DEF Ordinals
  <1> QED BY <1>1, <1>2, FS_Subset, FS_CardinalityType

\* A listing that is in order and as long as the StatefulSet is the StatefulSet.
LEMMA OrderedIsWhole ==
    ASSUME WeakTypes, OrderedListing
    PROVE  /\ Cardinality(Listed) \in 0 .. MaxPods
           /\ Listed = 0 .. Cardinality(Listed) - 1
  <1> DEFINE n == Cardinality(Listed)
  <1>1. Listed \subseteq Ordinals /\ n \in Nat /\ n <= MaxPods
    BY OrdinalSets DEF Listed
  <1>2. Listed \subseteq 0 .. n - 1
    BY SMT, <1>1 DEF OrderedListing, Ordinals
  <1>3. IsFiniteSet(0 .. n - 1) /\ Cardinality(0 .. n - 1) = n
    BY SMTT(30), <1>1, FS_Interval
  <1>4. Listed = 0 .. n - 1
    BY <1>2, <1>3, FS_Subset
  <1> QED BY SMT, <1>1, <1>4, ScalingAssumption DEF ScalingAssumption

-----------------------------------------------------------------------------
(* Steps that many actions take *)

\* A pass that ends holds nothing.
LEMMA PassEnds ==
    ASSUME IInv, EndPass, UNCHANGED <<size, replicas, vol, status, stale>>,
           pod' \in [Ordinals -> PodStates],
           \A k \in Ordinals : pod'[k] # "absent" => pod[k] # "absent"
    PROVE  IInv'
  <1> USE DEF IInv
  <1>1. WeakTypes'
    BY SMT DEF WeakTypes, EndPass
  <1>2. StaleInv' /\ RaiseInv'
    BY DEF StaleInv, RaiseInv, Raising, EndPass
  <1>3. BatchInv'
    BY DEF BatchInv, EndPass
  <1> QED BY <1>1, <1>2, <1>3

\* The same when nothing of the rack changes.
LEMMA PassEndsQuietly ==
    ASSUME IInv, EndPass, UNCHANGED <<size, replicas, pod, vol, status, stale>>
    PROVE  IInv'
  BY PassEnds DEF IInv, WeakTypes

\* The pass goes to a stage of which the invariant asks no more.
LEMMA PassGoesOn ==
    ASSUME IInv, NEW next, Goto(next), UNCHANGED <<size, replicas, pod, vol, status, stale>>,
           \/ pc \in {"undo", "quiesce"} /\ next = "rack"
           \/ pc = "safe" /\ next = "migrate"
           \/ pc = "migrate" /\ next = "cut"
           \/ pc = "wait" /\ next = "validate"
           \/ next \in {"tail", "restart", "ready"}
    PROVE  IInv'
  <1> USE DEF IInv
  <1>1. WeakTypes'
    BY DEF WeakTypes, Goto
  <1>2. StaleInv' /\ RaiseInv'
    BY DEF StaleInv, RaiseInv, Raising, Goto
  <1>3. BatchInv'
    BY DEF BatchInv, Goto
  <1> QED BY <1>1, <1>2, <1>3

\* A step of Kubernetes: pods come only below replicas and with a bound
\* volume, volumes go only without a pod.
LEMMA OutsideStep ==
    ASSUME IInv, UNCHANGED <<replicas, pc, target, known, batch, clean, resume, shifted>>,
           size' \in Int, pod' \in [Ordinals -> PodStates], vol' \in [Ordinals -> VolumeStates],
           status \subseteq status', status' \subseteq Ordinals, stale' \subseteq stale,
           \A k \in stale' : vol'[k] # "none",
           \A k \in Ordinals : pod'[k] # "absent" => pod[k] # "absent" \/ (k < replicas /\ vol'[k] = "bound"),
           \A k \in Ordinals : vol[k] = "bound" => vol'[k] = "bound"
    PROVE  IInv'
  <1> USE DEF IInv
  <1>1. WeakTypes'
    BY DEF WeakTypes
  <1>2. StaleInv'
    BY DEF StaleInv
  <1>3. RaiseInv'
    BY SMT DEF RaiseInv, Raising, WeakTypes, Ordinals
  <1>4. BatchInv'
    BY DEF BatchInv, WeakTypes
  <1> QED BY <1>1, <1>2, <1>3, <1>4

-----------------------------------------------------------------------------
(* The invariant *)

\* The invariant holds before the first pass.
LEMMA InitInv == Init => IInv
  <1> SUFFICES ASSUME Init PROVE IInv
    OBVIOUS
  <1>0. MaxPods \in Nat \ {0}
    BY ScalingAssumption DEF ScalingAssumption
  <1>1. WeakTypes
    BY SMT, <1>0 DEF Init, WeakTypes, PodStates, VolumeStates, Ordinals
  <1>2. StaleInv /\ RaiseInv
    BY DEF Init, StaleInv, RaiseInv, Raising
  <1>3. BatchInv
    BY DEF Init, BatchInv
  <1> QED BY <1>1, <1>2, <1>3 DEF IInv

\* A pass begins with the whole status, in which every volume left behind has its entry.
LEMMA StartPassInv ==
    ASSUME IInv, StartPass
    PROVE  IInv'
  <1>1. CASE ~OrderedListing
    BY <1>1, PassEndsQuietly DEF StartPass, Requeue, rack
  <1>2. CASE OrderedListing
    <2> USE <1>2 DEF IInv
    <2>1. WeakTypes'
      BY DEF WeakTypes, StartPass, rack
    <2>2. pc' \in {"undo", "rack"} /\ known' = status
      BY DEF StartPass
    <2>3. StaleInv' /\ RaiseInv'
      BY <2>2 DEF StaleInv, RaiseInv, Raising, StartPass, rack
    <2>4. BatchInv'
      BY <2>2 DEF BatchInv, StartPass, rack
    <2> QED BY <2>1, <2>3, <2>4
  <1> QED BY <1>1, <1>2

\* The parallel quiesce changes servers and annotations only.
LEMMA ReconcileQuiesceUndoInv ==
    ASSUME IInv, ReconcileQuiesceUndo
    PROVE  IInv'
  <1>1. CASE Requeue
    BY <1>1, PassEndsQuietly DEF ReconcileQuiesceUndo, Requeue
  <1>2. CASE ~Requeue
    <2>1. /\ pc = "undo" /\ pc' \in {"rack", "quiesce"} /\ (shifted => shifted')
          /\ UNCHANGED <<target, known, batch, clean, resume, size, replicas, pod, vol, status, stale>>
      BY <1>2 DEF ReconcileQuiesceUndo
    <2> USE DEF IInv
    <2>2. WeakTypes'
      BY <2>1 DEF WeakTypes
    <2>3. StaleInv' /\ RaiseInv'
      BY <2>1 DEF StaleInv, RaiseInv, Raising
    <2>4. BatchInv'
      BY <2>1 DEF BatchInv
    <2> QED BY <2>2, <2>3, <2>4
  <1> QED BY <1>1, <1>2

\* A batch from a listing as long as the StatefulSet is the end of it.
LEMMA SelectBatchInv ==
    ASSUME IInv, SelectBatch
    PROVE  IInv'
  <1>1. CASE Requeue
    BY <1>1, PassEndsQuietly DEF SelectBatch, Requeue, rack
  <1>2. CASE ~Requeue
    <2> DEFINE n == Cardinality(Listed)
               len == Smaller(Chunk, replicas - target)
    <2>1. /\ OrderedListing /\ replicas - target <= n /\ replicas > target
          /\ batch' = n - len .. n - 1 /\ pc' \in {"safe", "migrate"}
          /\ shifted' = (shifted \/ n # replicas)
          /\ UNCHANGED <<target, known, clean, resume, size, replicas, pod, vol, status, stale>>
      <3>1. OrderedListing /\ ~(replicas - target > n) /\ replicas > target /\ batch' = PodsBatch
            /\ pc' \in {"safe", "migrate"} /\ shifted' = (shifted \/ n # replicas)
            /\ UNCHANGED <<target, known, clean, resume, size, replicas, pod, vol, status, stale>>
        BY <1>2 DEF SelectBatch, rack
      <3>2. n \in Int /\ replicas \in Int /\ target \in Int
        BY SMT, <3>1, OrderedIsWhole DEF IInv, WeakTypes
      <3> QED BY SMT, <3>1, <3>2 DEF PodsBatch
    <2>2. n \in 0 .. MaxPods /\ Listed = 0 .. n - 1 /\ MaxPods \in Nat
      BY <2>1, OrderedIsWhole, ScalingAssumption DEF IInv, ScalingAssumption
    <2>3. len \in 1 .. n /\ len <= replicas - target
      BY SMT, <2>1, <2>2, ScalingAssumption DEF IInv, WeakTypes, Smaller, Chunk, ScalingAssumption
    <2> HIDE DEF len, n
    <2>4. batch' \subseteq Listed /\ batch' \subseteq Ordinals
      BY SMT, <2>1, <2>2, <2>3 DEF Ordinals
    <2>5. Cardinality(batch') = len
      BY SMT, <2>1, <2>2, <2>3, FS_Interval
    <2>6. WeakTypes'
      BY <2>1, <2>4 DEF IInv, WeakTypes
    <2>7. StaleInv' /\ RaiseInv'
      BY <2>1 DEF IInv, StaleInv, RaiseInv, Raising
    <2>8. BatchInv'
      <3> SUFFICES ASSUME ~shifted' PROVE BatchInv'
        BY DEF BatchInv
      <3>1. ~shifted /\ n = replicas
        BY <2>1
      <3>2. \A k \in batch' : k \in Ordinals /\ k < replicas /\ pod[k] # "absent"
        BY SMT, <2>1, <2>2, <2>3, <2>4, <3>1 DEF Listed
      <3>3. \A k \in batch' : vol[k] = "bound"
        BY <3>1, <3>2 DEF IInv, BatchInv
      <3>4. batch' = replicas - Cardinality(batch') .. replicas - 1
        BY <2>1, <2>5, <3>1
      <3>5. target <= replicas - Cardinality(batch')
        BY SMT, <2>2, <2>3, <2>5 DEF IInv, WeakTypes
      <3> QED BY <2>1, <3>1, <3>3, <3>4, <3>5 DEF IInv, BatchInv
    <2> QED BY <2>6, <2>7, <2>8 DEF IInv
  <1> QED BY <1>1, <1>2

\* A wait goes on or ends the pass.
LEMMA WaitsInv ==
    ASSUME IInv, WaitSafeStop \/ ReconcileParallelScaleDownQuiesce \/ WaitMigration \/ WaitRemoved
    PROVE  IInv'
  <1>1. CASE WaitSafeStop
    BY <1>1, PassGoesOn, PassEndsQuietly DEF WaitSafeStop, Requeue
  <1>2. CASE ReconcileParallelScaleDownQuiesce
    BY <1>2, PassGoesOn, PassEndsQuietly
        DEF ReconcileParallelScaleDownQuiesce, Requeue
  <1>3. CASE WaitMigration
    BY <1>3, PassGoesOn, PassEndsQuietly DEF WaitMigration, Requeue, rack
  <1>4. CASE WaitRemoved
    BY <1>4, PassGoesOn, PassEndsQuietly DEF WaitRemoved, Requeue, rack
  <1> QED BY <1>1, <1>2, <1>3, <1>4

\* Lowering the size puts the batch beyond the StatefulSet.
LEMMA CutReplicasInv ==
    ASSUME IInv, CutReplicas
    PROVE  IInv'
  <1> DEFINE c == Cardinality(batch)
  <1>1. c \in Nat /\ replicas \in Int
    BY OrdinalSets DEF IInv, WeakTypes
  <1>2. /\ pc = "cut" /\ replicas' = replicas - c
        /\ stale' = stale \cup {k \in status : k >= replicas' /\ vol[k] # "none"}
        /\ \/ pc' = "wait" /\ clean' = clean /\ resume' = resume
           \/ pc' \in {"volumes", "idle"} /\ clean' = batch /\ resume' = "idle"
        /\ UNCHANGED <<size, target, known, batch, pod, vol, status, shifted>>
    BY DEF CutReplicas, Goto, CleanupPods
  <1> HIDE DEF c
  <1> USE DEF IInv
  <1>3. WeakTypes'
    BY SMT, <1>1, <1>2 DEF WeakTypes
  <1>4. StaleInv'
    <2>1. \A k \in stale : k \in Int
      BY SMT, ScalingAssumption DEF WeakTypes, Ordinals, ScalingAssumption
    <2>2. \A k \in stale' : k >= replicas' /\ k \in status /\ vol[k] # "none"
      BY SMT, <1>1, <1>2, <2>1 DEF StaleInv
    <2> QED BY <1>2, <2>2 DEF StaleInv
  <1>5. RaiseInv'
    BY <1>2 DEF RaiseInv, Raising
  <1>6. BatchInv'
    <2> SUFFICES ASSUME ~shifted PROVE BatchInv'
      BY <1>2 DEF BatchInv
    <2>1. \A k \in Ordinals : k \in Int
      BY SMT, ScalingAssumption DEF Ordinals, ScalingAssumption
    <2>2. batch = replicas - c .. replicas - 1 /\ \A k \in batch : vol[k] = "bound"
      BY <1>2 DEF BatchInv, c
    <2>3. batch' = replicas' .. replicas' + Cardinality(batch') - 1 /\ \A k \in batch' : vol'[k] = "bound"
      BY SMT, <1>1, <1>2, <2>2 DEF c
    <2>4. \A k \in Ordinals : k < replicas' /\ pod'[k] # "absent" => vol'[k] = "bound"
      BY SMT, <1>1, <1>2, <2>1 DEF BatchInv
    <2>5. \A k \in batch : k >= replicas'
      BY SMT, <1>1, <1>2, <2>2
    <2> QED BY <1>2, <2>3, <2>4, <2>5 DEF BatchInv
  <1> QED BY <1>3, <1>4, <1>5, <1>6

\* A roll-back finds the volumes of the batch, and keeps only what stays beyond.
LEMMA ValidateInv ==
    ASSUME IInv, ValidateSCClusterState
    PROVE  IInv'
  <1> USE DEF IInv
  <1>1. CASE RollBack
    <2> DEFINE c == Cardinality(batch)
    <2>1. c \in Nat /\ replicas \in Int
      BY OrdinalSets DEF WeakTypes
    <2>2. /\ pc = "validate" /\ replicas' = replicas + c
          /\ stale' = {k \in stale : k >= replicas'}
          /\ EndPass /\ UNCHANGED <<size, pod, vol, status>>
      BY <1>1 DEF ValidateSCClusterState, RollBack, Requeue
    <2> HIDE DEF c
    <2>3. WeakTypes'
      BY SMT, <2>1, <2>2 DEF WeakTypes, EndPass
    <2>4. StaleInv' /\ RaiseInv'
      BY <2>2 DEF StaleInv, RaiseInv, Raising, EndPass
    <2>5. BatchInv'
      <3> SUFFICES ASSUME ~shifted PROVE BatchInv'
        BY <2>2 DEF BatchInv, EndPass
      <3>1. \A k \in Ordinals : k \in Int
        BY SMT, ScalingAssumption DEF Ordinals, ScalingAssumption
      <3>2. batch = replicas .. replicas + c - 1 /\ \A k \in batch : vol[k] = "bound"
        BY <2>2 DEF BatchInv, c
      <3>3. \A k \in Ordinals : k < replicas' => k < replicas \/ k \in batch
        BY SMT, <2>1, <2>2, <3>1, <3>2
      <3> QED BY <2>2, <3>2, <3>3 DEF BatchInv, EndPass
    <2> QED BY <2>3, <2>4, <2>5
  <1>2. CASE ~RollBack
    <2>1. /\ pc = "validate" /\ pc' \in {"volumes", "idle"} /\ clean' = batch /\ resume' = "idle"
          /\ UNCHANGED <<size, target, known, batch, shifted, replicas, pod, vol, status, stale>>
      BY <1>2 DEF ValidateSCClusterState, CleanupPods, rack
    <2>2. WeakTypes'
      BY <2>1 DEF WeakTypes
    <2>3. StaleInv' /\ RaiseInv'
      BY <2>1 DEF StaleInv, RaiseInv, Raising
    <2>4. BatchInv'
      <3> SUFFICES ASSUME ~shifted PROVE BatchInv'
        BY <2>1 DEF BatchInv
      <3>1. \A k \in batch : k >= replicas
        BY SMT, <2>1, OrdinalSets DEF BatchInv, WeakTypes
      <3> QED BY <2>1, <3>1 DEF BatchInv
    <2> QED BY <2>2, <2>3, <2>4
  <1> QED BY <1>1, <1>2

\* Claims are deleted beyond the StatefulSet only.
LEMMA RemovePVCsInv ==
    ASSUME IInv, RemovePVCs
    PROVE  IInv'
  <1> USE DEF IInv
  <1>1. /\ pc = "volumes" /\ pc' = "status"
        /\ vol' = [k \in Ordinals |-> IF k \in clean /\ vol[k] = "bound" THEN "terminating" ELSE vol[k]]
        /\ UNCHANGED <<size, replicas, target, known, batch, clean, resume, shifted, pod, status, stale>>
    BY DEF RemovePVCs, Goto
  <1>2. WeakTypes'
    BY <1>1 DEF WeakTypes, VolumeStates
  <1>3. StaleInv'
    BY <1>1 DEF StaleInv, WeakTypes
  <1>4. RaiseInv'
    BY <1>1 DEF RaiseInv, Raising
  <1>5. BatchInv'
    <2> SUFFICES ASSUME ~shifted PROVE BatchInv'
      BY <1>1 DEF BatchInv
    <2>1. \A k \in clean : k >= replicas /\ k \in Int
      BY SMT, <1>1, ScalingAssumption DEF BatchInv, WeakTypes, Ordinals, ScalingAssumption
    <2>2. \A k \in Ordinals : k < replicas => vol'[k] = vol[k]
      BY SMT, <1>1, <2>1 DEF WeakTypes
    <2> QED BY <1>1, <2>2 DEF BatchInv
  <1> QED BY <1>2, <1>3, <1>4, <1>5

\* Status entries go once the volumes are gone, so none is stale then.
LEMMA RemovePodStatusInv ==
    ASSUME IInv, RemovePodStatus
    PROVE  IInv'
  <1>1. CASE UNCHANGED status /\ Requeue
    BY <1>1, PassEndsQuietly DEF RemovePodStatus, Requeue
  <1>2. CASE ~(UNCHANGED status /\ Requeue)
    <2>1. /\ pc = "status" /\ \A k \in clean : vol[k] = "none"
          /\ status' = status \ (clean \cap known)
          /\ \/ EndPass
             \/ Goto(resume)
          /\ UNCHANGED <<size, replicas, pod, vol, stale>>
      BY <1>2 DEF RemovePodStatus, Requeue, WaitSucceeds
    <2>2. \A k \in stale : k \notin clean
      BY <2>1 DEF IInv, StaleInv
    <2> USE DEF IInv
    <2>3. CASE EndPass
      <3>1. WeakTypes'
        BY SMT, <2>1, <2>3 DEF WeakTypes, EndPass
      <3>2. StaleInv' /\ RaiseInv'
        BY <2>1, <2>2, <2>3 DEF StaleInv, RaiseInv, Raising, EndPass
      <3>3. BatchInv'
        BY <2>1, <2>3 DEF BatchInv, EndPass
      <3> QED BY <3>1, <3>2, <3>3
    <2>4. CASE Goto(resume)
      <3>1. WeakTypes'
        BY <2>1, <2>4 DEF WeakTypes, Goto
      <3>2. resume \in {"raise", "restart", "ready", "idle"}
        BY DEF WeakTypes
      <3>3. StaleInv' /\ RaiseInv'
        BY <2>1, <2>2, <2>4, <3>2 DEF StaleInv, RaiseInv, Raising, Goto
      <3>4. BatchInv'
        BY <2>1, <2>4, <3>2 DEF BatchInv, Goto
      <3> QED BY <3>1, <3>3, <3>4
    <2> QED BY <2>1, <2>3, <2>4
  <1> QED BY <1>1, <1>2

\* What a scale-up cleans up first is every volume left behind.
LEMMA ScaleUpInv ==
    ASSUME IInv, ScaleUp
    PROVE  IInv'
  <1>1. CASE Requeue
    BY <1>1, PassEndsQuietly DEF ScaleUp, Requeue, rack
  <1>2. CASE ~Requeue
    <2> USE DEF IInv
    <2>1. /\ pc = "rack" /\ replicas < target /\ ~\E k \in Listed : k >= replicas /\ k < target
          /\ pc' = (IF DanglingPods = {} THEN "raise" ELSE "volumes")
          /\ clean' = DanglingPods /\ resume' = "raise"
          /\ UNCHANGED <<size, replicas, target, known, batch, shifted, pod, vol, status, stale>>
      BY <1>2 DEF ScaleUp, CleanupPods, rack
    <2>2. stale \subseteq DanglingPods
      BY <2>1 DEF StaleInv, DanglingPods
    <2>3. WeakTypes'
      BY <2>1 DEF WeakTypes, DanglingPods
    <2>4. StaleInv'
      BY <2>1, <2>2 DEF StaleInv
    <2>5. RaiseInv'
      BY <2>1 DEF RaiseInv, Raising, Listed, WeakTypes
    <2>6. BatchInv'
      BY <2>1 DEF BatchInv, DanglingPods
    <2> QED BY <2>3, <2>4, <2>5, <2>6
  <1> QED BY <1>1, <1>2

\* spec.replicas is raised, over volumes that are gone.
LEMMA RaiseReplicasInv ==
    ASSUME IInv, RaiseReplicas
    PROVE  IInv'
  <1> USE DEF IInv
  <1>1. /\ pc = "raise" /\ pc' = "tail" /\ replicas' = target
        /\ UNCHANGED <<size, target, known, batch, clean, resume, shifted, pod, vol, status, stale>>
    BY DEF RaiseReplicas, Goto
  <1>2. WeakTypes'
    BY <1>1 DEF WeakTypes
  <1>3. StaleInv' /\ RaiseInv'
    BY <1>1 DEF StaleInv, RaiseInv, Raising
  <1>4. BatchInv'
    <2> SUFFICES ASSUME ~shifted PROVE BatchInv'
      BY <1>1 DEF BatchInv
    <2>1. \A k \in Ordinals : k \in Int
      BY SMT, ScalingAssumption DEF Ordinals, ScalingAssumption
    <2>2. \A k \in Ordinals : k < target /\ pod[k] # "absent" => k < replicas
      BY SMT, <1>1, <2>1 DEF RaiseInv, Raising, WeakTypes
    <2> QED BY <1>1, <2>2 DEF BatchInv
  <1> QED BY <1>2, <1>3, <1>4

\* The end of a pass, and the restart of the operator.
LEMMA RackEndInv ==
    ASSUME IInv, RackSized \/ CleanupDanglingPodsRack \/ RestartFailedPods \/ WaitForAllRacksReady \/ Crash
    PROVE  IInv'
  <1>1. CASE RackSized
    BY <1>1, PassGoesOn DEF RackSized, rack
  <1>2. CASE CleanupDanglingPodsRack
    <2> USE DEF IInv
    <2>1. /\ pc' \in {"restart", "ready", "volumes"}
          /\ clean' = DanglingPods /\ resume' \in {"restart", "ready"}
          /\ UNCHANGED <<size, replicas, target, known, batch, shifted, pod, vol, status, stale>>
      BY <1>2 DEF CleanupDanglingPodsRack, CleanupPods, rack
    <2>2. WeakTypes'
      BY <2>1 DEF WeakTypes, DanglingPods
    <2>3. StaleInv' /\ RaiseInv'
      BY <2>1 DEF StaleInv, RaiseInv, Raising
    <2>4. BatchInv'
      BY <2>1 DEF BatchInv, DanglingPods
    <2> QED BY <2>2, <2>3, <2>4
  <1>3. CASE RestartFailedPods
    <2>1. pod' \in [Ordinals -> PodStates] /\ \A k \in Ordinals : pod'[k] # "absent" => pod[k] # "absent"
      BY <1>3 DEF RestartFailedPods, IInv, WeakTypes, PodStates
    <2> QED BY <1>3, <2>1, PassEnds DEF RestartFailedPods, Requeue
  <1>4. CASE WaitForAllRacksReady
    BY <1>4, PassEndsQuietly DEF WaitForAllRacksReady, Requeue
  <1>5. CASE Crash
    BY <1>5, PassEndsQuietly DEF Crash, Requeue, rack
  <1> QED BY <1>1, <1>2, <1>3, <1>4, <1>5

\* Users, Kubernetes and the pods.
LEMMA OutsideInv ==
    ASSUME IInv, UserScales \/ \E k \in Ordinals : Progress(k) \/ PodFails(k) \/ PodEvicted(k)
    PROVE  IInv'
  <1>0. pod \in [Ordinals -> PodStates] /\ vol \in [Ordinals -> VolumeStates] /\ status \subseteq Ordinals
        /\ size \in Int /\ \A k \in stale : vol[k] # "none"
    BY DEF IInv, WeakTypes, StaleInv
  <1>1. CASE UserScales
    <2>1. size' \in Int
      BY SMT, <1>1, ScalingAssumption DEF UserScales, ScalingAssumption
    <2> QED BY <1>0, <1>1, <2>1, OutsideStep DEF UserScales, rack
  <1>2. ASSUME NEW k \in Ordinals, PodCreated(k) PROVE IInv'
    <2>1. pod' \in [Ordinals -> PodStates] /\ vol' \in [Ordinals -> VolumeStates]
      BY <1>0, <1>2 DEF PodCreated, SetPod, PodStates, VolumeStates
    <2>2. \A j \in Ordinals : pod'[j] # "absent" => pod[j] # "absent" \/ (j < replicas /\ vol'[j] = "bound")
      BY <1>0, <1>2 DEF PodCreated, SetPod
    <2>3. \A j \in Ordinals : vol[j] = "bound" => vol'[j] = "bound"
      BY <1>0, <1>2 DEF PodCreated
    <2>4. \A j \in stale : vol'[j] # "none"
      BY <1>0, <1>2 DEF PodCreated, IInv, WeakTypes
    <2> QED BY <1>0, <1>2, <2>1, <2>2, <2>3, <2>4, OutsideStep
        DEF PodCreated, pass
  <1>3. ASSUME NEW k \in Ordinals, PodJoins(k) \/ PodRecovers(k) \/ PodDeleted(k) \/ PodGone(k)
                                   \/ PodFails(k) \/ PodEvicted(k)
        PROVE  IInv'
    <2>1. pod' \in [Ordinals -> PodStates]
      BY SMTT(30), <1>0, <1>3 DEF PodJoins, PodRecovers, PodDeleted, PodGone, PodFails, PodEvicted, SetPod, PodStates
    <2>2. \A j \in Ordinals : pod'[j] # "absent" => pod[j] # "absent"
      BY SMTT(30), <1>0, <1>3 DEF PodJoins, PodRecovers, PodDeleted, PodGone, PodFails, PodEvicted, SetPod
    <2>3. status \subseteq status' /\ status' \subseteq Ordinals
          /\ UNCHANGED <<size, replicas, vol, stale, pc, target, known, batch, clean, resume, shifted>>
      BY <1>0, <1>3 DEF PodJoins, PodRecovers, PodDeleted, PodGone, PodFails, PodEvicted, pass
    <2> QED BY SMTT(30), <1>0, <2>1, <2>2, <2>3, OutsideStep
  <1>4. ASSUME NEW k \in Ordinals, VolumeGone(k) PROVE IInv'
    <2>1. vol' \in [Ordinals -> VolumeStates] /\ \A j \in Ordinals : vol[j] = "bound" => vol'[j] = "bound"
      BY <1>0, <1>4 DEF VolumeGone, VolumeStates
    <2>2. stale' \subseteq stale /\ \A j \in stale' : vol'[j] # "none"
      BY <1>0, <1>4 DEF VolumeGone, IInv, WeakTypes
    <2> QED BY <1>0, <1>4, <2>1, <2>2, OutsideStep DEF VolumeGone, pass
  <1> QED BY <1>1, <1>2, <1>3, <1>4 DEF Progress

\* Every step keeps the invariant.
LEMMA NextInv == IInv /\ [Next]_vars => IInv'
  <1>1. ASSUME IInv, UNCHANGED vars PROVE IInv'
    BY <1>1 DEF vars, rack, pass, IInv, WeakTypes, StaleInv, RaiseInv, Raising, BatchInv
  <1>2. ASSUME IInv, PassStep \/ Crash PROVE IInv'
    BY <1>2, StartPassInv, ReconcileQuiesceUndoInv, SelectBatchInv, WaitsInv, CutReplicasInv, ValidateInv,
       RemovePVCsInv, RemovePodStatusInv, ScaleUpInv, RaiseReplicasInv, RackEndInv DEF PassStep
  <1> QED BY SMTT(30), <1>1, <1>2, OutsideInv DEF Next

\* The invariant holds throughout.
LEMMA Invariance == Spec => []IInv
  BY InitInv, NextInv, PTL DEF Spec

-----------------------------------------------------------------------------
(* The theorems *)

\* The actions that change the size or a volume.
LEMMA OthersLeaveSize ==
    ASSUME Next
    PROVE  \/ CutReplicas \/ ValidateSCClusterState \/ RaiseReplicas \/ RemovePVCs
           \/ \E k \in Ordinals : PodCreated(k) \/ VolumeGone(k)
           \/ UNCHANGED <<replicas, vol>>
  <1>1. ASSUME StartPass \/ ReconcileQuiesceUndo \/ ReconcileParallelScaleDownQuiesce \/ SelectBatch
               \/ WaitSafeStop \/ WaitMigration \/ WaitRemoved
        PROVE  UNCHANGED <<replicas, vol>>
    BY <1>1
        DEF StartPass, ReconcileQuiesceUndo, ReconcileParallelScaleDownQuiesce, SelectBatch,
       WaitSafeStop, WaitMigration, WaitRemoved, rack
  <1>2. ASSUME RemovePodStatus \/ ScaleUp \/ RackSized \/ CleanupDanglingPodsRack \/ RestartFailedPods
               \/ WaitForAllRacksReady \/ Crash \/ UserScales
        PROVE  UNCHANGED <<replicas, vol>>
    BY <1>2
        DEF RemovePodStatus, ScaleUp, RackSized, CleanupDanglingPodsRack, RestartFailedPods,
       WaitForAllRacksReady, Crash, UserScales, rack
  <1>3. ASSUME NEW k \in Ordinals,
               PodJoins(k) \/ PodRecovers(k) \/ PodDeleted(k) \/ PodGone(k) \/ PodFails(k) \/ PodEvicted(k)
        PROVE  UNCHANGED <<replicas, vol>>
    BY <1>3 DEF PodJoins, PodRecovers, PodDeleted, PodGone, PodFails, PodEvicted
  <1> QED BY <1>1, <1>2, <1>3 DEF Next, PassStep, Progress

\* Whatever the sizes and however often things fail, the volume of a member
\* that was scaled away is gone before scaleUpRack lets a pod of its name be
\* launched again.
THEOREM NoStale == Spec => []NoStaleVolume
  <1>1. IInv => NoStaleVolume
    BY DEF IInv, StaleInv, NoStaleVolume
  <1> QED BY <1>1, Invariance, PTL

\* For every size, a claim of a pod that stays is deleted, or missing when a
\* scale-down is taken back, only after a batch was picked from a listing that
\* was not the StatefulSet.
THEOREM VolumesKept == Spec => OnlyShiftedLosesVolumes
  <1> DEFINE Kept == ~shifted =>
                       /\ \A k \in Ordinals : vol[k] = "bound" /\ vol'[k] = "terminating" => k >= replicas'
                       /\ pc = "validate" => \A k \in replicas .. replicas' - 1 : vol[k] = "bound"
  <1>1. IInv /\ [Next]_vars => [Kept]_vars
    <2> SUFFICES ASSUME IInv, Next, ~shifted
                 PROVE  /\ \A k \in Ordinals : vol[k] = "bound" /\ vol'[k] = "terminating" => k >= replicas'
                        /\ pc = "validate" => \A k \in replicas .. replicas' - 1 : vol[k] = "bound"
      OBVIOUS
    <2>0. replicas \in Int /\ pod \in [Ordinals -> PodStates] /\ vol \in [Ordinals -> VolumeStates]
      BY DEF IInv, WeakTypes
    <2>1. CASE RemovePVCs
      BY <2>0, <2>1 DEF RemovePVCs, IInv, BatchInv
    <2>2. CASE CutReplicas
      BY <2>0, <2>2 DEF CutReplicas
    <2>3. CASE ValidateSCClusterState
      <3>1. vol' = vol /\ (replicas' = replicas \/ replicas' = replicas + Cardinality(batch))
        BY <2>3 DEF ValidateSCClusterState, RollBack, rack
      <3>2. batch = replicas .. replicas + Cardinality(batch) - 1 /\ \A k \in batch : vol[k] = "bound"
        BY <2>3 DEF ValidateSCClusterState, IInv, BatchInv
      <3>3. Cardinality(batch) \in Nat
        BY OrdinalSets DEF IInv, WeakTypes
      <3>4. \A k \in replicas .. replicas' - 1 : k \in batch
        BY SMT, <2>0, <3>1, <3>2, <3>3
      <3>5. \A k \in Ordinals : ~(vol[k] = "bound" /\ vol'[k] = "terminating")
        BY <3>1
      <3> QED BY <3>2, <3>4, <3>5
    <2>4. CASE RaiseReplicas
      BY <2>0, <2>4 DEF RaiseReplicas
    <2>5. CASE \E k \in Ordinals : PodCreated(k) \/ VolumeGone(k)
      <3>1. \A j \in Ordinals : ~(vol[j] = "bound" /\ vol'[j] = "terminating")
        BY <2>0, <2>5 DEF PodCreated, VolumeGone
      <3>2. replicas' = replicas
        BY <2>5 DEF PodCreated, VolumeGone
      <3> QED BY SMT, <2>0, <3>1, <3>2
    <2>6. CASE UNCHANGED <<replicas, vol>>
      BY SMT, <2>0, <2>6
    <2> QED BY <2>1, <2>2, <2>3, <2>4, <2>5, <2>6, OthersLeaveSize
  <1> QED BY <1>1, Invariance, PTL DEF Spec, OnlyShiftedLosesVolumes

\* For every size, the members that lowering spec.replicas takes out are the
\* batch that scaleDownRack selected, checked and quiesced, unless the batch
\* was picked from a listing that was not the StatefulSet.
THEOREM SelectedAreRemoved == Spec => RemovedWereSelected
  <1> DEFINE Selected == ~shifted /\ replicas' < replicas =>
                           \A k \in replicas' .. replicas - 1 : pod[k] = "ready" => k \in batch
  <1>1. IInv /\ [Next]_vars => [Selected]_vars
    <2> SUFFICES ASSUME IInv, Next, ~shifted, replicas' < replicas
                 PROVE  \A k \in replicas' .. replicas - 1 : pod[k] = "ready" => k \in batch
      OBVIOUS
    <2>0. replicas \in Int /\ target \in Int /\ Cardinality(batch) \in Nat
      BY OrdinalSets DEF IInv, WeakTypes
    <2>1. CASE CutReplicas
      BY <2>0, <2>1 DEF CutReplicas, IInv, BatchInv
    <2>2. CASE ValidateSCClusterState
      BY SMT, <2>0, <2>2 DEF ValidateSCClusterState, RollBack, rack
    <2>3. CASE RaiseReplicas
      BY SMT, <2>0, <2>3 DEF RaiseReplicas, IInv, RaiseInv, Raising
    <2>4. CASE RemovePVCs \/ (\E k \in Ordinals : PodCreated(k) \/ VolumeGone(k)) \/ UNCHANGED <<replicas, vol>>
      BY SMT, <2>0, <2>4 DEF RemovePVCs, PodCreated, VolumeGone
    <2> QED BY <2>1, <2>2, <2>3, <2>4, OthersLeaveSize
  <1> QED BY <1>1, Invariance, PTL DEF Spec, RemovedWereSelected

-----------------------------------------------------------------------------
(* The pods that stay are in service *)

\* What a pass that takes nothing out of its quiesce may leave quiesced.
NoneKeptQuiesced == \A k \in quiesced \cap marked : ~(k < target)

OnlyTerminatingKept == \A k \in quiesced \cap marked : k < target => pod[k] = "terminating"

\* A pod that exists has a volume, and a status entry once its server ran; so
\* has an annotated one.  When the undo is skipped because every pod
\* terminates, either the quiesce asks for all pods to be ready again, or all
\* pods that go are annotated, hence have a status entry, hence must be ready
\* to be selected and safe to stop.
ServiceInv ==
    /\ \A k \in Ordinals : pod[k] # "absent" => vol[k] # "none"
    /\ \A k \in Ordinals : pod[k] = "ready" => k \in status
    /\ \A k \in quiesced : k \in Ordinals /\ pod[k] # "absent"
    /\ \A k \in marked : k \in Ordinals /\ pod[k] # "absent" /\ k \in status
    /\ pc \in {"idle", "undo", "quiesce", "rack"} => ignorable = {}
    /\ pc = "safe" => ignorable \subseteq batch
    /\ pc \in {"safe", "migrate", "cut", "wait", "validate"} => batch # {}
    /\ pc = "undo" => marked \subseteq known
    /\ pc = "quiesce" => targets \subseteq Ordinals /\ replicas > target

KeptInv ==
    parallel /\ ~failing /\ ~shifted =>
        /\ pc = "quiesce" => OnlyTerminatingKept /\ \A k \in targets : k >= target
        /\ pc = "rack" => \/ NoneKeptQuiesced
                          \/ /\ OnlyTerminatingKept
                             /\ \A k \in Ordinals : target <= k /\ k < replicas => k \in known
        /\ pc = "safe" => OnlyTerminatingKept
        /\ pc \in {"migrate", "cut"} => NoneKeptQuiesced

QInv == ServiceInv /\ KeptInv

\* A step that leaves the stages in which pods are selected.
LEMMA LeavesService ==
    ASSUME QInv, UNCHANGED pod, quiesced' \subseteq quiesced, marked' \subseteq marked,
           \A k \in Ordinals : vol[k] # "none" => vol'[k] # "none",
           \A k \in Ordinals : k \in status /\ pod[k] # "absent" => k \in status',
           pc' \in {"idle", "wait", "validate", "volumes", "status", "raise", "tail", "restart", "ready"},
           pc' = "idle" => ignorable' = {},
           pc' \in {"wait", "validate"} => batch' # {}
    PROVE  QInv'
  <1>1. ServiceInv'
    BY DEF QInv, ServiceInv
  <1>2. KeptInv'
    BY DEF KeptInv
  <1> QED BY SMTT(30), <1>1, <1>2 DEF QInv

\* A pass that ends and leaves the pods alone.
LEMMA EndsService ==
    ASSUME QInv, EndPass, UNCHANGED <<pod, vol, status>>, quiesced' \subseteq quiesced, marked' \subseteq marked
    PROVE  QInv'
  BY LeavesService DEF EndPass

\* A step of Kubernetes neither quiesces nor annotates, and a pod that
\* terminates stays so until it is gone.
LEMMA OutsideService ==
    ASSUME QInv,
           UNCHANGED <<parallel, replicas, pc, target, known, targets, batch, ignorable, failing, shifted>>,
           \A k \in Ordinals : pod'[k] # "absent" => vol'[k] # "none",
           \A k \in Ordinals : pod'[k] = "ready" => k \in status',
           \A k \in quiesced' : k \in quiesced /\ pod'[k] # "absent",
           \A k \in quiesced' : pod[k] = "terminating" => pod'[k] = "terminating",
           \A k \in marked' : k \in marked /\ pod'[k] # "absent",
           status \subseteq status'
    PROVE  QInv'
  <1>1. ServiceInv'
    BY DEF QInv, ServiceInv
  <1>2. NoneKeptQuiesced => NoneKeptQuiesced'
    BY DEF NoneKeptQuiesced
  <1>3. OnlyTerminatingKept => OnlyTerminatingKept'
    BY DEF OnlyTerminatingKept
  <1>4. KeptInv'
    BY <1>2, <1>3 DEF QInv, KeptInv
  <1> QED BY SMTT(30), <1>1, <1>4 DEF QInv

\* The invariant holds before the first pass.
LEMMA InitService == Init => QInv
  <1> SUFFICES ASSUME Init PROVE QInv
    OBVIOUS
  <1>1. ServiceInv
    BY SMT, ScalingAssumption DEF Init, ServiceInv, Ordinals, ScalingAssumption
  <1>2. KeptInv
    BY DEF Init, KeptInv
  <1> QED BY <1>1, <1>2 DEF QInv

\* A pass lists the pods.
LEMMA StartPassService ==
    ASSUME QInv, StartPass
    PROVE  QInv'
  <1>1. CASE ~OrderedListing
    BY <1>1, EndsService DEF StartPass, Requeue, rack
  <1>2. CASE OrderedListing
    <2>1. /\ pc = "idle" /\ known' = status /\ pc' = (IF parallel /\ ~failing' THEN "undo" ELSE "rack")
          /\ UNCHANGED <<parallel, pod, vol, status, quiesced, marked, ignorable>>
      BY <1>2 DEF StartPass, rack
    <2>2. ServiceInv'
      BY <2>1 DEF QInv, ServiceInv
    <2>3. KeptInv'
      BY <2>1 DEF KeptInv
    <2> QED BY <2>2, <2>3 DEF QInv
  <1> QED BY <1>1, <1>2

\* The pods still quiesced after the undo are the targets, unless all terminate.
LEMMA UndoService ==
    ASSUME IInv, QInv, ReconcileQuiesceUndo
    PROVE  QInv'
  <1> DEFINE undo == (marked \cap Listed) \ ScaleDownTargets
             n == Cardinality(Listed)
  <1>1. \/ Requeue /\ UNCHANGED <<pod, vol, status, quiesced, marked>>
        \/ /\ pc = "undo" /\ pc' = (IF ScaleDownTargets \subseteq marked THEN "rack" ELSE "quiesce")
           /\ ~(replicas > target /\ (~OrderedListing \/ replicas - target > n))
           /\ targets' = ScaleDownTargets
           /\ shifted' = (shifted \/ (targets' # {} /\ n # replicas))
           /\ UNCHANGED <<parallel, replicas, pod, vol, status, target, known, ignorable, failing>>
           /\ marked' \subseteq marked
           /\ \/ undo = {} /\ quiesced' = quiesced
              \/ (\A k \in Listed : pod[k] = "terminating") /\ quiesced' = quiesced
              \/ quiesced' = quiesced \ undo
    BY DEF ReconcileQuiesceUndo, SetPodQuiesceAnnotation
  <1>2. CASE Requeue /\ UNCHANGED <<pod, vol, status, quiesced, marked>>
    BY <1>2, EndsService DEF Requeue
  <1>3. CASE ~(Requeue /\ UNCHANGED <<pod, vol, status, quiesced, marked>>)
    <2>0. n \in Nat /\ n <= MaxPods /\ replicas \in Int /\ target \in Int /\ MaxPods \in Nat
      BY OrdinalSets, ScalingAssumption DEF IInv, WeakTypes, Listed, ScalingAssumption
    <2>1. ScaleDownTargets = IF replicas > target THEN n - (replicas - target) .. n - 1 ELSE {}
      BY DEF ScaleDownTargets
    <2>2. /\ pc = "undo" /\ pc' = (IF ScaleDownTargets \subseteq marked THEN "rack" ELSE "quiesce")
          /\ replicas > target => replicas - target <= n
          /\ targets' = ScaleDownTargets
          /\ shifted' = (shifted \/ (targets' # {} /\ n # replicas))
          /\ UNCHANGED <<parallel, replicas, pod, vol, status, target, known, ignorable, failing>>
          /\ marked' \subseteq marked
      BY SMTT(30), <1>1, <1>3, <2>0
    <2>3. \A k \in quiesced' \cap marked' : k \notin ScaleDownTargets => pod[k] = "terminating"
      BY SMTT(30), <1>1, <1>3 DEF QInv, ServiceInv, Listed
    <2>4. quiesced' \subseteq quiesced
      BY <1>1, <1>3
    <2> HIDE DEF n, undo
    <2>5. ScaleDownTargets \subseteq Ordinals
      BY SMT, <2>0, <2>1, <2>2 DEF Ordinals
    <2>6. ScaleDownTargets # {} => replicas > target
      BY <2>1
    <2>7. ServiceInv'
      BY <2>2, <2>4, <2>5, <2>6 DEF QInv, ServiceInv
    <2>8. ASSUME ~shifted'
          PROVE  \A k \in Int : k \in ScaleDownTargets <=> target <= k /\ k < replicas
      <3>1. CASE replicas > target
        <4>1. n - 1 \in ScaleDownTargets
          BY SMT, <2>0, <2>1, <2>2, <3>1
        <4>2. n = replicas
          BY <2>2, <2>8, <4>1
        <4> QED BY SMT, <2>0, <2>1, <3>1, <4>2
      <3>2. CASE ~(replicas > target)
        BY SMT, <2>0, <2>1, <3>2
      <3> QED BY <3>1, <3>2
    <2>9. \A k \in Ordinals : k \in Int
      BY SMT, <2>0 DEF Ordinals
    <2>10. \A k \in quiesced' : k \in Int
      BY <2>4, <2>9 DEF QInv, ServiceInv
    <2>11. KeptInv'
      <3> SUFFICES ASSUME ~shifted' PROVE KeptInv'
        BY DEF KeptInv
      <3>1. OnlyTerminatingKept'
        BY SMT, <2>0, <2>2, <2>3, <2>8, <2>10 DEF OnlyTerminatingKept
      <3>2. \A k \in targets' : k >= target'
        BY SMTT(30), <2>0, <2>2, <2>5, <2>8, <2>9
      <3>3. pc' = "rack" => \A k \in Ordinals : target' <= k /\ k < replicas' => k \in known'
        BY <2>2, <2>8, <2>9 DEF QInv, ServiceInv
      <3> QED BY <2>2, <3>1, <3>2, <3>3 DEF KeptInv
    <2> QED BY <2>7, <2>11 DEF QInv
  <1> QED BY <1>2, <1>3

\* The quiesce goes through only when every pod is ready.
LEMMA QuiesceService ==
    ASSUME IInv, QInv, ReconcileParallelScaleDownQuiesce
    PROVE  QInv'
  <1>1. CASE Requeue /\ UNCHANGED <<quiesced, marked>>
    BY <1>1, EndsService DEF ReconcileParallelScaleDownQuiesce, Requeue
  <1>2. CASE ~(Requeue /\ UNCHANGED <<quiesced, marked>>)
    <2>1. /\ pc = "quiesce" /\ pc' = "rack" /\ ServersReady
          /\ \A k \in targets \ ignorable : pod[k] = "ready"
          /\ quiesced' \subseteq quiesced \cup targets /\ marked' \subseteq marked \cup targets
          /\ UNCHANGED <<parallel, replicas, pod, vol, status, target, known, ignorable, failing, shifted>>
      BY <1>2
          DEF ReconcileParallelScaleDownQuiesce, SafeToStop, QuiescePods, SetPodQuiesceAnnotation, Goto
    <2>2. ignorable = {} /\ targets \subseteq Ordinals /\ replicas > target
      BY SMTT(30), <2>1 DEF QInv, ServiceInv
    <2>3. ServiceInv'
      BY <2>1, <2>2 DEF QInv, ServiceInv
    <2>4. KeptInv'
      <3> SUFFICES ASSUME parallel, ~failing, ~shifted PROVE NoneKeptQuiesced'
        BY <2>1 DEF KeptInv
      <3>1. OnlyTerminatingKept /\ \A k \in targets : k >= target
        BY <2>1 DEF QInv, KeptInv
      <3>2. replicas \in Int /\ target \in Int /\ \A k \in Ordinals : k \in Int
        BY SMT, ScalingAssumption DEF IInv, WeakTypes, Ordinals, ScalingAssumption
      <3>3. \A k \in Ordinals : k < target => pod[k] = "ready" /\ k \notin targets
        BY SMT, <2>1, <2>2, <3>1, <3>2 DEF ServersReady
      <3>4. \A k \in quiesced \cup targets : k \in Ordinals
        BY <2>2 DEF QInv, ServiceInv
      <3> QED BY <2>1, <3>1, <3>3, <3>4 DEF NoneKeptQuiesced, OnlyTerminatingKept
    <2> QED BY <2>3, <2>4 DEF QInv
  <1> QED BY <1>1, <1>2

\* A pod with a status entry is selected only when it is ready.
LEMMA SelectService ==
    ASSUME IInv, QInv, SelectBatch
    PROVE  QInv'
  <1>1. CASE Requeue
    BY <1>1, EndsService DEF SelectBatch, Requeue, rack
  <1>2. CASE ~Requeue
    <2> DEFINE n == Cardinality(Listed)
               len == Smaller(Chunk, replicas - target)
    <2>1. /\ pc = "rack" /\ replicas > target /\ OrderedListing /\ ~(replicas - target > n)
          /\ batch' = PodsBatch /\ shifted' = (shifted \/ n # replicas)
          /\ \A k \in batch' : pod[k] = "ready" \/ k \notin known
          /\ ignorable' \subseteq batch'
          /\ \/ pc' = "safe"
             \/ pc' = "migrate" /\ \A k \in batch' : pod[k] # "ready"
          /\ UNCHANGED <<parallel, replicas, pod, vol, status, target, failing, quiesced, marked>>
      BY <1>2 DEF SelectBatch, rack
    <2>2. n \in 0 .. MaxPods /\ MaxPods \in Nat /\ replicas \in Int /\ target \in Int
      BY <2>1, OrderedIsWhole, ScalingAssumption DEF IInv, WeakTypes, ScalingAssumption
    <2>3. batch' = n - len .. n - 1
      BY <2>1 DEF PodsBatch
    <2>4. len \in 1 .. n /\ len <= replicas - target
      BY SMT, <2>1, <2>2, ScalingAssumption DEF Smaller, Chunk, ScalingAssumption
    <2> HIDE DEF n, len
    <2>5. n - 1 \in batch' /\ n - 1 \in Ordinals
      BY SMTT(30), <2>2, <2>3, <2>4 DEF Ordinals
    <2>6. ServiceInv'
      BY <2>1, <2>5 DEF QInv, ServiceInv
    <2>7. KeptInv'
      <3> SUFFICES ASSUME parallel, ~failing, ~shifted' PROVE KeptInv'
        BY <2>1 DEF KeptInv
      <3>1. ~shifted /\ n = replicas
        BY <2>1
      <3>2. NoneKeptQuiesced => OnlyTerminatingKept
        BY DEF NoneKeptQuiesced, OnlyTerminatingKept
      <3>3. pc' = "migrate" => NoneKeptQuiesced
        <4>1. target <= n - 1 /\ n - 1 < replicas
          BY SMT, <2>1, <2>2, <3>1
        <4> QED BY <2>1, <2>5, <3>1, <4>1 DEF QInv, KeptInv
      <3>4. OnlyTerminatingKept
        BY <2>1, <3>1, <3>2 DEF QInv, KeptInv
      <3>5. OnlyTerminatingKept' /\ (NoneKeptQuiesced => NoneKeptQuiesced')
        BY <2>1, <3>4 DEF OnlyTerminatingKept, NoneKeptQuiesced
      <3> QED BY <2>1, <3>3, <3>5 DEF KeptInv
    <2> QED BY <2>6, <2>7 DEF QInv
  <1> QED BY <1>1, <1>2

\* The safe-stop check asks for every pod that stays to be ready.
LEMMA SafeStopService ==
    ASSUME IInv, QInv, WaitSafeStop
    PROVE  QInv'
  <1>1. CASE Requeue /\ UNCHANGED quiesced
    BY <1>1, EndsService DEF WaitSafeStop, Requeue
  <1>2. CASE ~(Requeue /\ UNCHANGED quiesced)
    <2>1. /\ pc = "safe" /\ pc' = "migrate" /\ ServersReady
          /\ \A k \in batch \ ignorable : pod[k] = "ready"
          /\ quiesced' \subseteq quiesced \cup (batch \ ignorable)
          /\ UNCHANGED <<parallel, replicas, pod, vol, status, target, batch, ignorable, failing, shifted, marked>>
      BY <1>2 DEF WaitSafeStop, WaitSucceeds, SafeToStop, QuiescePods, Goto
    <2>2. batch \subseteq Ordinals /\ replicas \in Int /\ target \in Int /\ \A k \in Ordinals : k \in Int
      BY SMT, ScalingAssumption DEF IInv, WeakTypes, Ordinals, ScalingAssumption
    <2>3. ServiceInv'
      BY <2>1, <2>2 DEF QInv, ServiceInv
    <2>4. KeptInv'
      <3> SUFFICES ASSUME parallel, ~failing, ~shifted PROVE NoneKeptQuiesced'
        BY <2>1 DEF KeptInv
      <3>1. OnlyTerminatingKept /\ ignorable \subseteq batch
        BY <2>1 DEF QInv, ServiceInv, KeptInv
      <3>2. Cardinality(batch) \in Nat /\ target <= replicas - Cardinality(batch)
            /\ batch = replicas - Cardinality(batch) .. replicas - 1
        BY <2>1, <2>2, OrdinalSets DEF IInv, BatchInv
      <3>3. \A k \in Ordinals : k < target => k \notin batch /\ k < replicas
        BY SMT, <2>2, <3>2
      <3>4. \A k \in Ordinals : k < target => pod[k] = "ready" /\ k \notin batch
        BY <2>1, <3>1, <3>3 DEF ServersReady
      <3>5. \A k \in quiesced \cup batch : k \in Ordinals
        BY <2>2 DEF QInv, ServiceInv
      <3> QED BY <2>1, <3>1, <3>4, <3>5 DEF NoneKeptQuiesced, OnlyTerminatingKept
    <2> QED BY <2>3, <2>4 DEF QInv
  <1> QED BY <1>1, <1>2

\* The steps of a pass after the batch is selected quiesce no pod.
LEMMA OtherPassService ==
    ASSUME IInv, QInv,
           \/ WaitMigration \/ CutReplicas \/ WaitRemoved \/ ValidateSCClusterState
           \/ RemovePVCs \/ RemovePodStatus \/ ScaleUp \/ RaiseReplicas \/ RackSized
           \/ CleanupDanglingPodsRack \/ RestartFailedPods \/ WaitForAllRacksReady \/ Crash
    PROVE  QInv'
  <1>1. CASE WaitMigration
    <2>1. CASE Requeue
      BY <1>1, <2>1, EndsService DEF WaitMigration, Requeue, rack
    <2>2. CASE ~Requeue
      <3>1. /\ pc = "migrate" /\ pc' = "cut"
            /\ UNCHANGED <<parallel, pod, vol, status, target, batch, failing, shifted, quiesced, marked>>
        BY SMTT(30), <1>1, <2>2 DEF WaitMigration, Goto, rack
      <3>2. ServiceInv'
        BY <3>1 DEF QInv, ServiceInv
      <3>3. KeptInv'
        BY SMTT(30), <3>1 DEF QInv, KeptInv, NoneKeptQuiesced
      <3> QED BY SMTT(30), <3>2, <3>3 DEF QInv
    <2> QED BY <2>1, <2>2
  <1>2. CASE CutReplicas
    <2>1. batch # {}
      BY SMTT(30), <1>2 DEF CutReplicas, QInv, ServiceInv
    <2> QED BY SMTT(30), <1>2, <2>1, LeavesService DEF CutReplicas, Goto, CleanupPods
  <1>3. CASE WaitRemoved
    <2>1. batch # {}
      BY <1>3 DEF WaitRemoved, QInv, ServiceInv
    <2>2. CASE Requeue
      BY SMTT(30), <1>3, <2>2, EndsService DEF WaitRemoved, Requeue, rack
    <2>3. CASE ~Requeue
      BY <1>3, <2>1, <2>3, LeavesService DEF WaitRemoved, Goto, rack
    <2> QED BY <2>2, <2>3
  <1>4. CASE ValidateSCClusterState
    <2>1. batch # {}
      BY <1>4 DEF ValidateSCClusterState, QInv, ServiceInv
    <2>2. CASE RollBack
      BY SMTT(30), <1>4, <2>2, EndsService DEF RollBack, Requeue
    <2>3. CASE ~RollBack
      BY SMTT(30), <1>4, <2>1, <2>3, LeavesService DEF ValidateSCClusterState, CleanupPods, rack
    <2> QED BY SMTT(30), <2>2, <2>3
  <1>5. CASE RemovePVCs
    <2>1. \A k \in Ordinals : vol[k] # "none" => vol'[k] # "none"
      BY SMTT(30), <1>5 DEF RemovePVCs
    <2> QED BY <1>5, <2>1, LeavesService DEF RemovePVCs, Goto
  <1>6. CASE RemovePodStatus
    <2>1. \/ Requeue \/ pc' \in {"raise", "restart", "ready"}
      BY <1>6 DEF RemovePodStatus, Goto, IInv, WeakTypes
    <2>2. \A k \in Ordinals : k \in status /\ pod[k] # "absent" => k \in status'
      <3>1. status' = status \/ (status' = status \ (clean \cap known) /\ \A k \in clean : vol[k] = "none")
        BY <1>6 DEF RemovePodStatus, WaitSucceeds
      <3> QED BY <3>1 DEF QInv, ServiceInv
    <2>3. UNCHANGED <<pod, vol, quiesced, marked>>
      BY <1>6 DEF RemovePodStatus
    <2> QED BY <2>1, <2>2, <2>3, LeavesService DEF Requeue, EndPass
  <1>7. CASE ScaleUp
    <2>1. CASE Requeue
      BY SMTT(30), <1>7, <2>1, EndsService DEF ScaleUp, Requeue, rack
    <2>2. CASE ~Requeue
      BY <1>7, <2>2, LeavesService DEF ScaleUp, CleanupPods, rack
    <2> QED BY <2>1, <2>2
  <1>8. CASE RaiseReplicas \/ RackSized \/ CleanupDanglingPodsRack
    BY <1>8, LeavesService
        DEF RaiseReplicas, RackSized, CleanupDanglingPodsRack, CleanupPods, Goto, rack
  <1>9. CASE RestartFailedPods
    <2>1. /\ \A k \in Ordinals : pod'[k] # "absent" <=> pod[k] # "absent"
          /\ \A k \in Ordinals : pod'[k] = "ready" => pod[k] = "ready"
      BY SMTT(30), <1>9 DEF RestartFailedPods
    <2>2. pc' = "idle" /\ ignorable' = {} /\ UNCHANGED <<vol, status, quiesced, marked>>
      BY <1>9 DEF RestartFailedPods, Requeue, EndPass
    <2>3. ServiceInv'
      BY <2>1, <2>2 DEF QInv, ServiceInv
    <2>4. KeptInv'
      BY <2>2 DEF KeptInv
    <2> QED BY <2>3, <2>4 DEF QInv
  <1>10. CASE WaitForAllRacksReady
    BY <1>10, EndsService DEF WaitForAllRacksReady, Requeue
  <1>11. CASE Crash
    BY <1>11, EndsService DEF Crash, Requeue, rack
  <1> QED BY <1>1, <1>2, <1>3, <1>4, <1>5, <1>6, <1>7, <1>8, <1>9, <1>10, <1>11

\* Users, Kubernetes and the pods.
LEMMA KubernetesService ==
    ASSUME IInv, QInv, UserScales \/ \E k \in Ordinals : Progress(k) \/ PodFails(k) \/ PodEvicted(k)
    PROVE  QInv'
  <1>0. /\ pod \in [Ordinals -> PodStates] /\ vol \in [Ordinals -> VolumeStates]
        /\ \A j \in Ordinals : pod[j] # "absent" => vol[j] # "none"
        /\ \A j \in Ordinals : pod[j] = "ready" => j \in status
        /\ \A j \in quiesced : j \in Ordinals /\ pod[j] # "absent"
        /\ \A j \in marked : j \in Ordinals /\ pod[j] # "absent"
    BY SMTT(30) DEF IInv, WeakTypes, QInv, ServiceInv
  <1>1. CASE UserScales
    BY <1>0, <1>1, OutsideService DEF UserScales, rack
  <1>2. ASSUME NEW k \in Ordinals, PodCreated(k) PROVE QInv'
    <2>1. /\ \A j \in Ordinals : j # k => pod'[j] = pod[j] /\ vol'[j] = vol[j]
          /\ pod[k] = "absent" /\ pod'[k] = "starting" /\ vol'[k] = "bound"
      BY <1>0, <1>2 DEF PodCreated, SetPod
    <2>2. UNCHANGED <<pass, parallel, replicas, status, quiesced, marked>>
      BY <1>2 DEF PodCreated
    <2> QED BY <1>0, <2>1, <2>2, OutsideService DEF pass
  <1>3. ASSUME NEW k \in Ordinals, VolumeGone(k) PROVE QInv'
    <2>1. /\ \A j \in Ordinals : j # k => vol'[j] = vol[j]
          /\ pod[k] = "absent" /\ pod' = pod
      BY <1>0, <1>3 DEF VolumeGone
    <2>2. UNCHANGED <<pass, parallel, replicas, status, quiesced, marked>>
      BY SMTT(30), <1>3 DEF VolumeGone
    <2> QED BY <1>0, <2>1, <2>2, OutsideService DEF pass
  <1>4. ASSUME NEW k \in Ordinals, PodJoins(k) \/ PodRecovers(k) \/ PodDeleted(k) \/ PodEvicted(k)
        PROVE  QInv'
    <2>1. /\ \A j \in Ordinals : j # k => pod'[j] = pod[j]
          /\ pod[k] \notin {"absent", "terminating"} /\ pod'[k] # "absent"
          /\ pod'[k] = "ready" => k \in status'
      BY SMTT(30), <1>0, <1>4 DEF PodJoins, PodRecovers, PodDeleted, PodEvicted, SetPod
    <2>2. UNCHANGED <<pass, parallel, replicas, vol, quiesced, marked>> /\ status \subseteq status'
      BY SMTT(30), <1>4 DEF PodJoins, PodRecovers, PodDeleted, PodEvicted
    <2> QED BY SMTT(30), <1>0, <2>1, <2>2, OutsideService DEF pass
  <1>5. ASSUME NEW k \in Ordinals, PodFails(k) PROVE QInv'
    <2>1. /\ \A j \in Ordinals : j # k => pod'[j] = pod[j]
          /\ pod[k] # "absent" /\ pod'[k] = "failed"
      BY <1>0, <1>5 DEF PodFails, SetPod
    <2>2. UNCHANGED <<pass, parallel, replicas, vol, status, marked>> /\ quiesced' = quiesced \ {k}
      BY SMTT(30), <1>5 DEF PodFails
    <2> QED BY <1>0, <2>1, <2>2, OutsideService DEF pass
  <1>6. ASSUME NEW k \in Ordinals, PodGone(k) PROVE QInv'
    <2>1. /\ \A j \in Ordinals : j # k => pod'[j] = pod[j]
          /\ pod'[k] = "absent"
      BY <1>0, <1>6 DEF PodGone, SetPod
    <2>2. /\ UNCHANGED <<pass, parallel, replicas, vol, status>>
          /\ quiesced' = quiesced \ {k} /\ marked' = marked \ {k}
      BY <1>6 DEF PodGone
    <2> QED BY SMTT(30), <1>0, <2>1, <2>2, OutsideService DEF pass
  <1> QED BY SMTT(30), <1>1, <1>2, <1>3, <1>4, <1>5, <1>6 DEF Progress

\* The invariant holds throughout.
LEMMA ServiceInvariance == Spec => []QInv
  <1>1. ASSUME QInv, UNCHANGED vars PROVE QInv'
    BY <1>1 DEF vars, rack, pass, QInv, ServiceInv, KeptInv, NoneKeptQuiesced, OnlyTerminatingKept
  <1>2. ASSUME IInv, QInv, Next PROVE QInv'
    BY <1>2, StartPassService, UndoService, QuiesceService, SelectService, SafeStopService,
       OtherPassService, KubernetesService DEF Next, PassStep
  <1> QED BY <1>1, <1>2, InitService, Invariance, PTL DEF Spec

\* For every size, in a pass with the parallel quiesce no pod that stays, and
\* that an earlier pass annotated and quiesced, is still quiesced when
\* spec.replicas is lowered, also when reconcileQuiesceUndo had no server to
\* talk to.
THEOREM KeptInService == Spec => KeptAreInService
  <1> DEFINE InService == parallel /\ ~failing /\ ~shifted /\ replicas' < replicas =>
                            quiesced \cap marked \cap (0 .. target - 1) = {}
  <1>1. IInv /\ QInv /\ [Next]_vars => [InService]_vars
    <2> SUFFICES ASSUME IInv, QInv, Next, parallel, ~failing, ~shifted, replicas' < replicas
                 PROVE  quiesced \cap marked \cap (0 .. target - 1) = {}
      OBVIOUS
    <2>0. replicas \in Int /\ target \in Int /\ Cardinality(batch) \in Nat
      BY OrdinalSets DEF IInv, WeakTypes
    <2>1. CASE CutReplicas
      BY SMT, <2>0, <2>1 DEF CutReplicas, QInv, KeptInv, NoneKeptQuiesced
    <2>2. CASE ValidateSCClusterState
      BY SMT, <2>0, <2>2 DEF ValidateSCClusterState, RollBack, rack
    <2>3. CASE RaiseReplicas
      BY SMT, <2>0, <2>3 DEF RaiseReplicas, IInv, RaiseInv, Raising
    <2>4. CASE \/ RemovePVCs
               \/ \E k \in Ordinals : PodCreated(k) \/ VolumeGone(k)
               \/ UNCHANGED <<replicas, vol>>
      <3>1. replicas' = replicas
        BY <2>4 DEF RemovePVCs, PodCreated, VolumeGone
      <3> QED BY SMT, <2>0, <3>1
    <2> QED BY <2>1, <2>2, <2>3, <2>4, OthersLeaveSize
  <1> QED BY <1>1, Invariance, ServiceInvariance, PTL DEF Spec, KeptAreInService
=============================================================================
