------------------------- MODULE RackRevision_proofs -------------------------
(* For any number of revisions, sizes, edits and faults: a cluster that is *)
(* reported as Completed has the rack of its status, with its size.        *)
EXTENDS RackRevision, TLAPS

\* Most steps are about sets and cases; those with arithmetic cite SMT.
USE ZenonT(30)

-----------------------------------------------------------------------------
(* The inductive invariant *)

WeakTypes ==
    /\ replicas \in [Revisions -> Int]
    /\ live \subseteq Revisions
    /\ mem.rev \in Revisions \cup {None} /\ mem.size \in Int
    /\ spec.rev \in Revisions \cup {None} /\ spec.size \in Int
    /\ goal \in Int

Sized == mem.rev # None => mem.rev \in live /\ replicas[mem.rev] = mem.size

\* A pass gets to the wait for the racks, and to the update of the status,
\* only with the rack it read: after reconcileRack with the size of the spec,
\* or after the deletion of the old revision, which begins when the new one
\* has the size.  A call of reconcileRack with another size ends in a requeue.
PassInv ==
    /\ pc \in {"wait", "update", "delete", "cleanup"} => Sized
    /\ pc \in {"delete", "cleanup"} => old # mem.rev
    /\ pc \in {"migrate", "rack"} => mem.rev \in live
    /\ pc = "migrate" => old # mem.rev
    /\ pc \in {"racks", "migrate", "delete", "cleanup"} => ~again
    /\ pc = "rack" /\ ~again => goal = mem.size

\* The phase is Completed between passes only.
IInv ==
    /\ WeakTypes
    /\ PassInv
    /\ completed => pc = "idle"
    /\ CompletedMeansSized

-----------------------------------------------------------------------------
\* A rack that was removed from the spec has no revision.
LEMMA NoneIsNoRevision == None \notin Revisions
  BY RevisionAssumption DEF RevisionAssumption

\* The invariant holds before the first pass.
LEMMA InitInv == Init => IInv
  <1> SUFFICES ASSUME Init PROVE IInv
    OBVIOUS
  <1>1. PICK r \in Revisions, n \in 1 .. MaxSize :
          /\ spec = [rev |-> r, size |-> n, gen |-> 0]
          /\ live = {r}
          /\ replicas = [x \in Revisions |-> IF x = r THEN n ELSE 0]
    BY DEF Init
  <1>2. n \in Int
    BY SMT, RevisionAssumption DEF RevisionAssumption
  <1>3. status = spec /\ mem = spec /\ pc = "idle" /\ goal = 0
    BY DEF Init
  <1>4. WeakTypes
    BY SMT, <1>1, <1>2, <1>3 DEF WeakTypes
  <1>5. CompletedMeansSized
    BY <1>1, <1>3 DEF CompletedMeansSized
  <1> QED BY <1>3, <1>4, <1>5 DEF IInv, PassInv

\* A pass that ends with a requeue.
LEMMA RequeueInv ==
    ASSUME IInv, pc # "idle", Requeue, UNCHANGED <<spec, status, completed>>,
           live' \subseteq Revisions, replicas' \in [Revisions -> Int]
    PROVE  IInv'
  BY DEF IInv, WeakTypes, PassInv, Requeue, CompletedMeansSized

\* A scale-down of a StatefulSet, which ends the pass.
LEMMA ScaleDownInv ==
    ASSUME IInv, pc # "idle", NEW r \in Revisions, NEW size \in Int, ScaleDownRack(r, size)
    PROVE  IInv'
  <1>1. Requeue /\ UNCHANGED <<spec, status, completed, live>>
    BY DEF ScaleDownRack, object
  <1>2. Batch \in Int
    BY SMT, RevisionAssumption DEF Batch, RevisionAssumption
  <1>3. replicas' \in [Revisions -> Int]
    BY SMT, <1>2 DEF ScaleDownRack, Smaller, IInv, WeakTypes
  <1> QED BY <1>1, <1>3, RequeueInv DEF IInv, WeakTypes

\* A pass goes to another stage, and nothing of the rack changes.
LEMMA GoOnInv ==
    ASSUME IInv, pc # "idle", PassInv', UNCHANGED <<spec, status, completed, live, replicas, mem>>,
           goal' \in Int, pc' # "idle"
    PROVE  IInv'
  BY DEF IInv, WeakTypes, CompletedMeansSized

\* A pass reads the cluster and takes the phase off Completed.
LEMMA StartPassInv ==
    ASSUME IInv, StartPass
    PROVE  IInv'
  <1>1. /\ pc' = "racks" /\ mem' = spec /\ goal' = 0 /\ ~again' /\ ~completed'
        /\ UNCHANGED <<spec, status, live, replicas>>
    BY DEF StartPass, sets
  <1> QED BY SMT, <1>1 DEF IInv, WeakTypes, PassInv, CompletedMeansSized

\* The StatefulSet of a new revision is created.
LEMMA CreateEmptyRackInv ==
    ASSUME IInv, CreateEmptyRack
    PROVE  IInv'
  <1>1. /\ pc = "racks" /\ mem.rev \in Revisions /\ live' = live \cup {mem.rev}
        /\ replicas' = [replicas EXCEPT ![mem.rev] = 0]
        /\ UNCHANGED <<spec, status, completed, pc, mem, old, goal, again>>
    BY DEF CreateEmptyRack, object, pass
  <1> QED BY SMT, <1>1 DEF IInv, WeakTypes, PassInv, CompletedMeansSized

\* The pass finds out whether the rack is being migrated.
LEMMA ReconcileConfiguredRackInv ==
    ASSUME IInv, ReconcileConfiguredRack
    PROVE  IInv'
  <1>1. /\ pc = "racks" /\ mem.rev \in live /\ pc' \in {"rack", "migrate"}
        /\ pc' = "rack" => goal' = mem.size
        /\ pc' = "migrate" => goal' = goal /\ old' # mem.rev
        /\ UNCHANGED <<spec, status, completed, live, replicas, mem, again>>
    BY DEF ReconcileConfiguredRack, First, object, sets
  <1>2. PassInv' /\ goal' \in Int
    BY <1>1 DEF IInv, WeakTypes, PassInv
  <1> QED BY <1>1, <1>2, GoOnInv

\* One step of a migration: only when the new revision has the size is the old one deleted.
LEMMA MigrateInv ==
    ASSUME IInv, ReconcileRevisionChangedRacks
    PROVE  IInv'
  <1> DEFINE o == replicas[old]
             n == replicas[mem.rev]
  <1>0. /\ pc = "migrate" /\ mem.rev \in live /\ mem.rev \in Revisions /\ old # mem.rev
        /\ live \subseteq Revisions /\ replicas \in [Revisions -> Int] /\ mem.size \in Int
    BY DEF ReconcileRevisionChangedRacks, IInv, WeakTypes, PassInv
  <1>1. Batch \in Int
    BY SMT, RevisionAssumption DEF Batch, RevisionAssumption
  <1>2. CASE CallReconcileRack(mem.size, FALSE)
    <2>1. PassInv' /\ goal' = mem.size
      BY <1>0, <1>2 DEF CallReconcileRack, PassInv, sets
    <2> QED BY <1>0, <1>2, <2>1, GoOnInv DEF CallReconcileRack, object, sets
  <1>3. CASE n = mem.size /\ Goto("delete") /\ UNCHANGED <<object, sets>>
    <2>1. PassInv' /\ goal' = goal
      BY <1>0, <1>3 DEF Goto, IInv, PassInv, Sized, sets
    <2> QED BY <1>0, <1>3, <2>1, GoOnInv DEF Goto, object, sets, IInv, WeakTypes
  <1>4. CASE ScaleDownRack(mem.rev, mem.size)
    BY <1>0, <1>4, ScaleDownInv
  <1>5. CASE Requeue /\ UNCHANGED <<object, sets>>
    BY <1>0, <1>5, RequeueInv DEF object, sets
  <1>6. CASE CallReconcileRack(n + Smaller(Batch, mem.size - (o + n)), TRUE) /\ old \in live
    <2>1. goal' \in Int
      BY SMT, <1>0, <1>1, <1>6 DEF CallReconcileRack, Smaller
    <2>2. PassInv'
      BY <1>0, <1>6 DEF CallReconcileRack, PassInv, sets
    <2> QED BY <1>0, <1>6, <2>1, <2>2, GoOnInv DEF CallReconcileRack, object, sets
  <1>7. CASE ScaleDownRack(old, o - Smaller(Batch, o)) /\ old \in live
    <2>1. o - Smaller(Batch, o) \in Int
      BY SMT, <1>0, <1>1, <1>7 DEF Smaller
    <2> QED BY <1>0, <1>7, <2>1, ScaleDownInv
  <1> QED BY <1>2, <1>3, <1>4, <1>5, <1>6, <1>7 DEF ReconcileRevisionChangedRacks

\* reconcileRack ends with the size it was called with, or in a requeue.
LEMMA ReconcileRackInv ==
    ASSUME IInv, ReconcileRackDown \/ UpgradeOrRollingRestartRack \/ ReconcileRackUp
    PROVE  IInv'
  <1>0. /\ pc = "rack" /\ mem.rev \in live /\ mem.rev \in Revisions /\ goal \in Int
        /\ live \subseteq Revisions /\ replicas \in [Revisions -> Int]
    BY DEF ReconcileRackDown, UpgradeOrRollingRestartRack, ReconcileRackUp, IInv, WeakTypes, PassInv
  <1>1. CASE ReconcileRackDown
    BY <1>0, <1>1, ScaleDownInv DEF ReconcileRackDown
  <1>2. CASE UpgradeOrRollingRestartRack
    <2>1. CASE Requeue
      BY <1>0, <1>2, <2>1, RequeueInv DEF UpgradeOrRollingRestartRack, object
    <2>2. CASE ~Requeue
      <3>1. UNCHANGED <<object, live, replicas, pass>>
        BY <1>2, <2>2 DEF UpgradeOrRollingRestartRack
      <3> QED BY <3>1 DEF object, pass, IInv, WeakTypes, PassInv, Sized, CompletedMeansSized
    <2> QED BY <2>1, <2>2
  <1>3. CASE ReconcileRackUp
    <2>1. /\ replicas' \in [Revisions -> Int] /\ UNCHANGED <<object, live>>
          /\ \/ Requeue
             \/ Goto("wait") /\ ~again /\ replicas' = [replicas EXCEPT ![mem.rev] = goal]
      BY <1>0, <1>3 DEF ReconcileRackUp
    <2>2. CASE Requeue
      BY <1>0, <2>1, <2>2, RequeueInv DEF object
    <2>3. CASE Goto("wait") /\ ~again /\ replicas' = [replicas EXCEPT ![mem.rev] = goal]
      <3>1. goal = mem.size /\ ~completed
        BY <1>0, <2>3 DEF IInv, PassInv
      <3>2. Sized'
        BY <1>0, <2>1, <2>3, <3>1 DEF Sized, Goto
      <3>3. PassInv' /\ UNCHANGED <<mem, goal, spec, status, completed, live>>
        BY <2>1, <2>3, <3>2 DEF PassInv, Goto, object
      <3> QED BY <2>1, <3>1, <3>3 DEF IInv, WeakTypes, CompletedMeansSized
    <2> QED BY <2>1, <2>2, <2>3
  <1> QED BY <1>1, <1>2, <1>3

\* The deletion of a revision leaves the one of the spec alone.
LEMMA DeleteInv ==
    ASSUME IInv, DeleteRacks \/ DeleteSTS \/ CleanupDanglingPodsRack
    PROVE  IInv'
  <1>0. /\ live \subseteq Revisions /\ replicas \in [Revisions -> Int] /\ goal \in Int
        /\ pc # "idle" => ~completed
    BY DEF IInv, WeakTypes
  <1>1. CASE DeleteRacks
    <2>0. pc = "racks" /\ mem.rev = None
      BY <1>1 DEF DeleteRacks
    <2>1. CASE Goto("wait") /\ UNCHANGED <<object, sets>>
      <3>1. PassInv'
        BY <2>0, <2>1 DEF Goto, PassInv, Sized
      <3> QED BY <1>0, <2>0, <2>1, <3>1, GoOnInv DEF Goto, object, sets
    <2>2. ASSUME NEW r \in live, ScaleDownRack(r, 0) PROVE IInv'
      BY SMT, <1>0, <2>0, <2>2, ScaleDownInv
    <2>3. ASSUME NEW r \in live, pc' = "delete", old' = r,
                 UNCHANGED <<queued, mem, known, goal, again, object, sets>>
          PROVE  IInv'
      <3>1. PassInv'
        BY <1>0, <2>0, <2>3, NoneIsNoRevision DEF IInv, PassInv, Sized
      <3> QED BY <1>0, <2>0, <2>3, <3>1, GoOnInv DEF object, sets
    <2>4. First(live) \subseteq live
      BY DEF First
    <2> QED BY <1>1, <2>1, <2>2, <2>3, <2>4 DEF DeleteRacks
  <1>2. CASE DeleteSTS
    <2>1. /\ pc = "delete" /\ pc' = "cleanup" /\ live' = live \ {old}
          /\ UNCHANGED <<mem, old, goal, again, spec, status, completed, replicas>>
      BY <1>2 DEF DeleteSTS, object
    <2> QED BY <1>0, <2>1 DEF IInv, WeakTypes, PassInv, Sized, CompletedMeansSized
  <1>3. CASE CleanupDanglingPodsRack
    <2>0. pc = "cleanup" /\ UNCHANGED <<object, live, replicas>>
      BY <1>3 DEF CleanupDanglingPodsRack
    <2>1. CASE Requeue
      BY <1>0, <2>0, <2>1, RequeueInv DEF object
    <2>2. CASE Goto("wait")
      <3>1. PassInv'
        BY <2>0, <2>2 DEF Goto, IInv, PassInv, Sized
      <3> QED BY <1>0, <2>0, <2>2, <3>1, GoOnInv DEF Goto, object
    <2>3. CASE Goto("racks") /\ mem.rev = None
      <3>1. PassInv'
        BY <2>0, <2>3 DEF Goto, IInv, PassInv
      <3> QED BY <1>0, <2>0, <2>3, <3>1, GoOnInv DEF Goto, object
    <2> QED BY <1>3, <2>1, <2>2, <2>3 DEF CleanupDanglingPodsRack
  <1> QED BY <1>1, <1>2, <1>3

\* The end of a pass: the wait, the status and the restart of the operator.
LEMMA RestInv ==
    ASSUME IInv, WaitForAllRacksReady \/ UpdateStatus \/ Crash
    PROVE  IInv'
  <1>0. live \subseteq Revisions /\ replicas \in [Revisions -> Int] /\ goal \in Int
    BY DEF IInv, WeakTypes
  <1>1. CASE WaitForAllRacksReady
    <2>0. pc = "wait" /\ UNCHANGED <<object, sets>>
      BY <1>1 DEF WaitForAllRacksReady
    <2>1. CASE Requeue
      BY <1>0, <2>0, <2>1, RequeueInv DEF object, sets
    <2>2. CASE Goto("update")
      <3>1. PassInv'
        BY <2>0, <2>2 DEF Goto, IInv, PassInv, Sized, sets
      <3> QED BY <1>0, <2>0, <2>2, <3>1, GoOnInv DEF Goto, object, sets
    <2> QED BY <1>1, <2>1, <2>2 DEF WaitForAllRacksReady
  <1>2. CASE UpdateStatus
    <2>1. /\ pc = "update" /\ pc' = "idle" /\ status' = mem
          /\ UNCHANGED <<spec, live, replicas, mem, goal>>
      BY <1>2 DEF UpdateStatus, Goto, sets
    <2>2. CompletedMeansSized'
      BY <2>1 DEF IInv, PassInv, Sized, CompletedMeansSized
    <2> QED BY <2>1, <2>2 DEF IInv, WeakTypes, PassInv
  <1>3. CASE Crash
    BY <1>0, <1>3, RequeueInv DEF Crash, object, sets
  <1> QED BY <1>1, <1>2, <1>3

\* Users and pods change neither the StatefulSet nor the status.
LEMMA OutsideInv ==
    ASSUME IInv, UserEdits \/ \E r \in Revisions : PodsReady(r) \/ PodsFail(r)
    PROVE  IInv'
  <1>1. UNCHANGED <<status, completed, live, replicas, pc, mem, old, goal, again>>
    BY DEF UserEdits, PodsReady, PodsFail, object, sets, pass
  <1>2. spec'.rev \in Revisions \cup {None} /\ spec'.size \in Int
    <2>1. CASE UserEdits
      BY SMTT(30), <2>1, RevisionAssumption DEF UserEdits, RevisionAssumption
    <2>2. CASE \E r \in Revisions : PodsReady(r) \/ PodsFail(r)
      BY <2>2 DEF PodsReady, PodsFail, object, IInv, WeakTypes
    <2> QED BY <2>1, <2>2
  <1> QED BY SMTT(30), <1>1, <1>2 DEF IInv, WeakTypes, PassInv, Sized, CompletedMeansSized

\* Every step keeps the invariant.
LEMMA NextInv == IInv /\ [Next]_vars => IInv'
  <1>1. ASSUME IInv, UNCHANGED vars PROVE IInv'
    BY <1>1 DEF vars, object, sets, pass, IInv, WeakTypes, PassInv, Sized, CompletedMeansSized
  <1> QED BY <1>1, StartPassInv, CreateEmptyRackInv, ReconcileConfiguredRackInv, MigrateInv,
             ReconcileRackInv, DeleteInv, RestInv, OutsideInv DEF Next, PassStep

-----------------------------------------------------------------------------
\* For any number of revisions, of any size, and whatever fails: while the
\* phase is Completed the StatefulSet of the rack in the status is there and
\* has the size in the status, although a pass that finishes a migration does
\* not call reconcileRack for the new revision.
THEOREM CompletedSized == Spec => []CompletedMeansSized
  <1>1. IInv => CompletedMeansSized
    BY DEF IInv
  <1> QED BY <1>1, InitInv, NextInv, PTL DEF Spec
=============================================================================
