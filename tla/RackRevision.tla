----------------------------- MODULE RackRevision -----------------------------
(***************************************************************************)
(* The life of one rack ID of a cluster with several racks: its revision   *)
(* is changed, changed back, the rack is removed and added again.          *)
(* reconcileRacks, categoriseRacks, reconcileRevisionChangedRacks and      *)
(* deleteRacks of internal/controller/cluster/rack.go, and the rule of the *)
(* validating webhook that limits what the user may ask for.               *)
(*                                                                         *)
(* Each revision of the rack is a StatefulSet of its own.  A pass takes    *)
(* one step of the migration: it raises the new revision or drains the old *)
(* one by a batch, and asks for a requeue.  Which revisions there are it   *)
(* finds out again every time, from the status and the StatefulSets.       *)
(*                                                                         *)
(* Abstractions: every edit changes the configuration of the rack too,     *)
(* which is known by the generation of the spec; the pods of a StatefulSet *)
(* are ready together; one batch of a scale-down (module RackScaling) is   *)
(* one step, which may fail to clean up after the pods it removed;         *)
(* rollingUpdateBatchSize and scaleDownBatchSize are the same number; the  *)
(* other racks need nothing.                                               *)
(***************************************************************************)
EXTENDS Integers, FiniteSets, Functions

CONSTANTS
    Revisions,  \* the revisions the user gives the rack
    None,       \* stands for a revision when the rack is not in the list
    MaxSize,    \* bound: size of the rack
    BatchSize,  \* rackConfig.rollingUpdateBatchSize
    MaxEdits,   \* bound: changes of the spec by the user
    MaxFaults   \* bound: failed clean-ups, crashes, failing pods

ASSUME RevisionAssumption ==
    /\ IsFiniteSet(Revisions)
    /\ None \notin Revisions
    /\ MaxSize \in Nat \ {0}
    /\ BatchSize \in Nat
    /\ MaxEdits \in Nat
    /\ MaxFaults \in Nat

VARIABLES
    spec,       \* the rack in the spec: revision, size, generation of the object
    status,     \* the rack in the status, as updateStatus copied it
    completed,  \* the phase is Completed (Ready=True)
    live,       \* the revisions that have a StatefulSet
    replicas,   \* spec.replicas of each
    conf,       \* the generation whose configuration its pods run
    ready,      \* the revisions all of whose pods are ready
    left,       \* the revisions with volumes or status entries of pods that were removed
    pc,         \* the step the pass is about to take; "idle" between passes
    queued,     \* a reconcile request is queued
    mem,        \* the rack in the spec as the pass read it
    known,      \* the revision in the status as the pass read it
    old,        \* the outgoing revision the pass deals with
    goal,       \* the size reconcileRack is called with
    again,      \* a requeue follows that call
    faults      \* faults so far

object == <<spec, status, completed>>

sets == <<live, replicas, conf, ready, left>>

pass == <<pc, queued, mem, known, old, goal, again>>

vars == <<object, sets, pass, faults>>

Racks == [rev : Revisions \cup {None}, size : 0 .. MaxSize, gen : 0 .. MaxEdits]

(***************************************************************************)
(* Types; no revision is ever given more pods than the user asked for.     *)
(***************************************************************************)
TypeOK ==
    /\ spec \in Racks
    /\ status \in Racks
    /\ completed \in BOOLEAN
    /\ live \subseteq Revisions
    /\ replicas \in [Revisions -> 0 .. MaxSize]
    /\ conf \in [Revisions -> 0 .. MaxEdits]
    /\ ready \subseteq Revisions
    /\ left \subseteq Revisions
    /\ pc \in {"idle", "racks", "migrate", "rack", "delete", "cleanup", "wait", "update"}
    /\ queued \in BOOLEAN
    /\ mem \in Racks
    /\ known \in Revisions \cup {None}
    /\ old \in Revisions \cup {None}
    /\ goal \in 0 .. MaxSize
    /\ again \in BOOLEAN
    /\ faults \in 0 .. MaxFaults

(* A cluster at rest, with one revision of the rack. *)
Init ==
    /\ \E r \in Revisions, n \in 1 .. MaxSize :
         /\ spec = [rev |-> r, size |-> n, gen |-> 0]
         /\ live = {r}
         /\ replicas = [x \in Revisions |-> IF x = r THEN n ELSE 0]
    /\ status = spec /\ completed = TRUE
    /\ conf = [r \in Revisions |-> 0]
    /\ ready = Revisions /\ left = {}
    /\ pc = "idle" /\ queued = FALSE
    /\ mem = spec /\ known = None /\ old = None /\ goal = 0 /\ again = FALSE
    /\ faults = 0

CountFault ==
    /\ faults < MaxFaults
    /\ faults' = faults + 1

AllReady == live \subseteq ready

Total == SumFunctionOnSet(replicas, live)

Smaller(a, b) == IF a < b THEN a ELSE b

-----------------------------------------------------------------------------
(* The pass. *)

Goto(next) ==
    /\ pc' = next
    /\ UNCHANGED <<queued, mem, known, old, goal, again>>

(* The pass returns an error or asks for a requeue. *)
Requeue ==
    /\ pc' = "idle"
    /\ queued' = TRUE
    /\ UNCHANGED <<mem, known, old, goal, again>>

Batch == IF BatchSize < 1 THEN 1 ELSE BatchSize

(***************************************************************************)
(* scaleDownRack: one batch, if all pods are ready.  It ends with a        *)
(* requeue, whether or not what the pods left behind could be removed.     *)
(***************************************************************************)
ScaleDownRack(r, size) ==
    /\ Requeue
    /\ IF AllReady
       THEN /\ replicas' = [replicas EXCEPT ![r] = @ - Smaller(Batch, @ - size)]
            /\ \/ UNCHANGED <<left, faults>>
               \/ left' = left \cup {r} /\ CountFault
       ELSE UNCHANGED <<replicas, left, faults>>
    /\ UNCHANGED <<object, live, conf, ready>>

(* Reconcile up to the racks: read the object, mark it in progress. *)
StartPass ==
    /\ pc = "idle" /\ queued
    /\ queued' = FALSE
    /\ mem' = spec /\ known' = status.rev
    /\ old' = None /\ goal' = 0 /\ again' = FALSE
    /\ completed' = FALSE
    /\ pc' = "racks"
    /\ UNCHANGED <<spec, status, sets, faults>>

(* createEmptyRack: a StatefulSet of size 0, raised later in the pass. *)
CreateEmptyRack ==
    /\ pc = "racks" /\ mem.rev \in Revisions \ live
    /\ live' = live \cup {mem.rev}
    /\ replicas' = [replicas EXCEPT ![mem.rev] = 0]
    /\ conf' = [conf EXCEPT ![mem.rev] = mem.gen]
    /\ ready' = ready \cup {mem.rev}
    /\ UNCHANGED <<object, left, pass, faults>>

(* getCurrentRackList: the rack of the status and those of the StatefulSets not in it. *)
OldRacks == ({known} \cup live) \ {None}

(* Of several old racks the first is taken, and the rack of the status comes first. *)
First(racks) == IF known \in racks THEN {known} ELSE racks

(* categoriseRacks, with the rack in the spec: it is migrated if it has an old revision. *)
ReconcileConfiguredRack ==
    /\ pc = "racks" /\ mem.rev \in live
    /\ \/ /\ OldRacks = {mem.rev}
          /\ pc' = "rack" /\ goal' = mem.size
          /\ UNCHANGED <<queued, mem, known, old, again>>
       \/ /\ OldRacks # {mem.rev}
          /\ old' \in First(OldRacks \ {mem.rev})
          /\ pc' = "migrate"
          /\ UNCHANGED <<queued, mem, known, goal, again>>
    /\ UNCHANGED <<object, sets, faults>>

(* reconcileRack(newSts, size), and whether the pass is over after it. *)
CallReconcileRack(size, requeue) ==
    /\ pc' = "rack" /\ goal' = size /\ again' = requeue
    /\ UNCHANGED <<queued, mem, known, old, object, sets, faults>>

(* mutants: the old revision is drained first; an old StatefulSet that is not found means that the migration is complete *)
MigrateDrainsFirst ==
    LET o == replicas[old]
        n == replicas[mem.rev]
    IN  /\ pc = "migrate" /\ old \in live
        /\ \/ o = 0 /\ n = mem.size /\ Goto("delete") /\ UNCHANGED <<object, sets, faults>>
           \/ o > 0 /\ ScaleDownRack(old, o - Smaller(Batch, o))
           \/ o = 0 /\ n < mem.size /\ CallReconcileRack(n + Smaller(Batch, mem.size - n), TRUE)

MigrateAssumesCompletion ==
    LET o == replicas[old]
        n == replicas[mem.rev]
    IN  /\ pc = "migrate"
        /\ \/ old \notin live /\ Goto("wait") /\ UNCHANGED <<object, sets, faults>>
           \/ /\ old \in live /\ o = 0 /\ n = mem.size
              /\ Goto("delete")
              /\ UNCHANGED <<object, sets, faults>>
           \/ old \in live /\ n > mem.size /\ ScaleDownRack(mem.rev, mem.size)
           \/ /\ old \in live /\ n <= mem.size /\ ~(o = 0 /\ n = mem.size)
              /\ \/ ~AllReady /\ Requeue /\ UNCHANGED <<object, sets, faults>>
                 \/ /\ AllReady /\ o + n < mem.size
                    /\ CallReconcileRack(n + Smaller(Batch, mem.size - (o + n)), TRUE)
                 \/ AllReady /\ o + n >= mem.size /\ ScaleDownRack(old, o - Smaller(Batch, o))

(***************************************************************************)
(* reconcileRevisionChangedRacks.  Its last return, without an effect, is  *)
(* never reached: an old revision without pods and a new one that is not   *)
(* too large leave only the first and the fifth case.                      *)
(***************************************************************************)
ReconcileRevisionChangedRacks ==
    LET o == replicas[old]
        n == replicas[mem.rev]
    IN  /\ pc = "migrate"
        /\ \/ old \notin live /\ CallReconcileRack(mem.size, FALSE)
           \/ /\ old \in live /\ o = 0 /\ n = mem.size
              /\ Goto("delete")
              /\ UNCHANGED <<object, sets, faults>>
           \/ /\ old \in live /\ n > mem.size
              /\ ScaleDownRack(mem.rev, mem.size)
           \/ /\ old \in live /\ n <= mem.size /\ ~(o = 0 /\ n = mem.size)
              /\ \/ ~AllReady /\ Requeue /\ UNCHANGED <<object, sets, faults>>
                 \/ /\ AllReady /\ o + n < mem.size
                    /\ CallReconcileRack(n + Smaller(Batch, mem.size - (o + n)), TRUE)
                 \/ /\ AllReady /\ o + n >= mem.size
                    /\ ScaleDownRack(old, o - Smaller(Batch, o))

(***************************************************************************)
(* reconcileRack: scale down; bring the pods to the configuration of the   *)
(* spec; scale up.                                                         *)
(***************************************************************************)
ReconcileRackDown ==
    /\ pc = "rack" /\ replicas[mem.rev] > goal
    /\ ScaleDownRack(mem.rev, goal)

UpgradeOrRollingRestartRack ==
    /\ pc = "rack" /\ replicas[mem.rev] <= goal /\ conf[mem.rev] # mem.gen
    /\ IF AllReady
       THEN conf' = [conf EXCEPT ![mem.rev] = mem.gen] /\ UNCHANGED pass
       ELSE Requeue /\ UNCHANGED conf
    /\ UNCHANGED <<object, live, replicas, ready, left, faults>>

(* The dangling clean-up at the head of scaleUpRack and at the end of reconcileRack. *)
ReconcileRackUp ==
    /\ pc = "rack" /\ replicas[mem.rev] <= goal /\ conf[mem.rev] = mem.gen
    /\ \/ /\ replicas' = [replicas EXCEPT ![mem.rev] = goal]
          /\ ready' = IF replicas[mem.rev] < goal THEN ready \ {mem.rev} ELSE ready
          /\ left' = left \ {mem.rev}
          /\ IF again THEN Requeue ELSE Goto("wait")
          /\ UNCHANGED faults
       \/ /\ mem.rev \in left
          /\ CountFault
          /\ Requeue
          /\ UNCHANGED <<replicas, ready, left>>
    /\ UNCHANGED <<object, live, conf>>

(***************************************************************************)
(* deleteRacks, with the rack gone from the spec: every revision of it is  *)
(* drained; a revision without a StatefulSet is passed over.               *)
(***************************************************************************)
DeleteRacks ==
    /\ pc = "racks" /\ mem.rev = None
    /\ \/ live = {} /\ Goto("wait") /\ UNCHANGED <<object, sets, faults>>
       \/ \E r \in First(live) :
            \/ replicas[r] > 0 /\ ScaleDownRack(r, 0)
            \/ /\ replicas[r] = 0
               /\ pc' = "delete" /\ old' = r
               /\ UNCHANGED <<queued, mem, known, goal, again, object, sets, faults>>

(* deleteSTS; the controller watches the deletion of StatefulSets. *)
DeleteSTS ==
    /\ pc = "delete"
    /\ live' = live \ {old}
    /\ queued' = TRUE
    /\ pc' = "cleanup"
    /\ UNCHANGED <<mem, known, old, goal, again, object, replicas, conf, ready, left, faults>>

(* cleanupDanglingPodsRack for the revision whose StatefulSet was just deleted. *)
CleanupDanglingPodsRack ==
    /\ pc = "cleanup"
    /\ \/ /\ left' = left \ {old}
          /\ Goto(IF mem.rev = None THEN "racks" ELSE "wait")
          /\ UNCHANGED faults
       \/ old \in left /\ CountFault /\ Requeue /\ UNCHANGED left
    /\ UNCHANGED <<object, live, replicas, conf, ready>>

(* mutant: a wait that timed out is not repeated *)
WaitForAllRacksReadyOnce ==
    /\ pc = "wait"
    /\ Goto(IF mem.rev \in ready \cup {None} THEN "update" ELSE "idle")
    /\ UNCHANGED <<object, sets, faults>>

(* waitForAllRacksReady looks at the racks of the spec. *)
WaitForAllRacksReady ==
    /\ pc = "wait"
    /\ IF mem.rev \in ready \cup {None} THEN Goto("update") ELSE Requeue
    /\ UNCHANGED <<object, sets, faults>>

(* updateStatus: the spec the pass read becomes the status. *)
UpdateStatus ==
    /\ pc = "update"
    /\ status' = mem
    /\ completed' = TRUE
    /\ Goto("idle")
    /\ UNCHANGED <<spec, sets, faults>>

(* The operator restarts; every object is reconciled when it comes up. *)
Crash ==
    /\ pc # "idle"
    /\ CountFault
    /\ Requeue
    /\ UNCHANGED <<object, sets>>

-----------------------------------------------------------------------------
(* The user and Kubernetes. *)

(* validateConcurrentRackRevisions: at most two among old status, old spec and new spec. *)
ConcurrentRevisions(rev) == {status.rev, spec.rev, rev} \ {None}

UserEdits ==
    /\ spec.gen < MaxEdits
    /\ \E rev \in Revisions \cup {None}, size \in 1 .. MaxSize :
         /\ Cardinality(ConcurrentRevisions(rev)) <= 2
         /\ spec' = [rev |-> rev, size |-> IF rev = None THEN 0 ELSE size, gen |-> spec.gen + 1]
    /\ queued' = TRUE
    /\ UNCHANGED <<status, completed, sets, pc, mem, known, old, goal, again, faults>>

PodsReady(r) ==
    /\ r \in live \ ready
    /\ ready' = ready \cup {r}
    /\ UNCHANGED <<object, live, replicas, conf, left, pass, faults>>

PodsFail(r) ==
    /\ r \in live \cap ready /\ replicas[r] > 0
    /\ CountFault
    /\ ready' = ready \ {r}
    /\ UNCHANGED <<object, live, replicas, conf, left, pass>>

PassStep ==
    \/ StartPass \/ CreateEmptyRack \/ ReconcileConfiguredRack \/ ReconcileRevisionChangedRacks
    \/ ReconcileRackDown \/ UpgradeOrRollingRestartRack \/ ReconcileRackUp
    \/ DeleteRacks \/ DeleteSTS \/ CleanupDanglingPodsRack
    \/ WaitForAllRacksReady \/ UpdateStatus

Next ==
    \/ PassStep
    \/ Crash
    \/ UserEdits
    \/ \E r \in Revisions : PodsReady(r) \/ PodsFail(r)

Spec == Init /\ [][Next]_vars

(* A queued request is worked on, and pods that start become ready. *)
FairSpec ==
    /\ Spec
    /\ WF_vars(PassStep)
    /\ \A r \in Revisions : WF_vars(PodsReady(r))

-----------------------------------------------------------------------------
(* Properties. *)

(***************************************************************************)
(* Migrating a rack keeps its pods: when pods of the outgoing revision are *)
(* taken away, all pods of the cluster are ready, and at most a batch less *)
(* than the size of the rack is left, whatever revision was there before   *)
(* and however often the pass was interrupted.  This is the floor on the   *)
(* pods that stay on which validateRackRevisionChange admits an edit.  Nor *)
(* does a scale-up give the rack, over its two revisions, more pods than   *)
(* its size.                                                               *)
(***************************************************************************)
MigrationKeepsMembers ==
    [][/\ \A r \in live \ {mem.rev} :
            mem.rev # None /\ replicas'[r] < replicas[r]
            => /\ Total' >= mem.size - Batch
               /\ AllReady
       /\ Total' > Total => Total' <= mem.size]_vars

(***************************************************************************)
(* A cluster whose phase is Completed has the rack of its status: its      *)
(* StatefulSet is there and has the size, although a pass that finishes a  *)
(* migration does not reconcile the new revision.                          *)
(***************************************************************************)
CompletedMeansSized ==
    completed /\ status.rev # None
    => status.rev \in live /\ replicas[status.rev] = status.size

(***************************************************************************)
(* Once the user leaves the rack alone and nothing fails any more, the     *)
(* revision of the spec is the only one left, with the size and the        *)
(* configuration of the spec, and the status says so.                      *)
(***************************************************************************)
Migrated ==
    /\ completed
    /\ status = spec
    /\ live = {spec.rev} \ {None}
    /\ \A r \in live : r \in ready /\ replicas[r] = spec.size /\ conf[r] = spec.gen

Migrates == <>[]Migrated

(***************************************************************************)
(* "All operations are done at this point" (reconciler.go:732): when the   *)
(* phase becomes Completed the rack runs the configuration that is copied  *)
(* to the status, no other revision of it is left, and nothing of the pods *)
(* that were removed is.                                                   *)
(***************************************************************************)
CompletedMeansDone ==
    completed => /\ \A r \in live : r = status.rev /\ conf[r] = status.gen
                 /\ left = {}
=============================================================================
