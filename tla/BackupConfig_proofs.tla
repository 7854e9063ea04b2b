------------------------ MODULE BackupConfig_proofs ------------------------
(* For any number of backups, edits and faults: the controllers do not undo *)
(* each other's part of the ConfigMap, a backup that is gone is gone from   *)
(* the ConfigMap and from the process, and a pass that succeeds leaves the  *)
(* process with the config it worked for.                                   *)
EXTENDS BackupConfig, TLAPS

\* Most steps are about sets and cases; those with arithmetic cite SMT.
USE ZenonT(30)

-----------------------------------------------------------------------------
(* The inductive invariant *)

IsConfig(c) ==
    /\ c = [static |-> c.static, dyn |-> c.dyn, entry |-> c.entry]
    /\ c.entry \in [Backups -> 0 .. 2]

Steps == {"idle", "read", "write", "deploy", "rolled", "ready", "settled", "config", "wait", "apply",
          "trigger", "reloaded", "started", "status", "unfinalize"}

WeakTypes ==
    /\ bk \in [Backups -> Objects] /\ mbk \in [Backups -> Objects]
    /\ pc \in [Procs -> Steps]
    /\ fresh \in [Procs -> BOOLEAN]
    /\ DOMAIN seen = Procs
    /\ cm # None => IsConfig(cm)

PodTypes ==
    /\ pod = [st |-> pod.st, tmpl |-> pod.tmpl, file |-> pod.file, loaded |-> pod.loaded]
    /\ pod.st # "none" => IsConfig(pod.file)
    /\ pod.st = "running" => IsConfig(pod.loaded)

\* The copy with which a pass updates the ConfigMap is the ConfigMap.
Copy(c) ==
    pc[c] = "write" => /\ fresh[c] => seen[c] = cm
                       /\ c # Svc => seen[c] # None /\ IsConfig(seen[c])

\* Only backups that are there are worked on, and they have the finalizer.
There(b) ==
    /\ pc[b] # "idle" => bk[b].exists /\ bk[b].finalizer
    /\ b \in queued => bk[b].exists
    /\ bk[b].finalizer => bk[b].exists
    /\ pc[b] = "unfinalize" => mbk[b].deleting

\* What a pass over a backup that is deleted has done so far stays done: no
\* other pass brings the entry back to the ConfigMap, the file or the process.
OutOfConfigMap(b) == ~bk[b].finalizer \/ (mbk[b].deleting /\ pc[b] \in {"wait", "apply", "unfinalize"})
OutOfFile(b)      == ~bk[b].finalizer \/ (mbk[b].deleting /\ pc[b] \in {"apply", "unfinalize"})
OutOfProcess(b)   == ~bk[b].finalizer \/ pc[b] = "unfinalize"

Entry(b) ==
    /\ OutOfConfigMap(b) /\ cm # None => cm.entry[b] = 0
    /\ OutOfFile(b) /\ pod.st # "none" => pod.file.entry[b] = 0
    /\ OutOfProcess(b) /\ pod.st = "running" => pod.loaded.entry[b] = 0

IInv ==
    /\ WeakTypes
    /\ PodTypes
    /\ Copy(Svc)
    /\ \A b \in Backups : Copy(b) /\ There(b) /\ Entry(b)

-----------------------------------------------------------------------------
(* What the operators return *)

\* What a pass over a backup merges into its copy: only its own entry.
LEMMA MergedKeeps ==
    ASSUME NEW b \in Backups, IsConfig(seen[b]), mbk \in [Backups -> Objects]
    PROVE  /\ IsConfig(Merged(b))
           /\ Merged(b).static = seen[b].static /\ Merged(b).dyn = seen[b].dyn
           /\ \A x \in Backups : x # b => Merged(b).entry[x] = seen[b].entry[x]
           /\ mbk[b].deleting => Merged(b).entry[b] = 0
  <1> DEFINE v == IF mbk[b].deleting THEN 0 ELSE mbk[b].conf
             s == seen[b]
  <1>1. v \in 0 .. 2
    BY SMT DEF Objects
  <1>2. Merged(b) = [static |-> s.static, dyn |-> s.dyn, entry |-> [s.entry EXCEPT ![b] = v]]
    BY SMT DEF Merged, IsConfig
  <1> QED BY SMT, <1>1, <1>2 DEF IsConfig

\* The controllers are the service controller and one process per backup.
LEMMA ProcsAre == Svc \in Procs /\ Svc \notin Backups /\ Backups \subseteq Procs
  BY BackupAssumption DEF Procs, BackupAssumption

\* A backup as the user creates it.
LEMMA NewBackupIs ==
    NewBackup \in Objects /\ NewBackup.exists /\ ~NewBackup.finalizer /\ ~NewBackup.deleting
  BY SMT DEF NewBackup, Objects

\* The invariant holds before the first pass.
LEMMA InitInv == Init => IInv
  <1> SUFFICES ASSUME Init PROVE IInv
    OBVIOUS
  <1>0. /\ bk = [b \in Backups |-> NewBackup] /\ mbk = bk /\ cm = None /\ pod = NoPod
        /\ pc = [c \in Procs |-> "idle"]
        /\ seen = [c \in Procs |-> None] /\ fresh = [c \in Procs |-> FALSE]
    BY DEF Init
  <1>2. WeakTypes
    <2>1. bk \in [Backups -> Objects] /\ mbk \in [Backups -> Objects]
      BY <1>0, NewBackupIs
    <2>2. pc \in [Procs -> Steps]
      BY <1>0 DEF Steps
    <2>3. fresh \in [Procs -> BOOLEAN]
      BY <1>0
    <2>4. DOMAIN seen = Procs
      BY <1>0
    <2> QED BY <1>0, <2>1, <2>2, <2>3, <2>4 DEF WeakTypes
  <1>3. PodTypes
    BY <1>0 DEF PodTypes, NoPod
  <1>4. \A b \in Backups : pc[b] = "idle" /\ bk[b] = NewBackup
    BY <1>0, ProcsAre
  <1>5. pc[Svc] = "idle"
    BY <1>0, ProcsAre
  <1>6. \A b \in Backups : There(b) /\ Copy(b)
    BY <1>4, NewBackupIs DEF There, Copy
  <1>7. \A b \in Backups : Entry(b)
    BY <1>0 DEF Entry, NoPod
  <1> QED BY <1>2, <1>3, <1>5, <1>6, <1>7 DEF IInv, Copy

\* A write of one backup.
LEMMA SetBackup ==
    ASSUME IInv, NEW b \in Backups, NEW o \in Objects, bk' = [bk EXCEPT ![b] = o]
    PROVE  /\ bk' \in [Backups -> Objects] /\ bk'[b] = o
           /\ \A x \in Backups \ {b} : bk'[x] = bk[x]
  BY DEF IInv, WeakTypes

-----------------------------------------------------------------------------
(* Steps that leave the ConfigMap and the pod alone *)

\* A step of one backup, or on one backup.
LEMMA OneBackup ==
    ASSUME IInv, NEW b \in Backups, UNCHANGED <<cm, pod>>, WeakTypes',
           \A c \in Procs \ {b} : pc'[c] = pc[c] /\ fresh'[c] = fresh[c] /\ seen'[c] = seen[c],
           \A x \in Backups \ {b} : bk'[x] = bk[x] /\ mbk'[x] = mbk[x] /\ (x \in queued' => x \in queued),
           Copy(b)', There(b)', Entry(b)'
    PROVE  IInv'
  <1>1. PodTypes'
    BY DEF IInv, PodTypes, IsConfig
  <1>2. Copy(Svc)'
    BY ProcsAre DEF IInv, Copy
  <1>3. ASSUME NEW x \in Backups, x # b PROVE Copy(x)' /\ There(x)' /\ Entry(x)'
    <2>0. Copy(x) /\ There(x) /\ Entry(x) /\ x \in Procs \ {b} /\ x \in Backups \ {b}
      BY <1>3, ProcsAre DEF IInv
    <2>1. Copy(x)'
      BY <2>0 DEF Copy, IsConfig
    <2>2. There(x)'
      BY <2>0 DEF There
    <2>3. Entry(x)'
      BY <2>0 DEF Entry, OutOfConfigMap, OutOfFile, OutOfProcess
    <2> QED BY <2>1, <2>2, <2>3
  <1> QED BY <1>1, <1>2, <1>3 DEF IInv

\* A pass over a backup that ends.
LEMMA EndPassIs ==
    ASSUME IInv, NEW b \in Backups, EndPass(b)
    PROVE  /\ pc' \in [Procs -> Steps] /\ fresh' \in [Procs -> BOOLEAN] /\ DOMAIN seen' = Procs
           /\ mbk' \in [Backups -> Objects]
           /\ pc'[b] = "idle"
           /\ \A c \in Procs \ {b} : pc'[c] = pc[c] /\ fresh'[c] = fresh[c] /\ seen'[c] = seen[c]
           /\ \A x \in Backups \ {b} : mbk'[x] = mbk[x]
  <1>1. b \in Procs /\ b # Svc
    BY ProcsAre
  <1>2. /\ pc' = [pc EXCEPT ![b] = "idle"] /\ seen' = [seen EXCEPT ![b] = None]
        /\ fresh' = [fresh EXCEPT ![b] = FALSE] /\ mbk' = [mbk EXCEPT ![b] = NewBackup]
    BY <1>1 DEF EndPass, Goto
  <1>3. WeakTypes
    BY DEF IInv
  <1>4. mbk' \in [Backups -> Objects] /\ \A x \in Backups \ {b} : mbk'[x] = mbk[x]
    BY <1>2, <1>3, NewBackupIs DEF WeakTypes
  <1>5. /\ pc' \in [Procs -> Steps] /\ pc'[b] = "idle"
        /\ \A c \in Procs \ {b} : pc'[c] = pc[c]
    BY <1>1, <1>2, <1>3 DEF WeakTypes, Steps
  <1>6. /\ fresh' \in [Procs -> BOOLEAN]
        /\ \A c \in Procs \ {b} : fresh'[c] = fresh[c]
    BY <1>1, <1>2, <1>3 DEF WeakTypes
  <1>7. DOMAIN seen' = Procs /\ \A c \in Procs \ {b} : seen'[c] = seen[c]
    BY <1>1, <1>2, <1>3 DEF WeakTypes
  <1> QED BY <1>4, <1>5, <1>6, <1>7

\* A pass over a backup that goes on, with the copies it has.
LEMMA GotoIs ==
    ASSUME IInv, NEW c \in Procs, NEW step \in Steps, Goto(c, step)
    PROVE  /\ pc' \in [Procs -> Steps] /\ pc'[c] = step
           /\ \A x \in Procs \ {c} : pc'[x] = pc[x]
  BY DEF IInv, WeakTypes, Goto

\* A request that is dropped because the service cannot be read.
LEMMA SkipReconcileInv ==
    ASSUME IInv, NEW b \in Backups, SkipReconcile(b)
    PROVE  IInv'
  <1>1. queued' = queued \ {b} /\ UNCHANGED <<bk, mbk, cm, pod, pc, seen, fresh>>
    BY DEF SkipReconcile, objects, cluster
  <1> QED BY <1>1 DEF IInv, WeakTypes, PodTypes, IsConfig, Copy, There, Entry,
                      OutOfConfigMap, OutOfFile, OutOfProcess

\* Reconcile up to addFinalizer.
LEMMA StartBackupInv ==
    ASSUME IInv, NEW b \in Backups, StartBackup(b)
    PROVE  IInv'
  <1>0. b \in Procs /\ WeakTypes /\ There(b) /\ Entry(b) /\ "read" \in Steps
    BY ProcsAre DEF IInv, Steps
  <1>1. /\ pc[b] = "idle" /\ b \in queued /\ queued' = queued \ {b} /\ Goto(b, "read")
        /\ bk' = [bk EXCEPT ![b].finalizer = TRUE] /\ mbk' = [mbk EXCEPT ![b] = bk'[b]]
        /\ UNCHANGED <<cm, pod, seen, fresh>>
    BY DEF StartBackup, cluster
  <1>2. /\ bk' \in [Backups -> Objects] /\ \A x \in Backups \ {b} : bk'[x] = bk[x]
        /\ bk'[b].finalizer /\ bk'[b].exists = bk[b].exists
    <2> DEFINE o == [bk[b] EXCEPT !.finalizer = TRUE]
    <2>1. bk[b] \in Objects
      BY <1>0 DEF WeakTypes
    <2>2. o \in Objects /\ o.finalizer /\ o.exists = bk[b].exists
      BY <2>1 DEF Objects
    <2>3. bk' = [bk EXCEPT ![b] = o]
      BY <1>0, <1>1 DEF WeakTypes
    <2> QED BY <2>2, <2>3, SetBackup
  <1>3. mbk' \in [Backups -> Objects] /\ \A x \in Backups \ {b} : mbk'[x] = mbk[x]
    BY <1>0, <1>1, <1>2 DEF WeakTypes
  <1>4. /\ pc' \in [Procs -> Steps] /\ pc'[b] = "read"
        /\ \A x \in Procs \ {b} : pc'[x] = pc[x]
    BY <1>0, <1>1, GotoIs
  <1>5. WeakTypes'
    BY <1>0, <1>1, <1>2, <1>3, <1>4 DEF WeakTypes, IsConfig
  <1>6. There(b)' /\ Copy(b)' /\ Entry(b)'
    BY <1>0, <1>1, <1>2, <1>4 DEF There, Copy, Entry, OutOfConfigMap, OutOfFile, OutOfProcess
  <1> QED BY <1>1, <1>2, <1>3, <1>4, <1>5, <1>6, OneBackup

\* A pass over a backup reads the ConfigMap.
LEMMA GetConfigMapInv ==
    ASSUME IInv, NEW b \in Backups, GetConfigMap(b)
    PROVE  IInv'
  <1>0. b \in Procs /\ b # Svc /\ WeakTypes /\ There(b) /\ Entry(b) /\ {"write", "wait"} \subseteq Steps
    BY ProcsAre DEF IInv, Steps
  <1>1. /\ pc[b] = "read" /\ fresh' = [fresh EXCEPT ![b] = TRUE]
        /\ UNCHANGED <<bk, mbk, cm, pod, queued>>
        /\ \/ cm # None /\ seen' = [seen EXCEPT ![b] = cm] /\ Goto(b, "write")
           \/ cm = None /\ Goto(b, "wait") /\ UNCHANGED seen
    BY DEF GetConfigMap, objects, cluster
  <1>2. /\ fresh' \in [Procs -> BOOLEAN]
        /\ \A x \in Procs \ {b} : fresh'[x] = fresh[x]
    BY <1>0, <1>1 DEF WeakTypes
  <1>3. DOMAIN seen' = Procs /\ \A x \in Procs \ {b} : seen'[x] = seen[x]
    BY <1>0, <1>1 DEF WeakTypes
  <1>4. /\ pc' \in [Procs -> Steps] /\ \A x \in Procs \ {b} : pc'[x] = pc[x]
        /\ \/ cm # None /\ pc'[b] = "write"
           \/ cm = None /\ pc'[b] = "wait"
    BY <1>0, <1>1, GotoIs
  <1>5. WeakTypes'
    BY <1>0, <1>1, <1>2, <1>3, <1>4 DEF WeakTypes, IsConfig
  <1>6. Copy(b)'
    <2>1. CASE cm # None
      <3>1. seen'[b] = cm /\ IsConfig(cm) /\ cm' = cm
        BY <1>0, <1>1, <2>1 DEF WeakTypes
      <3> QED BY <2>1, <3>1 DEF Copy, IsConfig
    <2>2. CASE cm = None
      BY <1>4, <2>2 DEF Copy
    <2> QED BY <2>1, <2>2
  <1>7. There(b)'
    BY <1>0, <1>1, <1>4 DEF There
  <1>8. Entry(b)'
    BY <1>0, <1>1, <1>4 DEF There, Entry, OutOfConfigMap, OutOfFile, OutOfProcess
  <1> QED BY <1>1, <1>2, <1>3, <1>4, <1>5, <1>6, <1>7, <1>8, OneBackup

\* An on-demand backup is triggered.
LEMMA TriggerInv ==
    ASSUME IInv, NEW b \in Backups, TriggerOnDemandBackup(b)
    PROVE  IInv'
  <1>0. b \in Procs /\ WeakTypes /\ There(b) /\ Entry(b) /\ "status" \in Steps
    BY ProcsAre DEF IInv, Steps
  <1>1. pc[b] = "trigger" /\ Goto(b, "status") /\ UNCHANGED <<bk, mbk, cm, pod, seen, fresh, queued>>
    BY DEF TriggerOnDemandBackup, objects, cluster
  <1>2. /\ pc' \in [Procs -> Steps] /\ pc'[b] = "status"
        /\ \A x \in Procs \ {b} : pc'[x] = pc[x]
    BY <1>0, <1>1, GotoIs
  <1>3. WeakTypes'
    BY <1>0, <1>1, <1>2 DEF WeakTypes, IsConfig
  <1>4. There(b)' /\ Copy(b)' /\ Entry(b)'
    BY <1>0, <1>1, <1>2 DEF There, Copy, Entry, OutOfConfigMap, OutOfFile, OutOfProcess
  <1> QED BY <1>1, <1>2, <1>3, <1>4, OneBackup

\* A pass over a backup ends, and may change the backup but not take its finalizer.
LEMMA EndedInv ==
    ASSUME IInv, NEW b \in Backups, EndPass(b), UNCHANGED <<cm, pod>>, pc[b] # "idle",
           bk' \in [Backups -> Objects], \A x \in Backups \ {b} : bk'[x] = bk[x],
           \A x \in Backups \ {b} : x \in queued' => x \in queued,
           /\ bk'[b].exists = bk[b].exists
           /\ bk'[b].finalizer = bk[b].finalizer
    PROVE  IInv'
  <1>0. b \in Procs /\ WeakTypes /\ There(b) /\ Entry(b)
    BY ProcsAre DEF IInv
  <1>1. WeakTypes'
    BY <1>0, EndPassIs DEF WeakTypes, IsConfig
  <1>2. pc'[b] = "idle"
    BY EndPassIs
  <1>3. There(b)' /\ Copy(b)' /\ Entry(b)'
    BY <1>0, <1>2 DEF There, Copy, Entry, OutOfConfigMap, OutOfFile, OutOfProcess
  <1> QED BY <1>1, <1>3, EndPassIs, OneBackup

\* The status of a backup is written.
LEMMA UpdateBackupStatusInv ==
    ASSUME IInv, NEW b \in Backups, UpdateBackupStatus(b)
    PROVE  IInv'
  <1>0. WeakTypes
    BY DEF IInv
  <1>1. /\ pc[b] = "status" /\ EndPass(b) /\ UNCHANGED <<cm, pod, queued>>
        /\ bk' = [bk EXCEPT ![b].applied = mbk[b].conf, ![b].done = mbk[b].want]
    BY DEF UpdateBackupStatus, cluster
  <1>2. /\ bk' \in [Backups -> Objects] /\ \A x \in Backups \ {b} : bk'[x] = bk[x]
        /\ bk'[b].exists = bk[b].exists /\ bk'[b].finalizer = bk[b].finalizer
    <2> DEFINE o == [bk[b] EXCEPT !.applied = mbk[b].conf, !.done = mbk[b].want]
    <2>1. bk[b] \in Objects /\ mbk[b] \in Objects
      BY <1>0 DEF WeakTypes
    <2>4. mbk[b].conf \in 0 .. 2 /\ mbk[b].want \in 0 .. 1
      BY SMT, <2>1 DEF Objects
    <2>2. o \in Objects /\ o.exists = bk[b].exists /\ o.finalizer = bk[b].finalizer
      BY <2>1, <2>4 DEF Objects
    <2>3. bk' = [bk EXCEPT ![b] = o]
      BY <1>0, <1>1 DEF WeakTypes
    <2> QED BY <2>2, <2>3, SetBackup
  <1> QED BY <1>1, <1>2, EndedInv

\* A pass over a backup ends in an error.
LEMMA FailBackupInv ==
    ASSUME IInv, NEW b \in Backups, FailBackup(b)
    PROVE  IInv'
  <1>0. WeakTypes
    BY DEF IInv
  <1>1. /\ pc[b] # "idle" /\ EndPass(b) /\ queued' = queued \cup {b} /\ UNCHANGED <<cm, pod>>
        /\ bk' = bk \/ bk' = [bk EXCEPT ![b].applied = 0]
    BY DEF FailBackup, MarkConfigNotApplied, cluster
  <1>2. /\ bk' \in [Backups -> Objects] /\ \A x \in Backups \ {b} : bk'[x] = bk[x]
        /\ bk'[b].exists = bk[b].exists /\ bk'[b].finalizer = bk[b].finalizer
    BY SMT, <1>0, <1>1 DEF WeakTypes, Objects
  <1> QED BY <1>1, <1>2, EndedInv

\* A backup loses its finalizer: it has left the ConfigMap, the file and the process.
LEMMA RemoveFinalizerInv ==
    ASSUME IInv, NEW b \in Backups, RemoveFinalizer(b)
    PROVE  IInv'
  <1>0. b \in Procs /\ WeakTypes /\ There(b) /\ Entry(b)
    BY ProcsAre DEF IInv
  <1>1. /\ pc[b] = "unfinalize" /\ EndPass(b) /\ queued' = queued \ {b} /\ UNCHANGED <<cm, pod>>
        /\ bk' = [bk EXCEPT ![b].exists = FALSE, ![b].finalizer = FALSE]
    BY DEF RemoveFinalizer, cluster
  <1>2. /\ bk' \in [Backups -> Objects] /\ \A x \in Backups \ {b} : bk'[x] = bk[x]
        /\ ~bk'[b].finalizer
    <2> DEFINE o == [bk[b] EXCEPT !.exists = FALSE, !.finalizer = FALSE]
    <2>1. bk[b] \in Objects
      BY <1>0 DEF WeakTypes
    <2>2. o \in Objects /\ ~o.finalizer
      BY <2>1 DEF Objects
    <2>3. bk' = [bk EXCEPT ![b] = o]
      BY <1>0, <1>1 DEF WeakTypes
    <2> QED BY <2>2, <2>3, SetBackup
  <1>3. WeakTypes'
    BY <1>0, <1>1, <1>2, EndPassIs DEF WeakTypes, IsConfig
  <1>4. pc'[b] = "idle"
    BY <1>1, EndPassIs
  <1>5. There(b)' /\ Copy(b)'
    BY <1>1, <1>2, <1>4 DEF There, Copy
  <1>6. Entry(b)'
    BY <1>0, <1>1 DEF There, Entry, OutOfConfigMap, OutOfFile, OutOfProcess
  <1> QED BY <1>1, <1>2, <1>3, <1>5, <1>6, EndPassIs, OneBackup

\* A user edits or deletes a backup.
LEMMA EditedInv ==
    ASSUME IInv, NEW b \in Backups, NEW o \in Objects, bk' = [bk EXCEPT ![b] = o],
           UNCHANGED <<mbk, cm, pod, pc, seen, fresh>>,
           o.finalizer = bk[b].finalizer, bk[b].exists,
           \/ o.exists /\ queued' = queued \cup {b}
           \/ ~bk[b].finalizer /\ queued' = queued \ {b}
    PROVE  IInv'
  <1>0. WeakTypes /\ Copy(b) /\ There(b) /\ Entry(b)
    BY DEF IInv
  <1>1. /\ bk' \in [Backups -> Objects] /\ bk'[b] = o
        /\ \A x \in Backups \ {b} : bk'[x] = bk[x]
    BY SetBackup
  <1>2. WeakTypes'
    BY <1>0, <1>1 DEF WeakTypes, IsConfig
  <1>3. There(b)'
    BY <1>0, <1>1 DEF There
  <1>4. Copy(b)'
    BY <1>0 DEF Copy, IsConfig
  <1>5. Entry(b)'
    BY <1>0, <1>1 DEF Entry, OutOfConfigMap, OutOfFile, OutOfProcess
  <1> QED BY <1>1, <1>2, <1>3, <1>4, <1>5, OneBackup

\* Edits of a backup, and its deletion.
LEMMA UserEditsBackupInv ==
    ASSUME IInv, NEW b \in Backups, EditBackup(b) \/ AddOnDemandBackup(b) \/ DeleteBackup(b)
    PROVE  IInv'
  <1>0. WeakTypes /\ bk[b] \in Objects
    BY DEF IInv, WeakTypes
  <1>1. bk[b].exists /\ UNCHANGED <<mbk, cm, pod, pc, seen, fresh>>
    BY DEF EditBackup, AddOnDemandBackup, DeleteBackup, cluster
  <1>2. CASE EditBackup(b)
    <2> DEFINE o == [bk[b] EXCEPT !.conf = 3 - bk[b].conf]
    <2>1. 3 - bk[b].conf \in 1 .. 2
      BY SMT, <1>0 DEF Objects
    <2>2. o \in Objects /\ o.finalizer = bk[b].finalizer /\ o.exists = bk[b].exists
      BY <1>0, <2>1 DEF Objects
    <2>3. bk' = [bk EXCEPT ![b] = o] /\ queued' = queued \cup {b}
      BY <1>0, <1>2 DEF WeakTypes, EditBackup
    <2> QED BY <1>1, <2>2, <2>3, EditedInv
  <1>3. CASE AddOnDemandBackup(b)
    <2> DEFINE o == [bk[b] EXCEPT !.want = 1]
    <2>1. 1 \in 0 .. 1
      BY SMT
    <2>2. o \in Objects /\ o.finalizer = bk[b].finalizer /\ o.exists = bk[b].exists
      BY <1>0, <2>1 DEF Objects
    <2>3. bk' = [bk EXCEPT ![b] = o] /\ queued' = queued \cup {b}
      BY <1>0, <1>3 DEF WeakTypes, AddOnDemandBackup
    <2> QED BY <1>1, <2>2, <2>3, EditedInv
  <1>4. CASE DeleteBackup(b) /\ bk[b].finalizer
    <2> DEFINE o == [bk[b] EXCEPT !.deleting = TRUE]
    <2>2. o \in Objects /\ o.finalizer = bk[b].finalizer /\ o.exists = bk[b].exists
      BY <1>0 DEF Objects
    <2>3. bk' = [bk EXCEPT ![b] = o] /\ queued' = queued \cup {b}
      BY <1>0, <1>4 DEF WeakTypes, DeleteBackup
    <2> QED BY <1>1, <2>2, <2>3, EditedInv
  <1>5. CASE DeleteBackup(b) /\ ~bk[b].finalizer
    <2> DEFINE o == [bk[b] EXCEPT !.exists = FALSE]
    <2>2. o \in Objects /\ o.finalizer = bk[b].finalizer
      BY <1>0 DEF Objects
    <2>3. bk' = [bk EXCEPT ![b] = o] /\ queued' = queued \ {b}
      BY <1>0, <1>5 DEF WeakTypes, DeleteBackup
    <2> QED BY <1>1, <1>5, <2>2, <2>3, EditedInv
  <1> QED BY <1>2, <1>3, <1>4, <1>5

-----------------------------------------------------------------------------
(* Steps of the service controller, of Kubernetes and of the process *)

\* A step of others than the backups, which leaves the ConfigMap alone.
LEMMA OthersInv ==
    ASSUME IInv, UNCHANGED <<bk, mbk, cm>>, WeakTypes', PodTypes', Copy(Svc)',
           \A b \in Backups : /\ pc'[b] = pc[b] /\ fresh'[b] = fresh[b] /\ seen'[b] = seen[b]
                              /\ b \in queued' => b \in queued
                              /\ OutOfFile(b) /\ pod'.st # "none" => pod'.file.entry[b] = 0
                              /\ OutOfProcess(b) /\ pod'.st = "running" => pod'.loaded.entry[b] = 0
    PROVE  IInv'
  <1>1. ASSUME NEW b \in Backups PROVE Copy(b)' /\ There(b)' /\ Entry(b)'
    <2>0. Copy(b) /\ There(b) /\ Entry(b)
      BY SMTT(30) DEF IInv
    <2>1. Copy(b)'
      BY SMTT(30), <2>0 DEF Copy, IsConfig
    <2>2. There(b)'
      BY SMTT(30), <2>0 DEF There
    <2>3. Entry(b)'
      BY SMTT(30), <2>0 DEF Entry, OutOfConfigMap, OutOfFile, OutOfProcess
    <2> QED BY <2>1, <2>2, <2>3
  <1> QED BY <1>1 DEF IInv

\* A step of the service controller that leaves the pod alone, too.
LEMMA ServiceInv ==
    ASSUME IInv, UNCHANGED <<bk, mbk, cm, pod>>, pc' \in [Procs -> Steps],
           fresh' \in [Procs -> BOOLEAN], DOMAIN seen' = Procs,
           \A x \in Procs \ {Svc} : pc'[x] = pc[x] /\ fresh'[x] = fresh[x] /\ seen'[x] = seen[x],
           \A b \in Backups : b \in queued' => b \in queued,
           Copy(Svc)'
    PROVE  IInv'
  <1>1. WeakTypes'
    BY DEF IInv, WeakTypes, IsConfig
  <1>2. PodTypes'
    BY DEF IInv, PodTypes, IsConfig
  <1>3. \A b \in Backups : b \in Procs \ {Svc} /\ Entry(b)
    BY ProcsAre DEF IInv
  <1> QED BY <1>1, <1>2, <1>3, OthersInv DEF Entry

\* The service controller goes on with its pass, or with another copy of the service.
LEMMA ServiceGoesOn ==
    ASSUME IInv, NEW step \in Steps \ {"write"}, Goto(Svc, step),
           UNCHANGED <<bk, mbk, cm, pod, seen, fresh>>,
           \A b \in Backups : b \in queued' => b \in queued
    PROVE  IInv'
  <1>0. Svc \in Procs /\ WeakTypes
    BY ProcsAre DEF IInv
  <1>1. /\ pc' \in [Procs -> Steps] /\ pc'[Svc] = step
        /\ \A x \in Procs \ {Svc} : pc'[x] = pc[x]
    BY <1>0, GotoIs
  <1>2. Copy(Svc)'
    BY <1>1 DEF Copy
  <1> QED BY <1>0, <1>1, <1>2, ServiceInv DEF WeakTypes

\* A pass over the service ends.
LEMMA ServiceEnds ==
    ASSUME IInv, EndPass(Svc), UNCHANGED <<bk, cm, pod>>,
           \A b \in Backups : b \in queued' => b \in queued
    PROVE  IInv'
  <1>0. Svc \in Procs /\ WeakTypes /\ "idle" \in Steps
    BY ProcsAre DEF IInv, Steps
  <1>1. /\ Goto(Svc, "idle") /\ seen' = [seen EXCEPT ![Svc] = None]
        /\ fresh' = [fresh EXCEPT ![Svc] = FALSE] /\ UNCHANGED mbk
    BY DEF EndPass
  <1>2. /\ pc' \in [Procs -> Steps] /\ pc'[Svc] = "idle"
        /\ \A x \in Procs \ {Svc} : pc'[x] = pc[x]
    BY <1>0, <1>1, GotoIs
  <1>3. /\ fresh' \in [Procs -> BOOLEAN]
        /\ \A x \in Procs \ {Svc} : fresh'[x] = fresh[x]
    BY <1>0, <1>1 DEF WeakTypes
  <1>4. DOMAIN seen' = Procs /\ \A x \in Procs \ {Svc} : seen'[x] = seen[x]
    BY <1>0, <1>1 DEF WeakTypes
  <1>5. Copy(Svc)'
    BY <1>2 DEF Copy
  <1> QED BY <1>1, <1>2, <1>3, <1>4, <1>5, ServiceInv

\* What the user does to the service changes nothing of the rest.
LEMMA UserEditsServiceInv ==
    ASSUME IInv, EditService \/ DeleteService \/ RecreateService
    PROVE  IInv'
  <1>0. Copy(Svc) /\ WeakTypes /\ Svc \notin Backups
    BY ProcsAre DEF IInv
  <1>1. queued' = queued \cup {Svc} /\ UNCHANGED <<bk, mbk, cm, pod, pc, seen, fresh>>
    BY DEF EditService, DeleteService, RecreateService, cluster
  <1>2. Copy(Svc)'
    BY <1>0, <1>1 DEF Copy
  <1> QED BY <1>0, <1>1, <1>2, ServiceInv DEF WeakTypes

\* Reconcile of the service up to setStatusPhase.
LEMMA StartServiceInv ==
    ASSUME IInv, StartService
    PROVE  IInv'
  <1>0. Copy(Svc) /\ WeakTypes /\ "read" \in Steps \ {"write"}
    BY DEF IInv, Steps
  <1>1. queued' = queued \ {Svc} /\ UNCHANGED <<bk, mbk, cm, pod, seen, fresh>>
    BY DEF StartService, cluster
  <1>2. CASE Goto(Svc, "read")
    BY <1>0, <1>1, <1>2, ServiceGoesOn
  <1>3. CASE UNCHANGED pc
    <2>1. Copy(Svc)'
      BY <1>0, <1>1, <1>3 DEF Copy
    <2> QED BY <1>0, <1>1, <1>3, <2>1, ServiceInv DEF WeakTypes
  <1> QED BY <1>2, <1>3 DEF StartService

\* A pass over the service reads the ConfigMap.
LEMMA GetServiceConfigMapInv ==
    ASSUME IInv, GetServiceConfigMap
    PROVE  IInv'
  <1>0. Svc \in Procs /\ WeakTypes /\ "write" \in Steps
    BY ProcsAre DEF IInv, Steps
  <1>1. /\ seen' = [seen EXCEPT ![Svc] = cm] /\ fresh' = [fresh EXCEPT ![Svc] = TRUE]
        /\ Goto(Svc, "write") /\ UNCHANGED <<bk, mbk, cm, pod, queued>>
    BY DEF GetServiceConfigMap, objects, cluster
  <1>2. /\ pc' \in [Procs -> Steps]
        /\ \A x \in Procs \ {Svc} : pc'[x] = pc[x]
    BY <1>0, <1>1, GotoIs
  <1>3. /\ fresh' \in [Procs -> BOOLEAN]
        /\ \A x \in Procs \ {Svc} : fresh'[x] = fresh[x]
    BY <1>0, <1>1 DEF WeakTypes
  <1>4. DOMAIN seen' = Procs /\ seen'[Svc] = cm /\ \A x \in Procs \ {Svc} : seen'[x] = seen[x]
    BY <1>0, <1>1 DEF WeakTypes
  <1>5. Copy(Svc)'
    BY <1>1, <1>4 DEF Copy
  <1> QED BY <1>1, <1>2, <1>3, <1>4, <1>5, ServiceInv

\* The pod goes away, in a pass over the service.
LEMMA NoPodIs ==
    /\ NoPod.st = "none"
    /\ NoPod = [st |-> NoPod.st, tmpl |-> NoPod.tmpl, file |-> NoPod.file, loaded |-> NoPod.loaded]
  BY DEF NoPod

\* updateBackupSvcConfig, which may delete the pod.
LEMMA UpdateBackupSvcConfigInv ==
    ASSUME IInv, UpdateBackupSvcConfig
    PROVE  IInv'
  <1>0. /\ Svc \in Procs /\ WeakTypes /\ Svc \notin Backups
        /\ {"status", "rolled", "wait"} \subseteq Steps \ {"write"}
    BY ProcsAre DEF IInv, Steps
  <1>1. UNCHANGED <<bk, mbk, cm, seen, fresh, queued>>
    BY DEF UpdateBackupSvcConfig, objects
  <1>2. CASE UNCHANGED pod /\ (Goto(Svc, "status") \/ Goto(Svc, "wait"))
    BY <1>0, <1>1, <1>2, ServiceGoesOn
  <1>3. CASE Goto(Svc, "rolled") /\ pod' = NoPod
    <2>1. /\ pc' \in [Procs -> Steps] /\ pc'[Svc] = "rolled"
          /\ \A x \in Procs \ {Svc} : pc'[x] = pc[x]
      BY <1>0, <1>3, GotoIs
    <2>2. WeakTypes'
      BY <1>0, <1>1, <2>1 DEF WeakTypes, IsConfig
    <2>3. PodTypes' /\ pod'.st = "none"
      BY <1>3, NoPodIs DEF PodTypes
    <2>4. Copy(Svc)'
      BY <2>1 DEF Copy
    <2>5. pod'.st # "running"
      BY <2>3
    <2>6. \A b \in Backups : pc'[b] = pc[b]
      BY <2>1, ProcsAre
    <2> QED BY <1>1, <2>2, <2>3, <2>4, <2>5, <2>6, OthersInv
  <1> QED BY <1>2, <1>3 DEF UpdateBackupSvcConfig

\* The steps of the service controller that touch neither ConfigMap nor pod.
LEMMA ServiceStepInv ==
    ASSUME IInv, \/ ReconcileDeployment \/ RecordBeforeWait \/ WaitForDeploymentToBeReady
                 \/ UpdateServiceStatus \/ FailService \/ WaitForConfigInPods(Svc)
    PROVE  IInv'
  <1>0. /\ {"ready", "rolled", "settled", "started", "config", "apply"} \subseteq Steps \ {"write"}
        /\ Svc \notin Backups
    BY ProcsAre DEF Steps
  <1>1. CASE ReconcileDeployment
    <2>1. /\ Goto(Svc, "ready") \/ Goto(Svc, "rolled") \/ Goto(Svc, "settled")
          /\ UNCHANGED <<bk, mbk, cm, pod, seen, fresh, queued>>
      BY <1>1 DEF ReconcileDeployment, objects
    <2> QED BY <1>0, <2>1, ServiceGoesOn
  <1>2. CASE RecordBeforeWait
    <2>1. Goto(Svc, "ready") /\ UNCHANGED <<bk, mbk, cm, pod, seen, fresh, queued>>
      BY <1>2 DEF RecordBeforeWait, cluster
    <2> QED BY <1>0, <2>1, ServiceGoesOn
  <1>3. CASE WaitForDeploymentToBeReady
    <2>1. /\ Goto(Svc, "started") \/ Goto(Svc, "config")
          /\ UNCHANGED <<bk, mbk, cm, pod, seen, fresh, queued>>
      BY <1>3 DEF WaitForDeploymentToBeReady, objects, cluster
    <2> QED BY <1>0, <2>1, ServiceGoesOn
  <1>4. CASE UpdateServiceStatus
    <2>1. EndPass(Svc) /\ UNCHANGED <<bk, cm, pod, queued>>
      BY <1>4 DEF UpdateServiceStatus, cluster
    <2> QED BY <2>1, ServiceEnds
  <1>5. CASE FailService
    <2>1. EndPass(Svc) /\ queued' = queued \cup {Svc} /\ UNCHANGED <<bk, cm, pod>>
      BY <1>5 DEF FailService, cluster
    <2> QED BY <1>0, <2>1, ServiceEnds
  <1>6. CASE WaitForConfigInPods(Svc)
    <2>1. Goto(Svc, "apply") /\ UNCHANGED <<bk, mbk, cm, pod, seen, fresh, queued>>
      BY <1>6 DEF WaitForConfigInPods, objects, cluster
    <2> QED BY <1>0, <2>1, ServiceGoesOn
  <1> QED BY <1>1, <1>2, <1>3, <1>4, <1>5, <1>6

-----------------------------------------------------------------------------
(* The file and the process *)

\* A reload, by whichever controller, loads the entries of the file.
LEMMA ApplyConfigInv ==
    ASSUME IInv, NEW c \in Procs, ApplyConfig(c)
    PROVE  IInv'
  <1> DEFINE new == [static |-> pod.loaded.static, dyn |-> pod.file.dyn, entry |-> pod.file.entry]
  <1>0. WeakTypes /\ PodTypes /\ {"reloaded", "unfinalize", "trigger"} \subseteq Steps
    BY DEF IInv, Steps
  <1>1. /\ pc[c] = "apply" /\ pod.st = "running"
        /\ pod' = [pod EXCEPT !.loaded = [pod.file EXCEPT !.static = pod.loaded.static]]
        /\ UNCHANGED <<bk, mbk, cm, seen, fresh, queued>>
    BY DEF ApplyConfig, objects
  <1>2. /\ Goto(c, "reloaded") \/ Goto(c, "unfinalize") \/ Goto(c, "trigger")
        /\ c \in Backups /\ Goto(c, "unfinalize") => mbk[c].deleting
    <2>1. CASE c = Svc
      <3>1. Goto(c, "reloaded") /\ c \notin Backups
        BY <2>1, ProcsAre DEF ApplyConfig
      <3> QED BY <3>1
    <2>2. CASE c # Svc /\ mbk[c].deleting
      <3>1. Goto(c, "unfinalize")
        BY <2>2 DEF ApplyConfig
      <3> QED BY <2>2, <3>1
    <2>3. CASE c # Svc /\ ~mbk[c].deleting
      <3>1. Goto(c, "trigger")
        BY <2>3 DEF ApplyConfig
      <3>2. ~Goto(c, "unfinalize")
        BY <1>0, <3>1 DEF Goto, WeakTypes
      <3> QED BY <3>1, <3>2
    <2> QED BY <2>1, <2>2, <2>3
  <1>3. PICK step \in {"reloaded", "unfinalize", "trigger"} :
           Goto(c, step) /\ (c \in Backups /\ step = "unfinalize" => mbk[c].deleting)
    BY <1>2
  <1>4. /\ pc' \in [Procs -> Steps] /\ pc'[c] = step
        /\ \A x \in Procs \ {c} : pc'[x] = pc[x]
    BY <1>0, <1>3, GotoIs
  <1>5. pod.file = [static |-> pod.file.static, dyn |-> pod.file.dyn, entry |-> pod.file.entry]
    BY <1>0, <1>1 DEF PodTypes, IsConfig
  <1>6. [pod.file EXCEPT !.static = pod.loaded.static] = new
    BY SMT, <1>5
  <1>7. pod' = [st |-> pod.st, tmpl |-> pod.tmpl, file |-> pod.file, loaded |-> new]
    BY <1>0, <1>1, <1>6 DEF PodTypes
  <1>8. /\ pod'.st = pod.st /\ pod'.file = pod.file /\ pod'.loaded = new
        /\ pod' = [st |-> pod'.st, tmpl |-> pod'.tmpl, file |-> pod'.file, loaded |-> pod'.loaded]
    BY <1>7
  <1>9. IsConfig(new)
    BY <1>0, <1>1 DEF PodTypes, IsConfig
  <1>10. PodTypes'
    BY <1>0, <1>1, <1>8, <1>9 DEF PodTypes, IsConfig
  <1>11. WeakTypes'
    BY <1>0, <1>1, <1>4 DEF WeakTypes, IsConfig
  <1>12. Copy(Svc)'
    BY <1>1, <1>3, <1>4, ProcsAre DEF IInv, Copy
  <1>13. ASSUME NEW b \in Backups PROVE Copy(b)' /\ There(b)' /\ Entry(b)'
    <2>0. Copy(b) /\ There(b) /\ Entry(b) /\ b \in Procs /\ b # Svc
      BY ProcsAre DEF IInv
    <2>1. Copy(b)'
      BY <1>1, <1>3, <1>4, <2>0 DEF Copy, IsConfig
    <2>2. There(b)'
      BY <1>1, <1>3, <1>4, <2>0 DEF There
    <2>3. /\ OutOfConfigMap(b)' => OutOfConfigMap(b)
          /\ OutOfFile(b)' => OutOfFile(b)
          /\ OutOfProcess(b)' => OutOfFile(b)
      BY <1>1, <1>3, <1>4, <2>0 DEF There, OutOfConfigMap, OutOfFile, OutOfProcess
    <2>4. new.entry = pod.file.entry
      OBVIOUS
    <2> QED BY SMT, <1>1, <1>8, <2>0, <2>1, <2>2, <2>3, <2>4 DEF Entry
  <1> QED BY <1>10, <1>11, <1>12, <1>13 DEF IInv

\* A pass over a backup has waited for the file to be the ConfigMap.
LEMMA WaitForConfigInPodsInv ==
    ASSUME IInv, NEW b \in Backups, WaitForConfigInPods(b)
    PROVE  IInv'
  <1>0. b \in Procs /\ WeakTypes /\ There(b) /\ Entry(b) /\ "apply" \in Steps
    BY ProcsAre DEF IInv, Steps
  <1>1. /\ pc[b] = "wait" /\ cm # None /\ pod.file = cm /\ Goto(b, "apply")
        /\ UNCHANGED <<bk, mbk, cm, pod, seen, fresh, queued>>
    BY DEF WaitForConfigInPods, objects, cluster
  <1>2. /\ pc' \in [Procs -> Steps] /\ pc'[b] = "apply"
        /\ \A x \in Procs \ {b} : pc'[x] = pc[x]
    BY <1>0, <1>1, GotoIs
  <1>3. WeakTypes'
    BY SMTT(30), <1>0, <1>1, <1>2 DEF WeakTypes, IsConfig
  <1>4. There(b)' /\ Copy(b)' /\ Entry(b)'
    BY SMTT(30), <1>0, <1>1, <1>2 DEF There, Copy, Entry, OutOfConfigMap, OutOfFile, OutOfProcess
  <1> QED BY <1>1, <1>2, <1>3, <1>4, OneBackup

\* What a backup that is on its way out has left, it has left in this order.
LEMMA OutInOrder ==
    ASSUME IInv, NEW b \in Backups
    PROVE  (OutOfProcess(b) => OutOfFile(b)) /\ (OutOfFile(b) => OutOfConfigMap(b))
  BY SMTT(30) DEF IInv, There, OutOfConfigMap, OutOfFile, OutOfProcess

\* Kubernetes changes the pod, outside of any pass.
LEMMA PodInv ==
    ASSUME IInv, UNCHANGED <<bk, mbk, cm, pass>>, PodTypes',
           \A b \in Backups : /\ OutOfFile(b) /\ pod'.st # "none" => pod'.file.entry[b] = 0
                              /\ OutOfProcess(b) /\ pod'.st = "running" => pod'.loaded.entry[b] = 0
    PROVE  IInv'
  <1>1. UNCHANGED <<pc, seen, fresh, queued>>
    BY DEF pass
  <1>2. WeakTypes'
    BY <1>1 DEF IInv, WeakTypes, IsConfig
  <1>3. Copy(Svc)'
    BY <1>1 DEF IInv, Copy
  <1> QED BY <1>1, <1>2, <1>3, OthersInv

\* The pod is started, restarted and rolled out, and its file is synced.
LEMMA KubernetesInv ==
    ASSUME IInv, RollOut \/ PodStarts \/ ProcessStarts \/ ProcessFails \/ KubeletSyncs
    PROVE  IInv'
  <1>0. PodTypes /\ (cm # None => IsConfig(cm)) /\ \A b \in Backups : Entry(b)
    BY DEF IInv, WeakTypes
  <1>1. UNCHANGED <<bk, mbk, cm, pass>>
    BY DEF RollOut, PodStarts, ProcessStarts, ProcessFails, KubeletSyncs, objects, pass
  <1>2. CASE RollOut
    <2>1. CASE pod' = pod
      <3>1. PodTypes'
        BY <1>0, <2>1 DEF PodTypes, IsConfig
      <3> QED BY <1>0, <1>1, <2>1, <3>1, PodInv DEF Entry
    <2>2. CASE pod' = NoPod
      <3>1. PodTypes' /\ pod'.st = "none"
        BY <2>2, NoPodIs DEF PodTypes
      <3> QED BY <1>1, <3>1, PodInv
    <2> QED BY <1>2, <2>1, <2>2 DEF RollOut
  <1>3. CASE PodStarts
    <2>1. cm # None /\ pod' = [st |-> "starting", tmpl |-> deploy.tmpl, file |-> cm, loaded |-> None]
      BY <1>3 DEF PodStarts
    <2>2. PodTypes' /\ pod'.st = "starting" /\ pod'.file = cm
      BY SMTT(30), <1>0, <2>1 DEF PodTypes, IsConfig
    <2> QED BY <1>0, <1>1, <2>1, <2>2, OutInOrder, PodInv DEF Entry
  <1>4. CASE ProcessStarts
    <2>1. /\ pod.st = "starting"
          /\ pod' = [st |-> "running", tmpl |-> pod.tmpl, file |-> pod.file, loaded |-> pod.file]
      BY <1>0, <1>4 DEF ProcessStarts, PodTypes
    <2>2. PodTypes' /\ pod'.st = "running" /\ pod'.file = pod.file /\ pod'.loaded = pod.file
      BY SMTT(30), <1>0, <2>1 DEF PodTypes, IsConfig
    <2> QED BY <1>0, <1>1, <2>1, <2>2, OutInOrder, PodInv DEF Entry
  <1>5. CASE ProcessFails
    <2>1. /\ pod.st = "running"
          /\ pod' = [st |-> "starting", tmpl |-> pod.tmpl, file |-> pod.file, loaded |-> None]
      BY <1>0, <1>5 DEF ProcessFails, PodTypes
    <2>2. PodTypes' /\ pod'.st = "starting" /\ pod'.file = pod.file
      BY SMTT(30), <1>0, <2>1 DEF PodTypes, IsConfig
    <2> QED BY <1>0, <1>1, <2>1, <2>2, PodInv DEF Entry
  <1>6. CASE KubeletSyncs
    <2>1. /\ pod.st # "none" /\ cm # None
          /\ pod' = [st |-> pod.st, tmpl |-> pod.tmpl, file |-> cm, loaded |-> pod.loaded]
      BY <1>0, <1>6 DEF KubeletSyncs, PodTypes
    <2>2. PodTypes' /\ pod'.st = pod.st /\ pod'.file = cm /\ pod'.loaded = pod.loaded
      BY <1>0, <2>1 DEF PodTypes, IsConfig
    <2> QED BY <1>0, <1>1, <2>1, <2>2, OutInOrder, PodInv DEF Entry
  <1> QED BY <1>2, <1>3, <1>4, <1>5, <1>6

-----------------------------------------------------------------------------
(* The ConfigMap *)

\* An update goes through with a copy that is current, and makes the others stale.
LEMMA UpdateIs ==
    ASSUME IInv, NEW c \in Procs, NEW new, pc[c] = "write", UpdateConfigMap(c, new)
    PROVE  /\ seen[c] = cm /\ cm' = new
           /\ fresh' \in [Procs -> BOOLEAN]
           /\ \A x \in Procs : fresh'[x] => fresh[x] /\ cm' = cm
  <1>1. fresh[c] /\ cm' = new /\ WeakTypes /\ Copy(c)
    BY DEF UpdateConfigMap, IInv, Procs
  <1>2. CASE new = cm
    <2>1. fresh' = fresh
      BY <1>2 DEF UpdateConfigMap
    <2> QED BY <1>1, <1>2, <2>1 DEF WeakTypes, Copy
  <1>3. CASE new # cm
    <2>1. fresh' = [x \in Procs |-> FALSE]
      BY <1>3 DEF UpdateConfigMap
    <2>2. fresh' \in [Procs -> BOOLEAN] /\ \A x \in Procs : ~fresh'[x]
      BY SMTT(30), <2>1
    <2> QED BY <1>1, <2>2 DEF Copy
  <1> QED BY <1>2, <1>3

\* A pass that writes the ConfigMap goes on, and leaves the entries of backups
\* that are out of it alone.
LEMMA WriteInv ==
    ASSUME IInv, NEW c \in Procs, NEW step \in {"wait", "trigger", "deploy"}, Goto(c, step),
           UNCHANGED <<bk, mbk, pod, seen, queued>>,
           fresh' \in [Procs -> BOOLEAN], \A x \in Procs : fresh'[x] => fresh[x] /\ cm' = cm,
           cm' # None => IsConfig(cm'), pc[c] = "write",
           \A b \in Backups : OutOfConfigMap(b)' /\ cm' # None => cm'.entry[b] = 0
    PROVE  IInv'
  <1>0. WeakTypes /\ PodTypes /\ {"wait", "trigger", "deploy"} \subseteq Steps
    BY DEF IInv, Steps
  <1>1. /\ pc' \in [Procs -> Steps] /\ pc'[c] = step
        /\ \A x \in Procs \ {c} : pc'[x] = pc[x]
    BY <1>0, GotoIs
  <1>2. WeakTypes'
    BY <1>0, <1>1 DEF WeakTypes, IsConfig
  <1>3. PodTypes'
    BY <1>0 DEF PodTypes, IsConfig
  <1>4. ASSUME NEW x \in Procs, Copy(x) PROVE Copy(x)'
    BY <1>1, <1>4 DEF Copy, IsConfig
  <1>5. Copy(Svc)'
    BY <1>4, ProcsAre DEF IInv
  <1>6. ASSUME NEW b \in Backups PROVE Copy(b)' /\ There(b)' /\ Entry(b)'
    <2>0. Copy(b) /\ There(b) /\ Entry(b) /\ b \in Procs
      BY ProcsAre DEF IInv
    <2>1. Copy(b)'
      BY SMTT(30), <1>4, <2>0
    <2>2. There(b)'
      BY SMTT(30), <1>1, <2>0 DEF There
    <2>3. (OutOfFile(b)' => OutOfFile(b)) /\ (OutOfProcess(b)' => OutOfProcess(b))
      BY SMTT(30), <1>1 , <2>0 DEF OutOfFile, OutOfProcess
    <2>4. Entry(b)'
      BY SMTT(30), <2>0, <2>3 DEF Entry
    <2> QED BY <2>1, <2>2, <2>4
  <1> QED BY SMTT(30), <1>2, <1>3, <1>5, <1>6 DEF IInv

\* A pass over a backup writes the ConfigMap, and changes its own entry only.
LEMMA ReconcileConfigMapInv ==
    ASSUME IInv, NEW b \in Backups, ReconcileConfigMap(b)
    PROVE  /\ IInv'
           /\ cm # None /\ cm' # None =>
                 /\ \A x \in Backups : x # b => cm'.entry[x] = cm.entry[x]
                 /\ cm'.static = cm.static /\ cm'.dyn = cm.dyn
           /\ pc[b] = "write" /\ pc'[b] # "write"
  <1>0. /\ b \in Procs /\ b # Svc /\ WeakTypes /\ Copy(b) /\ There(b)
        /\ {"wait", "trigger"} \subseteq Steps
    BY ProcsAre DEF IInv, Steps
  <1>1. pc[b] = "write" /\ UNCHANGED <<bk, mbk, pod, seen, queued>>
    BY DEF ReconcileConfigMap, objects
  <1>2. PICK step \in {"wait", "trigger"} : Goto(b, step) /\ (mbk[b].deleting => step = "wait")
    BY DEF ReconcileConfigMap, WritesConfigMap
  <1>3. /\ pc'[b] = step /\ \A x \in Procs \ {b} : pc'[x] = pc[x]
    BY <1>0, <1>2, GotoIs
  <1>4. seen[b] # None /\ IsConfig(seen[b]) /\ mbk \in [Backups -> Objects]
    BY <1>0, <1>1 DEF Copy, WeakTypes
  <1>5. CASE WritesConfigMap(b)
    <2>1. UpdateConfigMap(b, Merged(b))
      BY <1>5 DEF ReconcileConfigMap
    <2>2. /\ seen[b] = cm /\ cm' = Merged(b) /\ fresh' \in [Procs -> BOOLEAN]
          /\ \A x \in Procs : fresh'[x] => fresh[x] /\ cm' = cm
      BY SMTT(30), <1>0, <1>1, <2>1, UpdateIs
    <2>3. /\ IsConfig(cm') /\ cm'.static = cm.static /\ cm'.dyn = cm.dyn
          /\ \A x \in Backups : x # b => cm'.entry[x] = cm.entry[x]
          /\ mbk[b].deleting => cm'.entry[b] = 0
      BY <1>4, <2>2, MergedKeeps
    <2>4. ASSUME NEW x \in Backups, OutOfConfigMap(x)' PROVE cm'.entry[x] = 0
      <3>1. CASE x = b
        BY SMTT(30), <1>0, <1>1, <2>3, <2>4, <3>1 DEF There, OutOfConfigMap
      <3>2. CASE x # b
        <4>1. x \in Procs \ {b} /\ Entry(x)
          BY <3>2, ProcsAre DEF IInv
        <4>2. OutOfConfigMap(x)
          BY SMTT(30), <1>1, <1>3, <2>4, <4>1 DEF OutOfConfigMap
        <4> QED BY <1>4, <2>2, <2>3, <3>2, <4>1, <4>2 DEF Entry
      <3> QED BY <3>1, <3>2
    <2>5. IInv'
      BY SMTT(30), <1>0, <1>1, <1>2, <2>2, <2>3, <2>4, WriteInv
    <2> QED BY <1>1, <1>2, <1>3, <2>3, <2>5
  <1>6. CASE ~WritesConfigMap(b)
    <2>1. UNCHANGED <<cm, fresh>> /\ ~mbk[b].deleting
      BY <1>6 DEF ReconcileConfigMap, WritesConfigMap
    <2>2. ASSUME NEW x \in Backups, OutOfConfigMap(x)', cm' # None PROVE cm'.entry[x] = 0
      <3>1. x \in Procs /\ Entry(x)
        BY ProcsAre DEF IInv
      <3>2. OutOfConfigMap(x)
        BY SMTT(30), <1>1, <1>3, <2>1, <2>2, <3>1 DEF OutOfConfigMap
      <3> QED BY <2>1, <2>2, <3>1, <3>2 DEF Entry
    <2>3. IInv'
      BY SMTT(30), <1>0, <1>1, <1>2, <2>1, <2>2, WriteInv DEF WeakTypes, IsConfig
    <2> QED BY SMTT(30), <1>1, <1>2, <1>3, <2>1, <2>3
  <1> QED BY <1>5, <1>6

\* A pass over the service writes the ConfigMap, and keeps every entry.
LEMMA ReconcileServiceConfigMapInv ==
    ASSUME IInv, ReconcileServiceConfigMap
    PROVE  /\ IInv'
           /\ cm # None => cm'.entry = cm.entry
           /\ pc[Svc] = "write" /\ pc'[Svc] # "write"
  <1>0. Svc \in Procs /\ WeakTypes /\ "deploy" \in Steps
    BY ProcsAre DEF IInv, Steps
  <1>1. /\ pc[Svc] = "write" /\ UNCHANGED <<bk, mbk, pod, seen, queued>>
        /\ Goto(Svc, "deploy") /\ UpdateConfigMap(Svc, ServiceMerged)
    BY DEF ReconcileServiceConfigMap, objects
  <1>2. pc'[Svc] = "deploy" /\ \A x \in Procs \ {Svc} : pc'[x] = pc[x]
    BY <1>0, <1>1, GotoIs
  <1>3. /\ seen[Svc] = cm /\ cm' = ServiceMerged /\ fresh' \in [Procs -> BOOLEAN]
        /\ \A x \in Procs : fresh'[x] => fresh[x] /\ cm' = cm
    BY <1>0, <1>1, UpdateIs
  <1>4. cm'.entry = IF cm = None THEN [b \in Backups |-> 0] ELSE cm.entry
    BY <1>3 DEF ServiceMerged
  <1>5. cm'.entry \in [Backups -> 0 .. 2]
    BY SMT, <1>0, <1>4 DEF WeakTypes, IsConfig
  <1>6. cm' = [static |-> cm'.static, dyn |-> cm'.dyn, entry |-> cm'.entry]
    BY <1>3 DEF ServiceMerged
  <1>7. IsConfig(cm')
    BY <1>5, <1>6 DEF IsConfig
  <1>8. ASSUME NEW b \in Backups, OutOfConfigMap(b)' PROVE cm'.entry[b] = 0
    <2>1. b \in Procs \ {Svc} /\ Entry(b)
      BY SMTT(30), ProcsAre DEF IInv
    <2>2. OutOfConfigMap(b)
      BY SMTT(30), <1>1, <1>2, <1>8, <2>1 DEF OutOfConfigMap
    <2> QED BY <1>4, <2>1, <2>2 DEF Entry
  <1>9. IInv'
    BY <1>0, <1>1, <1>3, <1>7, <1>8, WriteInv
  <1> QED BY <1>1, <1>2, <1>4, <1>9

\* The resources of a deleted service are collected.
LEMMA CollectGarbageInv ==
    ASSUME IInv, CollectGarbage
    PROVE  IInv' /\ cm' = None
  <1>1. /\ cm' = None /\ pod' = NoPod /\ fresh' = [c \in Procs |-> FALSE]
        /\ UNCHANGED <<bk, mbk, pc, seen, queued>>
    BY DEF CollectGarbage, objects
  <1>2. fresh' \in [Procs -> BOOLEAN] /\ \A x \in Procs : ~fresh'[x]
    BY <1>1
  <1>3. WeakTypes'
    BY <1>1, <1>2 DEF IInv, WeakTypes
  <1>4. PodTypes' /\ pod'.st = "none"
    BY <1>1, NoPodIs DEF PodTypes
  <1>5. Copy(Svc)'
    BY <1>2, ProcsAre DEF Copy
  <1>6. ASSUME NEW b \in Backups PROVE Copy(b)' /\ There(b)' /\ Entry(b)'
    <2>0. Copy(b) /\ There(b) /\ b \in Procs
      BY SMTT(30), ProcsAre DEF IInv
    <2>1. Copy(b)' /\ There(b)'
      BY <1>1, <1>2, <2>0 DEF Copy, There, IsConfig
    <2>2. pod'.st # "running"
      BY <1>4
    <2> QED BY <1>1, <1>4, <2>1, <2>2 DEF Entry
  <1> QED BY <1>1, <1>3, <1>4, <1>5, <1>6 DEF IInv

-----------------------------------------------------------------------------
\* The operator restarts.
LEMMA CrashInv ==
    ASSUME IInv, Crash
    PROVE  IInv'
  <1>1. /\ pc' = [c \in Procs |-> "idle"] /\ seen' = [c \in Procs |-> None]
        /\ fresh' = [c \in Procs |-> FALSE] /\ mbk' = [b \in Backups |-> NewBackup]
        /\ queued' = {b \in Backups : bk[b].exists} \cup {Svc}
        /\ UNCHANGED <<bk, cm, pod>>
    BY DEF Crash, objects, cluster
  <1>2. pc' \in [Procs -> Steps] /\ \A x \in Procs : pc'[x] = "idle"
    BY <1>1 DEF Steps
  <1>3. mbk' \in [Backups -> Objects]
    BY <1>1, NewBackupIs
  <1>4. fresh' \in [Procs -> BOOLEAN] /\ DOMAIN seen' = Procs
    BY SMTT(30), <1>1
  <1>5. WeakTypes' /\ PodTypes'
    BY <1>1, <1>2, <1>3, <1>4 DEF IInv, WeakTypes, PodTypes, IsConfig
  <1>6. Copy(Svc)'
    BY <1>2, ProcsAre DEF Copy
  <1>7. ASSUME NEW b \in Backups PROVE Copy(b)' /\ There(b)' /\ Entry(b)'
    <2>0. There(b) /\ Entry(b) /\ pc'[b] = "idle" /\ b # Svc
      BY SMTT(30), <1>2, ProcsAre DEF IInv
    <2>1. Copy(b)' /\ There(b)'
      BY SMTT(30), <1>1, <2>0 DEF Copy, There
    <2>2. Entry(b)'
      BY <1>1, <2>0 DEF Entry, OutOfConfigMap, OutOfFile, OutOfProcess
    <2> QED BY <2>1, <2>2
  <1> QED BY <1>5, <1>6, <1>7 DEF IInv

\* The steps that write the ConfigMap, and the others.
LEMMA NextCases ==
    ASSUME IInv, Next
    PROVE  \/ \E b \in Backups : ReconcileConfigMap(b)
           \/ ReconcileServiceConfigMap
           \/ CollectGarbage
           \/ IInv' /\ UNCHANGED cm
  <1>1. ASSUME NEW b \in Backups, BackupStep(b), ~ReconcileConfigMap(b) PROVE IInv' /\ UNCHANGED cm
    <2>1. IInv'
      BY <1>1, SkipReconcileInv, StartBackupInv, GetConfigMapInv, TriggerInv,
         UpdateBackupStatusInv, RemoveFinalizerInv DEF BackupStep
    <2>2. UNCHANGED cm
      BY <1>1 DEF BackupStep, SkipReconcile, StartBackup, GetConfigMap,
         TriggerOnDemandBackup, UpdateBackupStatus, RemoveFinalizer, cluster
    <2> QED BY <2>1, <2>2
  <1>2. ASSUME NEW b \in Backups, FailBackup(b) PROVE IInv' /\ UNCHANGED cm
    BY <1>2, FailBackupInv DEF FailBackup, cluster
  <1>3. ASSUME ServiceStep \/ FailService, ~ReconcileServiceConfigMap PROVE IInv' /\ UNCHANGED cm
    <2>1. IInv'
      BY <1>3, StartServiceInv, GetServiceConfigMapInv, UpdateBackupSvcConfigInv,
         ServiceStepInv DEF ServiceStep
    <2>2. UNCHANGED cm
      BY <1>3 DEF ServiceStep, StartService, GetServiceConfigMap, ReconcileDeployment,
         RecordBeforeWait, WaitForDeploymentToBeReady, UpdateBackupSvcConfig, UpdateServiceStatus,
         FailService, cluster
    <2> QED BY <2>1, <2>2
  <1>4. ASSUME NEW c \in Procs, Reload(c) PROVE IInv' /\ UNCHANGED cm
    <2>1. CASE ApplyConfig(c)
      BY <2>1, ApplyConfigInv DEF ApplyConfig
    <2>2. CASE WaitForConfigInPods(c)
      <3>1. UNCHANGED cm
        BY <2>2 DEF WaitForConfigInPods, cluster
      <3>2. c \in Backups \/ c = Svc
        BY DEF Procs
      <3> QED BY <2>2, <3>1, <3>2, WaitForConfigInPodsInv, ServiceStepInv
    <2> QED BY <1>4, <2>1, <2>2 DEF Reload
  <1>5. ASSUME Crash PROVE IInv' /\ UNCHANGED cm
    BY <1>5, CrashInv DEF Crash, cluster
  <1>6. ASSUME User PROVE IInv' /\ UNCHANGED cm
    <2>1. IInv'
      BY <1>6, UserEditsBackupInv, UserEditsServiceInv DEF User
    <2>2. UNCHANGED cm
      BY <1>6 DEF User, EditBackup, AddOnDemandBackup, DeleteBackup, EditService,
         DeleteService, RecreateService, cluster
    <2> QED BY <2>1, <2>2
  <1>7. ASSUME Kubernetes, ~CollectGarbage PROVE IInv' /\ UNCHANGED cm
    <2>1. IInv'
      BY <1>7, KubernetesInv DEF Kubernetes
    <2>2. UNCHANGED cm
      BY <1>7 DEF Kubernetes, RollOut, PodStarts, ProcessStarts, ProcessFails, KubeletSyncs
    <2> QED BY <2>1, <2>2
  <1> QED BY <1>1, <1>2, <1>3, <1>4, <1>5, <1>6, <1>7 DEF Next

\* Every step keeps the invariant.
LEMMA NextInv == IInv /\ [Next]_vars => IInv'
  <1>1. ASSUME IInv, UNCHANGED vars PROVE IInv'
    <2>1. UNCHANGED <<bk, mbk, cm, pod, pc, seen, fresh, queued>>
      BY <1>1 DEF vars, objects, cluster, pass
    <2> QED BY <1>1, <2>1 DEF IInv, WeakTypes, PodTypes, IsConfig, Copy, There, Entry,
                              OutOfConfigMap, OutOfFile, OutOfProcess
  <1>2. ASSUME IInv, Next PROVE IInv'
    BY <1>2, NextCases, ReconcileConfigMapInv, ReconcileServiceConfigMapInv,
       CollectGarbageInv
  <1> QED BY SMTT(30), <1>1, <1>2

-----------------------------------------------------------------------------
\* For any number of backups that come and go at the same time, and whatever
\* fails: an AerospikeBackup that is gone is in neither the ConfigMap nor the
\* process, although the other controllers keep writing the whole ConfigMap.
THEOREM DeletedUnloaded == Spec => []DeletedIsUnloaded
  <1>1. IInv => DeletedIsUnloaded
    <2> SUFFICES ASSUME IInv, NEW b \in Backups, ~bk[b].exists
                 PROVE  /\ cm # None => cm.entry[b] = 0
                        /\ pod.st = "running" => pod.loaded.entry[b] = 0
      BY DEF DeletedIsUnloaded
    <2> QED BY DEF IInv, There, Entry, OutOfConfigMap, OutOfProcess
  <1> QED BY <1>1, InitInv, NextInv, PTL DEF Spec

\* For any number of backups and whatever fails, no controller undoes what
\* another one wrote: the entry of a backup changes only in a pass over that
\* backup, the service part only in a pass over the service.
THEOREM OneWriter == Spec => EntriesHaveOneWriter
  <1> DEFINE Step == cm # None /\ cm' # None =>
                /\ \A b \in Backups : cm'.entry[b] # cm.entry[b] => pc[b] = "write" /\ pc'[b] # "write"
                /\ <<cm'.static, cm'.dyn>> # <<cm.static, cm.dyn>> => pc[Svc] = "write" /\ pc'[Svc] # "write"
  <1>1. ASSUME IInv, [Next]_vars PROVE [Step]_vars
    <2>1. CASE UNCHANGED cm
      BY <2>1
    <2>2. ASSUME NEW b \in Backups, ReconcileConfigMap(b) PROVE Step
      BY <1>1, <2>2, ReconcileConfigMapInv
    <2>3. CASE ReconcileServiceConfigMap
      BY <1>1, <2>3, ReconcileServiceConfigMapInv
    <2>4. CASE CollectGarbage
      BY <1>1, <2>4, CollectGarbageInv
    <2>5. CASE UNCHANGED vars
      BY <2>5
    <2> QED BY <1>1, <2>1, <2>2, <2>3, <2>4, <2>5, NextCases
  <1> QED BY <1>1, InitInv, NextInv, PTL DEF Spec, EntriesHaveOneWriter

-----------------------------------------------------------------------------
(* What the process has loaded *)

\* Every step, as the pod sees it: its file stays or is the ConfigMap, and the
\* process keeps what it has or loads the file.  The history forgets that a
\* config was missed only with such a load, or with the pod.
PodStep ==
    /\ pod'.st # "none" => \/ pod.st # "none" /\ pod'.file = pod.file
                           \/ cm # None /\ pod'.file = cm
    /\ pod'.st = "running" =>
          \/ pod.st = "running" /\ pod'.loaded = pod.loaded
          \/ /\ pod.st # "none" /\ pod'.file = pod.file
             /\ pod'.loaded.dyn = pod.file.dyn /\ pod'.loaded.entry = pod.file.entry
             /\ \/ pod'.loaded.static = pod.file.static
                \/ pod.st = "running" /\ pod'.loaded.static = pod.loaded.static
    /\ \A b \in Backups : b \in missed /\ b \notin missed' =>
          /\ pod.st # "none" /\ pod'.st = "running"
          /\ pod'.file = pod.file /\ pod'.loaded.entry = pod.file.entry
          /\ b \in Loaded(pod.file)

\* The steps that change the pod or the history, and the others.
LEMMA PodCases ==
    ASSUME Next
    PROVE  \/ UNCHANGED <<pod, missed>>
           \/ \E c \in Procs : ApplyConfig(c)
           \/ RollOut \/ PodStarts \/ ProcessStarts \/ ProcessFails \/ KubeletSyncs
           \/ CollectGarbage \/ Crash
           \/ pod' = NoPod /\ UNCHANGED missed
  <1>1. ASSUME NEW b \in Backups, BackupStep(b) PROVE UNCHANGED <<pod, missed>>
    BY <1>1 DEF BackupStep, SkipReconcile, StartBackup, GetConfigMap, ReconcileConfigMap,
       TriggerOnDemandBackup, UpdateBackupStatus, RemoveFinalizer, cluster, history
  <1>2. ASSUME NEW b \in Backups, FailBackup(b) PROVE UNCHANGED <<pod, missed>>
    BY <1>2 DEF FailBackup, cluster, history
  <1>3. ASSUME ServiceStep, ~UpdateBackupSvcConfig PROVE UNCHANGED <<pod, missed>>
    BY <1>3 DEF ServiceStep, StartService, GetServiceConfigMap, ReconcileServiceConfigMap,
       ReconcileDeployment, RecordBeforeWait, WaitForDeploymentToBeReady, UpdateServiceStatus,
       cluster, history
  <1>4. ASSUME UpdateBackupSvcConfig PROVE UNCHANGED missed /\ (UNCHANGED pod \/ pod' = NoPod)
    BY <1>4 DEF UpdateBackupSvcConfig, history
  <1>5. ASSUME FailService PROVE UNCHANGED <<pod, missed>>
    BY <1>5 DEF FailService, cluster, history
  <1>6. ASSUME NEW c \in Procs, WaitForConfigInPods(c) PROVE UNCHANGED <<pod, missed>>
    BY <1>6 DEF WaitForConfigInPods, cluster, history
  <1>7. ASSUME User PROVE UNCHANGED <<pod, missed>>
    BY <1>7 DEF User, EditBackup, AddOnDemandBackup, DeleteBackup, EditService,
       DeleteService, RecreateService, cluster, history
  <1> QED BY <1>1, <1>2, <1>3, <1>4, <1>5, <1>6, <1>7 DEF Next, Reload, Kubernetes

\* Every step is such a step of the pod.
LEMMA PodSteps ==
    ASSUME IInv, [Next]_vars
    PROVE  PodStep
  <1>0. PodTypes /\ Svc \notin Backups
    BY ProcsAre DEF IInv
  <1>1. CASE UNCHANGED <<pod, missed>>
    BY <1>1 DEF PodStep
  <1>2. ASSUME NEW c \in Procs, ApplyConfig(c) PROVE PodStep
    <2> DEFINE new == [static |-> pod.loaded.static, dyn |-> pod.file.dyn, entry |-> pod.file.entry]
    <2>1. /\ pod.st = "running" /\ missed' = missed \ Loaded(pod.file)
          /\ pod' = [pod EXCEPT !.loaded = [pod.file EXCEPT !.static = pod.loaded.static]]
      BY <1>2 DEF ApplyConfig
    <2>2. pod.file = [static |-> pod.file.static, dyn |-> pod.file.dyn, entry |-> pod.file.entry]
      BY <1>0, <2>1 DEF PodTypes, IsConfig
    <2>3. [pod.file EXCEPT !.static = pod.loaded.static] = new
      BY SMT, <2>2
    <2>4. pod' = [st |-> pod.st, tmpl |-> pod.tmpl, file |-> pod.file, loaded |-> new]
      BY <1>0, <2>1, <2>3 DEF PodTypes
    <2>5. pod'.st = pod.st /\ pod'.file = pod.file /\ pod'.loaded = new
      BY <2>4
    <2>6. new.static = pod.loaded.static /\ new.dyn = pod.file.dyn /\ new.entry = pod.file.entry
      OBVIOUS
    <2> HIDE DEF new
    <2> QED BY <2>1, <2>5, <2>6 DEF PodStep
  <1>3. CASE CollectGarbage \/ (pod' = NoPod /\ UNCHANGED missed)
    <2>1. pod'.st = "none" /\ missed \subseteq missed'
      BY <1>3, NoPodIs DEF CollectGarbage
    <2>2. pod'.st # "running"
      BY <2>1
    <2> QED BY <2>1, <2>2 DEF PodStep
  <1>4. CASE RollOut
    <2>1. \A b \in Backups : b \in missed => b \in missed'
      BY <1>0, <1>4 DEF RollOut
    <2>2. CASE pod' = pod
      BY <2>1, <2>2 DEF PodStep
    <2>3. CASE pod' = NoPod
      <3>1. pod'.st = "none" /\ pod'.st # "running"
        BY <2>3, NoPodIs
      <3> QED BY <2>1, <3>1 DEF PodStep
    <2> QED BY <1>4, <2>2, <2>3 DEF RollOut
  <1>5. CASE PodStarts
    <2>1. /\ cm # None /\ missed' = missed
          /\ pod' = [st |-> "starting", tmpl |-> deploy.tmpl, file |-> cm, loaded |-> None]
      BY <1>5 DEF PodStarts, history
    <2>2. pod'.st # "running" /\ pod'.file = cm
      BY <2>1
    <2> QED BY <2>1, <2>2 DEF PodStep
  <1>6. CASE ProcessStarts
    <2>1. /\ pod.st = "starting" /\ missed' = missed \ Loaded(pod.file)
          /\ pod' = [st |-> "running", tmpl |-> pod.tmpl, file |-> pod.file, loaded |-> pod.file]
      BY <1>0, <1>6 DEF ProcessStarts, PodTypes
    <2>2. pod'.st = "running" /\ pod'.file = pod.file /\ pod'.loaded = pod.file
      BY <2>1
    <2> QED BY <2>1, <2>2 DEF PodStep
  <1>7. CASE ProcessFails
    <2>1. /\ pod.st = "running" /\ missed' = missed
          /\ pod' = [st |-> "starting", tmpl |-> pod.tmpl, file |-> pod.file, loaded |-> None]
      BY <1>0, <1>7 DEF ProcessFails, PodTypes, history
    <2>2. pod'.st # "running" /\ pod'.file = pod.file
      BY <2>1
    <2> QED BY <2>1, <2>2 DEF PodStep
  <1>8. CASE KubeletSyncs
    <2>1. /\ pod.st # "none" /\ cm # None /\ missed' = missed
          /\ pod' = [st |-> pod.st, tmpl |-> pod.tmpl, file |-> cm, loaded |-> pod.loaded]
      BY <1>0, <1>8 DEF KubeletSyncs, PodTypes, history
    <2>2. pod'.st = pod.st /\ pod'.file = cm /\ pod'.loaded = pod.loaded
      BY <2>1
    <2> QED BY <2>1, <2>2 DEF PodStep
  <1>9. CASE Crash
    <2>1. UNCHANGED pod /\ missed \subseteq missed'
      BY <1>9 DEF Crash, cluster
    <2> QED BY <2>1 DEF PodStep
  <1>10. CASE UNCHANGED vars
    BY <1>1, <1>10 DEF vars, cluster, history
  <1> QED BY <1>1, <1>2, <1>3, <1>4, <1>5, <1>6, <1>7, <1>8, <1>9, <1>10, PodCases

\* The service and the ConfigMap have their types.
SvcTypes == svc \in Services /\ msvc \in Services

DeployType == deploy = [exists |-> deploy.exists, tmpl |-> deploy.tmpl, observed |-> deploy.observed]

ConfigType == cm # None => cm \in Configs

\* A service as the user creates it.
LEMMA NewServiceIs == NewService \in Services
  <1>1. 0 \in Versions
    BY SMT DEF Versions
  <1> QED BY SMT, <1>1 DEF NewService, Services, SvcSpecs

\* What the steps do to the service and to the copy a pass works on.
LEMMA SvcCases ==
    ASSUME Next
    PROVE  \/ UNCHANGED <<svc, msvc>>
           \/ UNCHANGED svc /\ msvc' = NewService
           \/ UNCHANGED msvc /\ svc' = NewService
           \/ UNCHANGED msvc /\ svc' = [svc EXCEPT !.exists = FALSE]
           \/ UNCHANGED msvc /\ EditService
           \/ svc' = [svc EXCEPT !.phase = "InProgress"] /\ msvc' = svc'
           \/ svc' = [svc EXCEPT !.status = msvc.spec] /\ msvc' = [msvc EXCEPT !.status = msvc.spec]
           \/ svc' = [svc EXCEPT !.status = msvc.spec, !.phase = "Completed"] /\ msvc' = NewService
           \/ svc' = [svc EXCEPT !.phase = "Error"] /\ msvc' = NewService
  <1>1. ASSUME NEW b \in Backups, BackupStep(b) \/ FailBackup(b) PROVE UNCHANGED <<svc, msvc>>
    <2>1. EndPass(b) => UNCHANGED msvc
      BY ProcsAre DEF EndPass
    <2> QED BY <1>1, <2>1 DEF BackupStep, SkipReconcile, StartBackup, GetConfigMap, ReconcileConfigMap,
       TriggerOnDemandBackup, UpdateBackupStatus, RemoveFinalizer, FailBackup, objects
  <1>2. ASSUME NEW c \in Procs, Reload(c) PROVE UNCHANGED <<svc, msvc>>
    BY <1>2 DEF Reload, WaitForConfigInPods, ApplyConfig, objects
  <1>3. ASSUME Kubernetes PROVE UNCHANGED <<svc, msvc>>
    BY <1>3 DEF Kubernetes, CollectGarbage, RollOut, PodStarts, ProcessStarts, ProcessFails,
       KubeletSyncs, objects, pass
  <1>4. ASSUME \/ GetServiceConfigMap \/ ReconcileServiceConfigMap \/ ReconcileDeployment
               \/ WaitForDeploymentToBeReady \/ UpdateBackupSvcConfig
        PROVE  UNCHANGED <<svc, msvc>>
    BY <1>4 DEF GetServiceConfigMap, ReconcileServiceConfigMap, ReconcileDeployment,
       WaitForDeploymentToBeReady, UpdateBackupSvcConfig, objects
  <1>5. ASSUME \E b \in Backups : EditBackup(b) \/ AddOnDemandBackup(b) \/ DeleteBackup(b)
        PROVE  UNCHANGED <<svc, msvc>>
    BY <1>5 DEF EditBackup, AddOnDemandBackup, DeleteBackup
  <1>6. ASSUME Crash PROVE UNCHANGED svc /\ msvc' = NewService
    BY <1>6 DEF Crash, objects
  <1>7. ASSUME StartService PROVE UNCHANGED <<svc, msvc>> \/ (svc' = [svc EXCEPT !.phase = "InProgress"] /\ msvc' = svc')
    BY <1>7 DEF StartService
  <1>8. ASSUME RecordBeforeWait
        PROVE  svc' = [svc EXCEPT !.status = msvc.spec] /\ msvc' = [msvc EXCEPT !.status = msvc.spec]
    BY <1>8 DEF RecordBeforeWait
  <1>9. EndPass(Svc) => msvc' = NewService
    BY DEF EndPass
  <1>10. ASSUME UpdateServiceStatus
         PROVE  svc' = [svc EXCEPT !.status = msvc.spec, !.phase = "Completed"] /\ msvc' = NewService
    BY <1>9, <1>10 DEF UpdateServiceStatus
  <1>11. ASSUME FailService
         PROVE  (UNCHANGED svc \/ svc' = [svc EXCEPT !.phase = "Error"]) /\ msvc' = NewService
    BY <1>9, <1>11 DEF FailService
  <1>12. ASSUME EditService \/ DeleteService \/ RecreateService PROVE UNCHANGED msvc
    BY <1>12 DEF EditService, DeleteService, RecreateService
  <1>13. (DeleteService => svc' = [svc EXCEPT !.exists = FALSE]) /\ (RecreateService => svc' = NewService)
    BY DEF DeleteService, RecreateService
  <1> QED BY <1>1, <1>2, <1>3, <1>4, <1>5, <1>6, <1>7, <1>8, <1>10, <1>11, <1>12, <1>13
             DEF Next, ServiceStep, User

\* The service keeps its type.
LEMMA SvcTypesKept ==
    ASSUME SvcTypes, [Next]_vars
    PROVE  SvcTypes'
  <1>0. svc \in Services /\ msvc \in Services /\ NewService \in Services
    BY NewServiceIs DEF SvcTypes
  <1>1. svc.spec \in SvcSpecs /\ msvc.spec \in SvcSpecs
    BY <1>0 DEF Services
  <1>2. [svc EXCEPT !.exists = FALSE] \in Services
    BY <1>0 DEF Services
  <1>3. ASSUME NEW p \in {"InProgress", "Completed", "Error"} PROVE [svc EXCEPT !.phase = p] \in Services
    BY <1>0 DEF Services
  <1>4. [svc EXCEPT !.status = msvc.spec] \in Services /\ [msvc EXCEPT !.status = msvc.spec] \in Services
    BY <1>0, <1>1 DEF Services
  <1>5. [svc EXCEPT !.status = msvc.spec, !.phase = "Completed"] \in Services
    BY <1>0, <1>1 DEF Services
  <1>6. ASSUME EditService PROVE svc' \in Services
    <2>1. PICK field \in {"static", "dyn", "tmpl"} : svc' = [svc EXCEPT !.spec[field] = 1 - @]
      BY <1>6 DEF EditService
    <2>2. \A v \in Versions : 1 - v \in Versions
      BY SMT DEF Versions
    <2>3. svc.spec[field] \in Versions
      BY SMT, <1>1 DEF SvcSpecs
    <2>4. [svc.spec EXCEPT ![field] = 1 - svc.spec[field]] \in SvcSpecs
      <3> DEFINE v == 1 - svc.spec[field]
      <3>1. v \in Versions
        BY <2>2, <2>3
      <3> HIDE DEF v
      <3>2. [svc.spec EXCEPT ![field] = v] \in SvcSpecs
        BY SMT, <1>1, <3>1 DEF SvcSpecs
      <3> QED BY <3>2 DEF v
    <2>5. svc' = [svc EXCEPT !.spec = [svc.spec EXCEPT ![field] = 1 - svc.spec[field]]]
      BY <1>0, <2>1 DEF Services
    <2> DEFINE s == [svc.spec EXCEPT ![field] = 1 - svc.spec[field]]
    <2>6. s \in SvcSpecs /\ svc' = [svc EXCEPT !.spec = s]
      BY <2>4, <2>5
    <2> HIDE DEF s
    <2> QED BY <1>0, <2>6 DEF Services
  <1>7. CASE UNCHANGED vars
    BY <1>0, <1>7 DEF vars, objects, pass, SvcTypes
  <1> QED BY <1>0, <1>2, <1>3, <1>4, <1>5, <1>6, <1>7, SvcCases DEF SvcTypes

\* The Deployment keeps its type.
LEMMA DeployTypeKept ==
    ASSUME DeployType, [Next]_vars
    PROVE  DeployType'
  <1>1. CASE UNCHANGED deploy
    BY <1>1 DEF DeployType
  <1>2. CASE ReconcileDeployment
    <2>1. \/ deploy' = [exists |-> TRUE, tmpl |-> msvc.spec.tmpl, observed |-> FALSE]
          \/ deploy' = [exists |-> deploy.exists, tmpl |-> msvc.spec.tmpl, observed |-> FALSE]
          \/ UNCHANGED deploy
      BY <1>2 DEF ReconcileDeployment, DeployType
    <2> QED BY <1>1, <2>1 DEF DeployType
  <1>3. CASE CollectGarbage
    BY <1>3 DEF CollectGarbage, DeployType
  <1>4. CASE RollOut
    <2>1. deploy' = [exists |-> deploy.exists, tmpl |-> deploy.tmpl, observed |-> TRUE]
      BY <1>4 DEF RollOut, DeployType
    <2> QED BY <2>1 DEF DeployType
  <1>5. ASSUME NEW b \in Backups, BackupStep(b) \/ FailBackup(b) PROVE UNCHANGED deploy
    BY <1>5 DEF BackupStep, SkipReconcile, StartBackup, GetConfigMap, ReconcileConfigMap,
       TriggerOnDemandBackup, UpdateBackupStatus, RemoveFinalizer, FailBackup, cluster
  <1>6. ASSUME ServiceStep \/ FailService, ~ReconcileDeployment PROVE UNCHANGED deploy
    BY <1>6 DEF ServiceStep, FailService, StartService, GetServiceConfigMap, ReconcileServiceConfigMap,
       RecordBeforeWait, WaitForDeploymentToBeReady, UpdateBackupSvcConfig, UpdateServiceStatus, cluster
  <1>7. ASSUME (\E c \in Procs : Reload(c)) \/ Crash \/ User PROVE UNCHANGED deploy
    BY <1>7 DEF Reload, WaitForConfigInPods, ApplyConfig, Crash, User, EditBackup, AddOnDemandBackup,
       DeleteBackup, EditService, DeleteService, RecreateService, cluster
  <1>8. ASSUME Kubernetes, ~CollectGarbage, ~RollOut PROVE UNCHANGED deploy
    BY <1>8 DEF Kubernetes, PodStarts, ProcessStarts, ProcessFails, KubeletSyncs
  <1>9. UNCHANGED vars => UNCHANGED deploy
    BY DEF vars, cluster
  <1> QED BY <1>1, <1>2, <1>3, <1>4, <1>5, <1>6, <1>7, <1>8, <1>9 DEF Next

\* A value that has the fields of a ConfigMap is one.
LEMMA ConfigIs ==
    ASSUME NEW c, IsConfig(c), c.static \in Versions, c.dyn \in Versions
    PROVE  c \in Configs /\ c # None
  <1>1. c \in Configs
    BY SMT DEF IsConfig, Configs
  <1> QED BY <1>1, NoneAssumption

\* What other passes do to the entry of a backup.
ConfigStep(b) ==
    \/ cm # None /\ cm' # None /\ cm'.entry[b] = cm.entry[b]
    \/ cm = None /\ (cm' # None => cm'.entry[b] = 0)
    \/ CollectGarbage

\* The ConfigMap keeps its type, and a pass over another backup or over the
\* service keeps the entry.
LEMMA ConfigSteps ==
    ASSUME IInv, SvcTypes, ConfigType, [Next]_vars
    PROVE  /\ ConfigType'
           /\ \A b \in Backups : ReconcileConfigMap(b) => cm' # None \/ cm' = cm
           /\ \A b \in Backups : ReconcileConfigMap(b) \/ ConfigStep(b)
           /\ cm # None /\ cm' = None => CollectGarbage
  <1>1. CASE UNCHANGED cm
    BY <1>1 DEF ConfigType, ConfigStep
  <1>2. ASSUME NEW x \in Backups, ReconcileConfigMap(x), WritesConfigMap(x)
        PROVE  /\ cm # None /\ cm' # None /\ cm' \in Configs
               /\ \A b \in Backups : b # x => cm'.entry[b] = cm.entry[b]
    <2>0. x \in Procs /\ x # Svc /\ Copy(x) /\ pc[x] = "write" /\ mbk \in [Backups -> Objects]
      BY <1>2, ProcsAre DEF IInv, WeakTypes, ReconcileConfigMap
    <2>1. UpdateConfigMap(x, Merged(x))
      BY <1>2 DEF ReconcileConfigMap
    <2>2. seen[x] = cm /\ cm' = Merged(x)
      BY <2>0, <2>1, UpdateIs
    <2>3. cm # None /\ IsConfig(seen[x])
      BY <2>0, <2>2 DEF Copy
    <2>4. /\ IsConfig(cm') /\ cm'.static = cm.static /\ cm'.dyn = cm.dyn
          /\ \A b \in Backups : b # x => cm'.entry[b] = cm.entry[b]
      BY <2>0, <2>2, <2>3, MergedKeeps
    <2>5. cm.static \in Versions /\ cm.dyn \in Versions
      BY <2>3 DEF ConfigType, Configs
    <2>6. cm' \in Configs /\ cm' # None
      BY <2>4, <2>5, ConfigIs
    <2> QED BY <2>3, <2>4, <2>6
  <1>3. ASSUME NEW x \in Backups, ReconcileConfigMap(x), ~WritesConfigMap(x) PROVE UNCHANGED cm
    BY <1>3 DEF ReconcileConfigMap
  <1>4. ASSUME ReconcileServiceConfigMap
        PROVE  /\ cm' # None /\ cm' \in Configs
               /\ \A b \in Backups : cm # None => cm'.entry[b] = cm.entry[b]
               /\ \A b \in Backups : cm = None => cm'.entry[b] = 0
    <2>0. Svc \in Procs /\ WeakTypes
      BY ProcsAre DEF IInv
    <2>1. pc[Svc] = "write" /\ UpdateConfigMap(Svc, ServiceMerged)
      BY <1>4 DEF ReconcileServiceConfigMap
    <2>2. seen[Svc] = cm /\ cm' = ServiceMerged
      BY <2>0, <2>1, UpdateIs
    <2>3. cm'.entry = IF cm = None THEN [b \in Backups |-> 0] ELSE cm.entry
      BY <2>2 DEF ServiceMerged
    <2>4. cm'.entry \in [Backups -> 0 .. 2]
      BY SMT, <2>0, <2>3 DEF WeakTypes, IsConfig
    <2>5. /\ cm' = [static |-> cm'.static, dyn |-> cm'.dyn, entry |-> cm'.entry]
          /\ cm'.static = msvc.spec.static /\ cm'.dyn = msvc.spec.dyn
      BY <2>2 DEF ServiceMerged
    <2>6. msvc.spec.static \in Versions /\ msvc.spec.dyn \in Versions
      BY DEF SvcTypes, Services, SvcSpecs
    <2>7. cm' \in Configs /\ cm' # None
      BY <2>4, <2>5, <2>6, ConfigIs DEF IsConfig
    <2> QED BY <2>3, <2>7
  <1>5. ASSUME CollectGarbage PROVE cm' = None
    BY <1>5, CollectGarbageInv
  <1>6. UNCHANGED vars => UNCHANGED cm
    BY DEF vars, cluster
  <1>7. \/ UNCHANGED cm \/ ReconcileServiceConfigMap \/ CollectGarbage
        \/ \E x \in Backups : ReconcileConfigMap(x)
    BY <1>6, NextCases
  <1>8. CASE ReconcileServiceConfigMap
    BY <1>4, <1>8 DEF ConfigType, ConfigStep
  <1>9. CASE CollectGarbage
    <2>1. \A b \in Backups : ~ReconcileConfigMap(b) \/ cm' = cm
      BY <1>2, <1>3, <1>5, <1>9
    <2> QED BY <1>5, <1>9, <2>1 DEF ConfigType, ConfigStep
  <1>10. ASSUME NEW x \in Backups, ReconcileConfigMap(x), ~UNCHANGED cm
         PROVE  /\ cm # None /\ cm' # None /\ cm' \in Configs
                /\ \A b \in Backups : b # x => cm'.entry[b] = cm.entry[b]
    BY <1>2, <1>3, <1>10
  <1>11. CASE ~UNCHANGED cm /\ \E x \in Backups : ReconcileConfigMap(x)
    <2>1. PICK x \in Backups : ReconcileConfigMap(x)
      BY <1>11
    <2> QED BY <1>10, <1>11, <2>1 DEF ConfigType, ConfigStep
  <1> QED BY <1>1, <1>7, <1>8, <1>9, <1>11

-----------------------------------------------------------------------------
(* The config of a backup reaches the process *)

\* A pass over b that has written the entry.
Wrote(b) == pc[b] \in {"wait", "apply", "trigger", "status"} /\ ~mbk[b].deleting

\* The entry that such a pass, or one about to write, expects in the ConfigMap.
Expected(b) == IF pc[b] = "write" THEN seen[b].entry[b] ELSE mbk[b].conf

\* Nobody else changes the entry, but the service may be deleted and created again.
Keeps(b) ==
    pc[b] = "write" \/ Wrote(b) =>
       /\ cm # None => cm.entry[b] \in {0, Expected(b)}
       /\ b \notin missed => cm # None /\ cm.entry[b] = Expected(b)

\* From the wait on the file has the entry, from the reload on the process.
Reached(b) ==
    Wrote(b) /\ b \notin missed =>
       /\ pc[b] # "wait" /\ pod.st # "none" => pod.file.entry[b] = mbk[b].conf
       /\ pc[b] \in {"trigger", "status"} /\ pod.st = "running" => pod.loaded.entry[b] = mbk[b].conf

\* The pass works on the status there is, and triggers nothing for a deleted backup.
Known(b) ==
    /\ pc[b] # "idle" => mbk[b].applied = bk[b].applied
    /\ pc[b] \in {"trigger", "status"} => ~mbk[b].deleting

\* An entry that is applied, as the status says, is in the file and in the
\* process, except between its write and its reload.
Stays(b) ==
    ~ReloadPending(b) /\ b \notin missed /\ cm # None /\ cm.entry[b] # 0 /\ cm.entry[b] = bk[b].applied =>
       /\ pod.st # "none" => pod.file.entry[b] = bk[b].applied
       /\ pod.st = "running" => pod.loaded.entry[b] = bk[b].applied

Local(b) == Keeps(b) /\ Reached(b) /\ Known(b) /\ Stays(b)

\* A pod has the ConfigMap as a volume.
PodHasMap == pod.st # "none" => cm # None

LoadInv ==
    /\ SvcTypes /\ DeployType /\ ConfigType /\ PodHasMap
    /\ \A b \in Backups : Local(b)

\* A step in which the pass over b, if there is one, stands still.
LEMMA Still ==
    ASSUME NEW b \in Backups, Local(b), PodHasMap, PodStep, ConfigStep(b),
           CollectGarbage => cm' = None /\ (b \notin missed' => pc[b] = "idle"),
           pc'[b] = pc[b], mbk'[b] = mbk[b], seen'[b] = seen[b], bk'[b].applied = bk[b].applied
    PROVE  Local(b)'
  <1>0. Keeps(b) /\ Reached(b) /\ Known(b) /\ Stays(b)
    BY DEF Local
  <1>1. /\ Wrote(b)' <=> Wrote(b)
        /\ Expected(b)' = Expected(b)
        /\ ReloadPending(b)' <=> ReloadPending(b)
    BY DEF Wrote, Expected, ReloadPending, specApplied
  <1>2. Known(b)'
    BY <1>0 DEF Known
  <1>3. ASSUME b \notin missed', b \in missed
        PROVE  /\ pod.st # "none" /\ pod'.st = "running" /\ pod'.file = pod.file
               /\ pod'.loaded.entry = pod.file.entry /\ cm # None
               /\ pod.file.entry[b] # 0 /\ pod.file.entry[b] = cm.entry[b]
    BY <1>3 DEF PodStep, Loaded, PodHasMap
  <1>4. CASE CollectGarbage
    <2>1. cm' = None /\ (b \notin missed' => pc'[b] = "idle")
      BY <1>4
    <2>2. pc'[b] = "idle" => ~Wrote(b)' /\ pc'[b] # "write"
      BY DEF Wrote
    <2> QED BY <1>2, <2>1, <2>2 DEF Local, Keeps, Reached, Stays
  <1>5. CASE cm # None /\ cm' # None /\ cm'.entry[b] = cm.entry[b]
    <2>1. Keeps(b)'
      BY <1>0, <1>1, <1>3, <1>5 DEF Keeps
    <2>2. ASSUME b \notin missed', pod'.st # "none", Wrote(b), pc[b] # "wait" \/ pod'.file = cm
          PROVE  pod'.file.entry[b] = mbk[b].conf
      <3>1. pc[b] # "write" /\ Expected(b) = mbk[b].conf
        BY <2>2 DEF Wrote, Expected
      <3>2. CASE b \in missed
        BY <1>0, <1>3, <2>2, <3>1, <3>2 DEF Keeps
      <3>3. CASE b \notin missed
        BY <1>0, <2>2, <3>1, <3>3 DEF Keeps, Reached, PodStep
      <3> QED BY <3>2, <3>3
    <2>3. ASSUME b \notin missed', pod'.st = "running", Wrote(b), pc[b] \in {"trigger", "status"}
          PROVE  pod'.loaded.entry[b] = mbk[b].conf
      <3>1. pc[b] # "write" /\ pc[b] # "wait" /\ Expected(b) = mbk[b].conf
        BY <2>3 DEF Wrote, Expected
      <3>2. CASE b \in missed
        BY <1>0, <1>3, <2>3, <3>1, <3>2 DEF Keeps
      <3>3. CASE b \notin missed
        BY <1>0, <2>3, <3>1, <3>3 DEF Reached, PodStep
      <3> QED BY <3>2, <3>3
    <2>4. Reached(b)'
      BY <1>1, <2>2, <2>3 DEF Reached
    <2>5. Stays(b)'
      <3> SUFFICES ASSUME ~ReloadPending(b), b \notin missed', cm.entry[b] # 0, cm.entry[b] = bk[b].applied
                   PROVE  /\ pod'.st # "none" => pod'.file.entry[b] = bk[b].applied
                          /\ pod'.st = "running" => pod'.loaded.entry[b] = bk[b].applied
        BY <1>1, <1>5 DEF Stays
      <3>1. CASE b \in missed
        BY <1>3, <3>1
      <3>2. CASE b \notin missed
        <4>1. /\ pod.st # "none" => pod.file.entry[b] = bk[b].applied
              /\ pod.st = "running" => pod.loaded.entry[b] = bk[b].applied
          BY <1>0, <1>5, <3>2 DEF Stays
        <4> QED BY <4>1 DEF PodStep
      <3> QED BY <3>1, <3>2
    <2> QED BY <1>2, <2>1, <2>4, <2>5 DEF Local
  <1>6. CASE cm = None /\ (cm' # None => cm'.entry[b] = 0)
    <2>1. b \notin missed' => b \notin missed
      BY <1>3, <1>6
    <2>2. b \notin missed => ~Wrote(b) /\ pc[b] # "write"
      BY <1>0, <1>6 DEF Keeps
    <2> QED BY <1>1, <1>2, <1>6, <2>1, <2>2 DEF Local, Keeps, Reached, Stays
  <1> QED BY <1>4, <1>5, <1>6 DEF ConfigStep

\* A pass over a backup puts its config in its entry.
LEMMA MergedSets ==
    ASSUME NEW b \in Backups, IsConfig(seen[b]), ~mbk[b].deleting
    PROVE  Merged(b).entry[b] = mbk[b].conf
  <1> DEFINE s == seen[b]
  <1>1. Merged(b) = [static |-> s.static, dyn |-> s.dyn, entry |-> [s.entry EXCEPT ![b] = mbk[b].conf]]
    BY SMT DEF Merged, IsConfig
  <1> QED BY SMT, <1>1 DEF IsConfig

\* The steps in which the pass over b moves, and the others.
LEMMA OwnSteps ==
    ASSUME IInv, [Next]_vars, NEW b \in Backups
    PROVE  \/ StartBackup(b) \/ GetConfigMap(b) \/ ReconcileConfigMap(b)
           \/ WaitForConfigInPods(b) \/ ApplyConfig(b) \/ TriggerOnDemandBackup(b)
           \/ UpdateBackupStatus(b) \/ RemoveFinalizer(b) \/ FailBackup(b) \/ Crash
           \/ /\ pc'[b] = pc[b] /\ mbk'[b] = mbk[b] /\ seen'[b] = seen[b]
              /\ bk'[b].applied = bk[b].applied
  <1> DEFINE Rest == /\ pc'[b] = pc[b] /\ mbk'[b] = mbk[b] /\ seen'[b] = seen[b]
                     /\ bk'[b].applied = bk[b].applied
  <1>0. /\ WeakTypes /\ Svc \notin Backups /\ b # Svc /\ b \in Procs /\ Svc \in Procs
        /\ \A x \in Backups : x \in Procs /\ x # Svc
    BY ProcsAre DEF IInv
  <1>1. ASSUME NEW c \in Procs, c # b, NEW step, Goto(c, step) PROVE pc'[b] = pc[b]
    BY <1>0, <1>1 DEF Goto, WeakTypes
  <1>2. ASSUME NEW c \in Procs, c # b, EndPass(c) PROVE pc'[b] = pc[b] /\ mbk'[b] = mbk[b] /\ seen'[b] = seen[b]
    BY <1>0, <1>2 DEF EndPass, Goto, WeakTypes
  <1>3. ASSUME NEW x \in Backups, x # b, BackupStep(x) \/ FailBackup(x) PROVE Rest
    <2>1. x \in Procs
      BY <1>0
    <2>2. CASE SkipReconcile(x)
      BY <2>2 DEF SkipReconcile, objects
    <2>3. CASE StartBackup(x)
      BY <1>0, <1>1, <1>3, <2>1, <2>3 DEF StartBackup, WeakTypes
    <2>4. CASE GetConfigMap(x)
      BY <1>0, <1>1, <1>3, <2>1, <2>4 DEF GetConfigMap, WeakTypes, objects
    <2>5. CASE ReconcileConfigMap(x)
      BY <1>1, <1>3, <2>1, <2>5 DEF ReconcileConfigMap, objects
    <2>6. CASE TriggerOnDemandBackup(x)
      BY <1>1, <1>3, <2>1, <2>6 DEF TriggerOnDemandBackup, objects
    <2>7. CASE UpdateBackupStatus(x)
      BY <1>0, <1>2, <1>3, <2>1, <2>7 DEF UpdateBackupStatus, WeakTypes
    <2>8. CASE RemoveFinalizer(x)
      BY <1>0, <1>2, <1>3, <2>1, <2>8 DEF RemoveFinalizer, WeakTypes
    <2>9. CASE FailBackup(x)
      BY <1>0, <1>2, <1>3, <2>1, <2>9 DEF FailBackup, MarkConfigNotApplied, WeakTypes
    <2> QED BY <1>3, <2>2, <2>3, <2>4, <2>5, <2>6, <2>7, <2>8, <2>9 DEF BackupStep
  <1>4. ASSUME SkipReconcile(b) PROVE Rest
    BY <1>4 DEF SkipReconcile, objects
  <1>5. ASSUME ServiceStep \/ FailService PROVE Rest
    <2>1. CASE StartService
      BY <1>0, <1>1, <2>1 DEF StartService
    <2>2. CASE GetServiceConfigMap
      BY <1>0, <1>1, <2>2 DEF GetServiceConfigMap, WeakTypes, objects
    <2>3. CASE ReconcileServiceConfigMap \/ ReconcileDeployment \/ WaitForDeploymentToBeReady
      BY <1>0, <1>1, <2>3 DEF ReconcileServiceConfigMap, ReconcileDeployment,
         WaitForDeploymentToBeReady, objects
    <2>4. CASE RecordBeforeWait
      BY <1>0, <1>1, <2>4 DEF RecordBeforeWait
    <2>5. CASE UpdateBackupSvcConfig
      BY <1>0, <1>1, <2>5 DEF UpdateBackupSvcConfig, objects
    <2>6. CASE UpdateServiceStatus \/ FailService
      BY <1>0, <1>2, <2>6 DEF UpdateServiceStatus, FailService
    <2> QED BY <1>5, <2>1, <2>2, <2>3, <2>4, <2>5, <2>6 DEF ServiceStep
  <1>6. ASSUME NEW c \in Procs, c # b, Reload(c) PROVE Rest
    <2>1. UNCHANGED <<mbk, seen, bk>>
      BY <1>6 DEF Reload, WaitForConfigInPods, ApplyConfig, objects
    <2>2. \E step : Goto(c, step)
      BY <1>6 DEF Reload, WaitForConfigInPods, ApplyConfig
    <2> QED BY <1>1, <1>6, <2>1, <2>2
  <1>7. ASSUME User PROVE Rest
    <2>1. UNCHANGED <<pc, mbk, seen>>
      BY <1>7 DEF User, EditBackup, AddOnDemandBackup, DeleteBackup, EditService, DeleteService,
         RecreateService
    <2>2. bk' = bk \/ \E x \in Backups : \/ bk' = [bk EXCEPT ![x].conf = 3 - @]
                                         \/ bk' = [bk EXCEPT ![x].want = 1]
                                         \/ bk' = [bk EXCEPT ![x].deleting = TRUE]
                                         \/ bk' = [bk EXCEPT ![x].exists = FALSE]
      BY <1>7 DEF User, EditBackup, AddOnDemandBackup, DeleteBackup, EditService, DeleteService,
         RecreateService
    <2>3. bk'[b].applied = bk[b].applied
      BY SMT, <1>0, <2>2 DEF WeakTypes, Objects
    <2> QED BY <2>1, <2>3
  <1>8. ASSUME Kubernetes PROVE Rest
    BY <1>8 DEF Kubernetes, CollectGarbage, RollOut, PodStarts, ProcessStarts, ProcessFails,
       KubeletSyncs, objects, pass
  <1>9. ASSUME UNCHANGED vars PROVE Rest
    BY <1>9 DEF vars, objects, pass
  <1> HIDE DEF Rest
  <1>10. ASSUME Next PROVE
           \/ StartBackup(b) \/ GetConfigMap(b) \/ ReconcileConfigMap(b)
           \/ WaitForConfigInPods(b) \/ ApplyConfig(b) \/ TriggerOnDemandBackup(b)
           \/ UpdateBackupStatus(b) \/ RemoveFinalizer(b) \/ FailBackup(b) \/ Crash \/ Rest
    BY <1>3, <1>4, <1>5, <1>6, <1>7, <1>8, <1>10 DEF Next, BackupStep, Reload
  <1> QED BY <1>9, <1>10 DEF Rest

\* Steps of the pass over b that leave the ConfigMap and the pod alone.
LEMMA QuietSteps ==
    ASSUME IInv, NEW b \in Backups, Local(b),
           \/ StartBackup(b) \/ GetConfigMap(b) \/ WaitForConfigInPods(b) \/ TriggerOnDemandBackup(b)
           \/ UpdateBackupStatus(b) \/ RemoveFinalizer(b) \/ FailBackup(b) \/ Crash
    PROVE  Local(b)'
  <1>0. b \in Procs /\ b # Svc /\ WeakTypes /\ Keeps(b) /\ Reached(b) /\ Known(b) /\ Stays(b)
    BY ProcsAre DEF IInv, Local
  <1>1. UNCHANGED <<cm, pod>> /\ (b \in missed => b \in missed')
    BY DEF StartBackup, GetConfigMap, WaitForConfigInPods, TriggerOnDemandBackup, UpdateBackupStatus,
       RemoveFinalizer, FailBackup, Crash, cluster, history
  \* Where no entry is expected, it is enough that what is applied stays so.
  <1>2. ASSUME pc'[b] \in {"idle", "read"}, pc'[b] # "idle" => mbk'[b].applied = bk'[b].applied,
               \/ ~ReloadPending(b) /\ bk'[b].applied = bk[b].applied
               \/ bk'[b].applied = 0 \/ b \in missed'
        PROVE  Local(b)'
    <2>1. ~Wrote(b)' /\ pc'[b] # "write" /\ pc'[b] \notin {"trigger", "status"}
      BY <1>2 DEF Wrote
    <2>2. Keeps(b)' /\ Reached(b)' /\ Known(b)'
      BY <1>2, <2>1 DEF Keeps, Reached, Known
    <2>3. Stays(b)'
      BY <1>0, <1>1, <1>2 DEF Stays
    <2> QED BY <2>2, <2>3 DEF Local
  <1>3. ASSUME EndPass(b) PROVE pc'[b] = "idle"
    BY <1>0, <1>3 DEF EndPass, Goto, WeakTypes
  <1>4. CASE StartBackup(b)
    <2>1. /\ pc[b] = "idle" /\ pc'[b] = "read" /\ mbk'[b] = bk'[b]
          /\ bk'[b].applied = bk[b].applied
      <3>1. pc[b] = "idle" /\ bk' = [bk EXCEPT ![b].finalizer = TRUE]
        BY <1>4 DEF StartBackup
      <3>2. pc'[b] = "read" /\ mbk'[b] = bk'[b]
        BY <1>0, <1>4 DEF StartBackup, Goto, WeakTypes
      <3>3. bk'[b].applied = bk[b].applied
        BY SMT, <1>0, <3>1 DEF WeakTypes, Objects
      <3> QED BY <3>1, <3>2, <3>3
    <2> QED BY <1>2, <2>1 DEF ReloadPending
  <1>5. CASE GetConfigMap(b)
    <2>1. /\ pc[b] = "read" /\ mbk' = mbk /\ bk' = bk /\ missed' = missed
          /\ \/ cm # None /\ pc'[b] = "write" /\ seen'[b] = cm
             \/ cm = None /\ pc'[b] = "wait" /\ mbk[b].deleting
      BY <1>0, <1>5 DEF GetConfigMap, Goto, WeakTypes, objects, history
    <2>2. ~Wrote(b)' /\ ~ReloadPending(b) /\ pc'[b] \notin {"trigger", "status"}
      BY <2>1 DEF Wrote, ReloadPending
    <2>3. Keeps(b)'
      BY <1>1, <2>1, <2>2 DEF Keeps, Expected
    <2>4. Reached(b)' /\ Known(b)'
      BY <1>0, <2>1, <2>2 DEF Reached, Known
    <2>5. Stays(b)'
      BY <1>0, <1>1, <2>1, <2>2 DEF Stays
    <2> QED BY <2>3, <2>4, <2>5 DEF Local
  <1>6. CASE WaitForConfigInPods(b)
    <2>1. /\ pc[b] = "wait" /\ pc'[b] = "apply" /\ mbk' = mbk /\ bk' = bk /\ missed' = missed
          /\ pod.file = cm /\ cm # None
      BY <1>0, <1>6 DEF WaitForConfigInPods, Goto, WeakTypes, objects, history
    <2>2. /\ Wrote(b)' <=> Wrote(b)
          /\ Expected(b)' = mbk[b].conf /\ Expected(b) = mbk[b].conf
          /\ ReloadPending(b)' <=> ReloadPending(b)
      BY <2>1 DEF Wrote, Expected, ReloadPending, specApplied
    <2>3. Keeps(b)'
      BY <1>0, <1>1, <2>1, <2>2 DEF Keeps
    <2>4. Reached(b)' /\ Known(b)'
      BY <1>0, <1>1, <2>1, <2>2 DEF Keeps, Reached, Known
    <2>5. Stays(b)'
      BY <1>0, <1>1, <2>1, <2>2 DEF Stays
    <2> QED BY <2>3, <2>4, <2>5 DEF Local
  <1>7. CASE TriggerOnDemandBackup(b)
    <2>1. pc[b] = "trigger" /\ pc'[b] = "status" /\ mbk' = mbk /\ bk' = bk /\ missed' = missed
      BY <1>0, <1>7 DEF TriggerOnDemandBackup, Goto, WeakTypes, objects, history
    <2>2. /\ Wrote(b)' <=> Wrote(b)
          /\ Expected(b)' = mbk[b].conf /\ Expected(b) = mbk[b].conf
          /\ ~ReloadPending(b)
      BY <2>1 DEF Wrote, Expected, ReloadPending
    <2>3. Keeps(b)'
      BY <1>0, <1>1, <2>1, <2>2 DEF Keeps
    <2>4. Reached(b)' /\ Known(b)'
      BY <1>0, <1>1, <2>1, <2>2 DEF Reached, Known
    <2>5. Stays(b)'
      BY <1>0, <1>1, <2>1, <2>2 DEF Stays
    <2> QED BY <2>3, <2>4, <2>5 DEF Local
  <1>8. CASE UpdateBackupStatus(b)
    <2>1. pc[b] = "status" /\ pc'[b] = "idle" /\ missed' = missed /\ bk'[b].applied = mbk[b].conf
      <3>1. pc[b] = "status" /\ EndPass(b) /\ missed' = missed
        BY <1>8 DEF UpdateBackupStatus, history
      <3>2. bk' = [bk EXCEPT ![b].applied = mbk[b].conf, ![b].done = mbk[b].want]
        BY <1>8 DEF UpdateBackupStatus
      <3>3. bk'[b].applied = mbk[b].conf
        BY SMT, <1>0, <3>2 DEF WeakTypes, Objects
      <3> QED BY <1>3, <3>1, <3>3
    <2>2. Wrote(b) /\ Expected(b) = mbk[b].conf
      BY <1>0, <2>1 DEF Wrote, Known, Expected
    <2>3. ~Wrote(b)' /\ pc'[b] # "write" /\ pc'[b] \notin {"trigger", "status"}
      BY <2>1 DEF Wrote
    <2>4. Keeps(b)' /\ Reached(b)' /\ Known(b)'
      BY <2>1, <2>3 DEF Keeps, Reached, Known
    <2>5. Stays(b)'
      BY <1>0, <1>1, <2>1, <2>2 DEF Stays, Reached
    <2> QED BY <2>4, <2>5 DEF Local
  <1>9. CASE RemoveFinalizer(b)
    <2>1. pc[b] = "unfinalize" /\ EndPass(b)
      BY <1>9 DEF RemoveFinalizer
    <2>2. bk' = [bk EXCEPT ![b].exists = FALSE, ![b].finalizer = FALSE]
      BY <1>9 DEF RemoveFinalizer
    <2>3. bk'[b].applied = bk[b].applied
      BY SMT, <1>0, <2>2 DEF WeakTypes, Objects
    <2>4. ~ReloadPending(b)
      BY <2>1 DEF ReloadPending
    <2> QED BY <1>2, <1>3, <2>1, <2>3, <2>4
  <1>10. CASE FailBackup(b)
    <2>1. EndPass(b) /\ (ReloadPending(b) => bk' = [bk EXCEPT ![b].applied = 0]) /\ (~ReloadPending(b) => bk' = bk)
      BY <1>10 DEF FailBackup, MarkConfigNotApplied
    <2>2. ReloadPending(b) => bk'[b].applied = 0
      BY SMT, <1>0, <2>1 DEF WeakTypes, Objects
    <2> QED BY <1>2, <1>3, <2>1, <2>2
  <1>11. CASE Crash
    <2>1. /\ pc'[b] = "idle" /\ bk' = bk /\ (ReloadPending(b) => b \in missed')
      BY <1>0, <1>11 DEF Crash, objects
    <2> QED BY <1>2, <2>1
  <1> QED BY <1>4, <1>5, <1>6, <1>7, <1>8, <1>9, <1>10, <1>11

\* The reload of a pass over b.
LEMMA ReloadStep ==
    ASSUME IInv, NEW b \in Backups, Local(b), PodHasMap, PodStep, ApplyConfig(b)
    PROVE  Local(b)'
  <1>0. /\ b \in Procs /\ b # Svc /\ WeakTypes /\ PodTypes /\ Entry(b)
        /\ Keeps(b) /\ Reached(b) /\ Known(b) /\ Stays(b)
    BY ProcsAre DEF IInv, Local
  <1>1. /\ pc[b] = "apply" /\ pod.st = "running" /\ missed' = missed \ Loaded(pod.file)
        /\ UNCHANGED <<bk, mbk, cm, seen>>
        /\ pc'[b] = IF mbk[b].deleting THEN "unfinalize" ELSE "trigger"
    BY <1>0 DEF ApplyConfig, Goto, WeakTypes, objects
  <1>2. pod'.st = "running" /\ pod'.file = pod.file /\ pod'.loaded.entry = pod.file.entry
    <2> DEFINE new == [pod.file EXCEPT !.static = pod.loaded.static]
    <2>1. pod' = [pod EXCEPT !.loaded = new]
      BY DEF ApplyConfig
    <2>2. new.entry = pod.file.entry
      BY SMT, <1>0, <1>1 DEF PodTypes, IsConfig
    <2> HIDE DEF new
    <2>3. pod' = [st |-> pod.st, tmpl |-> pod.tmpl, file |-> pod.file, loaded |-> new]
      BY <1>0, <2>1 DEF PodTypes
    <2>4. pod'.st = pod.st /\ pod'.file = pod.file /\ pod'.loaded = new
      BY <2>3
    <2> QED BY <1>1, <2>2, <2>4
  <1>3. cm # None
    BY <1>1 DEF PodHasMap
  <1>4. CASE mbk[b].deleting
    <2>1. ~Wrote(b)' /\ pc'[b] = "unfinalize" /\ pc'[b] \notin {"write", "trigger", "status", "idle"}
      BY <1>1, <1>4 DEF Wrote
    <2>2. cm.entry[b] = 0
      BY <1>0, <1>1, <1>3, <1>4 DEF Entry, OutOfConfigMap
    <2> QED BY <1>0, <1>1, <2>1, <2>2 DEF Local, Keeps, Reached, Known, Stays
  <1>5. CASE ~mbk[b].deleting
    <2>1. /\ pc'[b] = "trigger" /\ Wrote(b) /\ Wrote(b)'
          /\ Expected(b) = mbk[b].conf /\ Expected(b)' = mbk[b].conf
      BY <1>1, <1>5 DEF Wrote, Expected
    <2>2. ASSUME b \notin missed' PROVE cm.entry[b] = mbk[b].conf /\ pod.file.entry[b] = mbk[b].conf
      <3>1. CASE b \in missed
        <4>1. pod.file.entry[b] # 0 /\ pod.file.entry[b] = cm.entry[b]
          BY <1>1, <1>3, <2>2, <3>1 DEF Loaded
        <4> QED BY <1>0, <1>3, <2>1, <4>1 DEF Keeps
      <3>2. CASE b \notin missed
        <4>1. pc[b] # "wait" /\ pod.st # "none"
          BY <1>1
        <4> QED BY <1>0, <2>1, <3>2, <4>1 DEF Keeps, Reached
      <3> QED BY <3>1, <3>2
    <2>3. Keeps(b)'
      BY <1>0, <1>1, <1>3, <2>1, <2>2 DEF Keeps
    <2>4. Reached(b)'
      BY <1>1, <1>2, <2>2 DEF Reached
    <2>5. Known(b)'
      BY <1>0, <1>1, <1>5 DEF Known
    <2>6. Stays(b)'
      BY <1>1, <1>2, <2>2 DEF Stays
    <2> QED BY <2>3, <2>4, <2>5, <2>6 DEF Local
  <1> QED BY <1>4, <1>5

\* The write of a pass over b, or the finding that its entry is there already.
LEMMA WriteStep ==
    ASSUME IInv, NEW b \in Backups, Local(b), SvcTypes, ConfigType, ReconcileConfigMap(b)
    PROVE  Local(b)'
  <1>0. /\ b \in Procs /\ b # Svc /\ WeakTypes /\ Copy(b) /\ mbk[b] \in Objects
        /\ Keeps(b) /\ Reached(b) /\ Known(b) /\ Stays(b)
    BY ProcsAre DEF IInv, Local, WeakTypes
  <1>1. /\ pc[b] = "write" /\ UNCHANGED <<bk, mbk, pod, missed>>
        /\ pc'[b] = IF WritesConfigMap(b) \/ ~specApplied(b) THEN "wait" ELSE "trigger"
    BY <1>0 DEF ReconcileConfigMap, Goto, WeakTypes, objects, history
  <1>2. mbk[b].conf # 0
    BY SMT, <1>0 DEF Objects
  <1>3. seen[b] # None /\ IsConfig(seen[b]) /\ mbk \in [Backups -> Objects]
    BY <1>0, <1>1 DEF Copy, WeakTypes
  <1>4. Known(b)'
    BY <1>0, <1>1 DEF Known, WritesConfigMap
  <1>5. mbk[b].applied = bk[b].applied
    BY <1>0, <1>1 DEF Known
  <1>6. CASE WritesConfigMap(b)
    <2>1. seen[b] = cm /\ cm' = Merged(b)
      BY <1>0, <1>1, <1>6, UpdateIs DEF ReconcileConfigMap
    <2>2. cm' # None
      <3>1. IsConfig(cm') /\ cm'.static = cm.static /\ cm'.dyn = cm.dyn
        BY <1>3, <2>1, MergedKeeps
      <3>2. cm.static \in Versions /\ cm.dyn \in Versions
        BY <1>3, <2>1 DEF ConfigType, Configs
      <3> QED BY <3>1, <3>2, ConfigIs
    <2>3. pc'[b] = "wait"
      BY <1>1, <1>6
    <2>4. CASE mbk[b].deleting
      <3>1. cm'.entry[b] = 0
        BY <1>3, <2>1, <2>4, MergedKeeps
      <3>2. ~Wrote(b)' /\ pc'[b] # "write"
        BY <1>1, <2>3, <2>4 DEF Wrote
      <3> QED BY <1>4, <3>1, <3>2 DEF Local, Keeps, Reached, Stays
    <2>5. CASE ~mbk[b].deleting
      <3>1. cm'.entry[b] = mbk[b].conf
        BY <1>3, <2>1, <2>5, MergedSets
      <3>2. Expected(b)' = mbk[b].conf
        BY <1>1, <2>3 DEF Expected
      <3>3. Keeps(b)' /\ Reached(b)'
        BY <2>2, <2>3, <3>1, <3>2 DEF Keeps, Reached
      <3>4. ReloadPending(b)' \/ mbk[b].conf # bk[b].applied
        BY <1>1, <1>5, <2>3, <2>5 DEF ReloadPending, specApplied
      <3>5. Stays(b)'
        BY <1>1, <3>1, <3>4 DEF Stays
      <3> QED BY <1>4, <3>3, <3>5 DEF Local
    <2> QED BY <2>4, <2>5
  <1>7. CASE ~WritesConfigMap(b)
    <2>1. UNCHANGED cm /\ ~mbk[b].deleting /\ Merged(b) = seen[b]
      BY <1>7 DEF ReconcileConfigMap, WritesConfigMap
    <2>2. seen[b].entry[b] = mbk[b].conf
      BY <1>3, <2>1, MergedSets
    <2>3. Expected(b) = mbk[b].conf /\ Expected(b)' = mbk[b].conf
      BY <1>1, <2>2 DEF Expected
    <2>4. Keeps(b)'
      BY <1>0, <1>1, <2>1, <2>3 DEF Keeps
    <2>5. b \notin missed => cm # None /\ cm.entry[b] = mbk[b].conf
      BY <1>0, <1>1, <2>3 DEF Keeps
    <2>6. ~ReloadPending(b)
      BY <1>1 DEF ReloadPending
    <2>7. CASE specApplied(b)
      <3>1. pc'[b] = "trigger" /\ mbk[b].conf = bk[b].applied
        BY <1>1, <1>5, <1>7, <2>7 DEF specApplied
      <3>2. Reached(b)'
        BY <1>0, <1>1, <1>2, <2>5, <2>6, <3>1 DEF Reached, Stays
      <3>3. Stays(b)'
        BY <1>0, <1>1, <2>1, <2>6 DEF Stays
      <3> QED BY <1>4, <2>4, <3>2, <3>3 DEF Local
    <2>8. CASE ~specApplied(b)
      <3>1. pc'[b] = "wait" /\ mbk[b].conf # bk[b].applied
        BY <1>1, <1>5, <2>8 DEF specApplied
      <3>2. Reached(b)'
        BY <3>1 DEF Reached
      <3>3. Stays(b)'
        BY <1>1, <2>1, <2>5, <3>1 DEF Stays
      <3> QED BY <1>4, <2>4, <3>2, <3>3 DEF Local
    <2> QED BY <2>7, <2>8
  <1> QED BY <1>6, <1>7

\* Every step keeps what the passes over backups rely on.
LEMMA LoadInvKept ==
    ASSUME IInv, LoadInv, [Next]_vars
    PROVE  LoadInv'
  <1>0. SvcTypes /\ DeployType /\ ConfigType /\ PodHasMap /\ PodStep
    BY PodSteps DEF LoadInv
  <1>1. SvcTypes' /\ DeployType' /\ ConfigType'
    BY <1>0, SvcTypesKept, DeployTypeKept, ConfigSteps
  <1>2. PodHasMap'
    <2>1. CollectGarbage => pod'.st = "none"
      BY NoPodIs DEF CollectGarbage
    <2>2. pod'.st # "none" => cm # None
      BY <1>0 DEF PodHasMap, PodStep
    <2>3. cm # None /\ cm' = None => CollectGarbage
      BY <1>0, ConfigSteps
    <2> QED BY <2>1, <2>2, <2>3 DEF PodHasMap
  <1>3. ASSUME NEW b \in Backups PROVE Local(b)'
    <2>0. Local(b)
      BY DEF LoadInv
    <2>1. CASE \/ StartBackup(b) \/ GetConfigMap(b) \/ WaitForConfigInPods(b) \/ TriggerOnDemandBackup(b)
               \/ UpdateBackupStatus(b) \/ RemoveFinalizer(b) \/ FailBackup(b) \/ Crash
      BY <2>0, <2>1, QuietSteps
    <2>2. CASE ReconcileConfigMap(b)
      BY <1>0, <2>0, <2>2, WriteStep
    <2>3. CASE ApplyConfig(b)
      BY <1>0, <2>0, <2>3, ReloadStep
    <2>4. CASE /\ pc'[b] = pc[b] /\ mbk'[b] = mbk[b] /\ seen'[b] = seen[b]
               /\ bk'[b].applied = bk[b].applied /\ ~ReconcileConfigMap(b)
      <3>1. ConfigStep(b)
        BY <1>0, <2>4, ConfigSteps
      <3>2. CollectGarbage => cm' = None /\ (b \notin missed' => pc[b] = "idle")
        BY DEF CollectGarbage
      <3> QED BY <1>0, <2>0, <2>4, <3>1, <3>2, Still
    <2> QED BY <2>1, <2>2, <2>3, <2>4, OwnSteps
  <1> QED BY <1>1, <1>2, <1>3 DEF LoadInv

\* Before the first pass nothing is written.
LEMMA LoadInvInit == Init => LoadInv
  <1> SUFFICES ASSUME Init PROVE LoadInv
    OBVIOUS
  <1>0. /\ svc = NewService /\ msvc = NewService /\ cm = None /\ pod = NoPod
        /\ pc = [c \in Procs |-> "idle"]
    BY DEF Init
  <1>1. SvcTypes /\ ConfigType /\ PodHasMap
    BY <1>0, NewServiceIs, NoPodIs DEF SvcTypes, ConfigType, PodHasMap
  <1>3. DeployType
    BY DEF Init, DeployType
  <1>2. ASSUME NEW b \in Backups PROVE Local(b)
    <2>1. pc[b] = "idle" /\ pc[b] \notin {"write", "wait", "apply", "trigger", "status"}
      BY <1>0, ProcsAre
    <2> QED BY <1>0, <2>1 DEF Local, Keeps, Reached, Known, Stays, Wrote
  <1> QED BY <1>1, <1>2, <1>3 DEF LoadInv

\* For any number of backups and whatever fails: a pass over a backup that
\* succeeds leaves the process with the config of that backup, unless its
\* reload was missed.  A pass that finds the ConfigMap and the status as they
\* should be sends no reload and may rely on the process all the same.
THEOREM AppliedLoaded == Spec => AppliedIsLoaded
  <1> DEFINE Step == \A b \in Backups :
                pc[b] = "status" /\ pc'[b] = "idle" /\ bk'[b].applied = mbk[b].conf
                /\ pod.st = "running" /\ b \notin missed
                => pod.loaded.entry[b] = mbk[b].conf
  <1>1. LoadInv => Step
    BY DEF LoadInv, Local, Known, Reached, Wrote
  <1>2. Init => IInv /\ LoadInv
    BY InitInv, LoadInvInit
  <1>3. IInv /\ LoadInv /\ [Next]_vars => IInv' /\ LoadInv'
    BY NextInv, LoadInvKept
  <1>4. LoadInv => [Step]_vars
    BY <1>1
  <1> QED BY <1>2, <1>3, <1>4, PTL DEF Spec, AppliedIsLoaded

-----------------------------------------------------------------------------
(* The config of the service reaches the process *)

\* A pass over the service that has written the ConfigMap.
WroteService == pc[Svc] \notin {"idle", "read", "write"}

\* A pass that waits for a new pod, or has it, after the rollout began.
Begun == pc[Svc] \in {"rolled", "ready", "started"} /\ Svc \notin missed /\ deploy.observed

\* What such a pass has written stays in the ConfigMap, as long as there is one.
\* The file has it after the wait, and so has the file of a new pod.
SvcLoadInv ==
    /\ WroteService /\ cm # None => HasConfig(cm, msvc.spec)
    /\ pc[Svc] \in {"apply", "reloaded"} \/ Begun => (pod.st # "none" => HasConfig(pod.file, msvc.spec))
    /\ pc[Svc] = "reloaded" => (pod.st = "running" => pod.loaded.dyn = msvc.spec.dyn)
    /\ Begun => (pod.st = "running" => HasConfig(pod.loaded, msvc.spec))
    /\ pc[Svc] = "started" => deploy.observed \/ cm = None

\* Only a pass over the service writes the service part.
LEMMA ServicePart ==
    ASSUME IInv, [Next]_vars, ~ReconcileServiceConfigMap
    PROVE  cm' # None => cm # None /\ cm'.static = cm.static /\ cm'.dyn = cm.dyn
  <1>1. ASSUME NEW x \in Backups, ReconcileConfigMap(x), cm' # None, cm' # cm
        PROVE  cm # None /\ cm'.static = cm.static /\ cm'.dyn = cm.dyn
    <2>0. x \in Procs /\ x # Svc /\ Copy(x) /\ pc[x] = "write"
      BY <1>1, ProcsAre DEF IInv, ReconcileConfigMap
    <2>1. UpdateConfigMap(x, Merged(x))
      BY <1>1 DEF ReconcileConfigMap
    <2>2. seen[x] = cm
      BY <2>0, <2>1, UpdateIs
    <2>3. cm # None
      BY <2>0, <2>2 DEF Copy
    <2> QED BY <1>1, <2>3, ReconcileConfigMapInv
  <1>2. CollectGarbage => cm' = None
    BY CollectGarbageInv
  <1>3. UNCHANGED vars => UNCHANGED cm
    BY DEF vars, cluster
  <1>4. \/ UNCHANGED cm \/ CollectGarbage
        \/ \E x \in Backups : ReconcileConfigMap(x)
    BY <1>3, NextCases
  <1> QED BY <1>1, <1>2, <1>4

\* The steps in which the pass over the service moves, and the others.
LEMMA ServiceSteps ==
    ASSUME IInv, [Next]_vars
    PROVE  \/ ServiceStep \/ FailService \/ Reload(Svc) \/ Crash
           \/ /\ pc'[Svc] = pc[Svc] /\ msvc' = msvc
              /\ deploy' = deploy \/ CollectGarbage \/ RollOut
              /\ Svc \in missed => Svc \in missed' \/ RollOut
  <1> DEFINE Rest == /\ pc'[Svc] = pc[Svc] /\ msvc' = msvc
                     /\ deploy' = deploy \/ CollectGarbage \/ RollOut
                     /\ Svc \in missed => Svc \in missed' \/ RollOut
  <1>0. /\ WeakTypes /\ Svc \notin Backups /\ Svc \in Procs /\ \A x \in Backups : x \in Procs /\ x # Svc
    BY ProcsAre DEF IInv
  <1>1. ASSUME NEW c \in Procs, c # Svc, NEW step, Goto(c, step) PROVE pc'[Svc] = pc[Svc]
    BY <1>0, <1>1 DEF Goto, WeakTypes
  <1>2. ASSUME NEW c \in Procs, c # Svc, EndPass(c) PROVE pc'[Svc] = pc[Svc] /\ msvc' = msvc
    BY <1>0, <1>2 DEF EndPass, Goto, WeakTypes
  <1>3. ASSUME NEW x \in Backups, BackupStep(x) \/ FailBackup(x) PROVE Rest
    <2>1. x \in Procs /\ x # Svc
      BY <1>0
    <2>2. CASE SkipReconcile(x)
      BY <2>2 DEF SkipReconcile, cluster
    <2>3. CASE StartBackup(x)
      BY <1>1, <2>1, <2>3 DEF StartBackup, cluster
    <2>4. CASE GetConfigMap(x) \/ TriggerOnDemandBackup(x)
      BY <1>1, <2>1, <2>4 DEF GetConfigMap, TriggerOnDemandBackup, cluster, history
    <2>5. CASE ReconcileConfigMap(x)
      BY <1>1, <2>1, <2>5 DEF ReconcileConfigMap, history
    <2>6. CASE UpdateBackupStatus(x) \/ RemoveFinalizer(x) \/ FailBackup(x)
      BY <1>2, <2>1, <2>6 DEF UpdateBackupStatus, RemoveFinalizer, FailBackup, cluster, history
    <2> QED BY <1>3, <2>2, <2>3, <2>4, <2>5, <2>6 DEF BackupStep
  <1>4. ASSUME NEW c \in Procs, c # Svc, Reload(c) PROVE Rest
    <2>1. msvc' = msvc /\ deploy' = deploy
      BY <1>4 DEF Reload, WaitForConfigInPods, ApplyConfig, cluster
    <2>2. \E step : Goto(c, step)
      BY <1>4 DEF Reload, WaitForConfigInPods, ApplyConfig
    <2>3. Svc \in missed => Svc \in missed'
      BY <1>0, <1>4 DEF Reload, WaitForConfigInPods, ApplyConfig, Loaded, history
    <2> QED BY <1>1, <1>4, <2>1, <2>2, <2>3
  <1>5. ASSUME User PROVE Rest
    BY <1>5 DEF User, EditBackup, AddOnDemandBackup, DeleteBackup, EditService, DeleteService,
         RecreateService, cluster, history
  <1>6. ASSUME Kubernetes PROVE Rest
    <2>1. pc' = pc /\ msvc' = msvc
      BY <1>6 DEF Kubernetes, CollectGarbage, RollOut, PodStarts, ProcessStarts, ProcessFails,
         KubeletSyncs, pass
    <2>2. deploy' = deploy \/ CollectGarbage \/ RollOut
      BY <1>6 DEF Kubernetes, PodStarts, ProcessStarts, ProcessFails, KubeletSyncs
    <2>3. Svc \in missed => Svc \in missed' \/ RollOut
      BY <1>0, <1>6 DEF Kubernetes, CollectGarbage, PodStarts, ProcessStarts, ProcessFails,
         KubeletSyncs, Loaded, history
    <2> QED BY <2>1, <2>2, <2>3
  <1>7. ASSUME UNCHANGED vars PROVE Rest
    BY <1>7 DEF vars, cluster, pass, history
  <1> HIDE DEF Rest
  <1>8. ASSUME Next PROVE ServiceStep \/ FailService \/ Reload(Svc) \/ Crash \/ Rest
    BY <1>3, <1>4, <1>5, <1>6, <1>8 DEF Next
  <1> QED BY <1>7, <1>8 DEF Rest

\* A step in which the pass over the service stands still.
LEMMA ServiceStill ==
    ASSUME IInv, SvcLoadInv, PodStep,
           cm' # None => cm # None /\ cm'.static = cm.static /\ cm'.dyn = cm.dyn,
           pc'[Svc] = pc[Svc], msvc' = msvc,
           deploy' = deploy \/ CollectGarbage \/ RollOut,
           Svc \in missed => Svc \in missed' \/ RollOut
    PROVE  SvcLoadInv'
  <1>1. WroteService' /\ cm' # None => HasConfig(cm', msvc.spec)
    BY DEF SvcLoadInv, WroteService, HasConfig
  <1>2. Begun' => Begun \/ pod'.st = "none"
    <2>1. CASE deploy' = deploy /\ ~RollOut
      BY <2>1 DEF Begun
    <2>2. CASE CollectGarbage
      <3>1. ~deploy'.observed
        BY <2>2 DEF CollectGarbage
      <3> QED BY <3>1 DEF Begun
    <2>3. CASE RollOut
      BY <2>3 DEF RollOut, Begun
    <2> QED BY <2>1, <2>2, <2>3
  <1>3. pc[Svc] \in {"apply", "reloaded"} \/ Begun => WroteService
    BY DEF WroteService, Begun
  <1>4. pc[Svc] \in {"apply", "reloaded"} \/ Begun => (pod'.st # "none" => HasConfig(pod'.file, msvc.spec))
    BY <1>3 DEF SvcLoadInv, PodStep, HasConfig
  <1>5. pc[Svc] = "reloaded" => (pod'.st = "running" => pod'.loaded.dyn = msvc.spec.dyn)
    BY DEF SvcLoadInv, PodStep, HasConfig
  <1>6. Begun => (pod'.st = "running" => HasConfig(pod'.loaded, msvc.spec))
    BY DEF SvcLoadInv, PodStep, HasConfig
  <1>7. pc[Svc] = "started" => deploy'.observed \/ cm' = None
    <2>1. CASE deploy' = deploy
      BY <2>1 DEF SvcLoadInv
    <2>2. CASE CollectGarbage
      BY <2>2 DEF CollectGarbage
    <2>3. CASE RollOut
      BY <2>3 DEF RollOut, SvcLoadInv
    <2> QED BY <2>1, <2>2, <2>3
  <1>8. pod'.st = "none" => pod'.st # "running"
    OBVIOUS
  <1> QED BY <1>1, <1>2, <1>4, <1>5, <1>6, <1>7, <1>8 DEF SvcLoadInv, HasConfig

\* A pass over the service that moves.
LEMMA ServiceMoves ==
    ASSUME IInv, SvcTypes, DeployType, PodHasMap, SvcLoadInv, PodStep,
           ServiceStep \/ FailService \/ Reload(Svc) \/ Crash
    PROVE  SvcLoadInv'
  <1>0. Svc \in Procs /\ WeakTypes /\ PodTypes /\ Svc \notin Backups
    BY ProcsAre DEF IInv
  <1>1. ASSUME pc'[Svc] \in {"idle", "read", "write"} PROVE SvcLoadInv'
    BY <1>1 DEF SvcLoadInv, WroteService, Begun
  <1>2. ASSUME UNCHANGED <<cm, pod>>, msvc'.spec = msvc.spec, WroteService,
               pc'[Svc] \in {"rolled", "ready", "started"} => Begun \/ ~Begun',
               pc'[Svc] \in {"apply", "reloaded"} => pc[Svc] \in {"apply", "reloaded"} \/ pod.file = cm,
               pc'[Svc] # "reloaded", pc'[Svc] = "started" => deploy'.observed
        PROVE  SvcLoadInv'
    <2>1. WroteService' /\ cm' # None => HasConfig(cm', msvc'.spec)
      BY <1>2 DEF SvcLoadInv, HasConfig
    <2>2. Begun' => Begun
      BY <1>2 DEF Begun
    <2>3. pod.st # "none" => cm # None
      BY DEF PodHasMap
    <2>4. pc'[Svc] \in {"apply", "reloaded"} \/ Begun' => (pod'.st # "none" => HasConfig(pod'.file, msvc'.spec))
      BY <1>2, <2>2, <2>3 DEF SvcLoadInv, HasConfig
    <2>5. Begun' => (pod'.st = "running" => HasConfig(pod'.loaded, msvc'.spec))
      BY <1>2, <2>2 DEF SvcLoadInv, HasConfig
    <2> QED BY <1>2, <2>1, <2>4, <2>5 DEF SvcLoadInv
  <1>3. CASE StartService
    <2>1. pc[Svc] = "idle" /\ (Goto(Svc, "read") \/ UNCHANGED pc)
      BY <1>3 DEF StartService
    <2>2. pc'[Svc] \in {"idle", "read", "write"}
      BY <1>0, <2>1 DEF Goto, WeakTypes
    <2> QED BY <1>1, <2>2
  <1>4. CASE GetServiceConfigMap \/ UpdateServiceStatus \/ FailService \/ Crash
    <2>1. pc' = [pc EXCEPT ![Svc] = "write"] \/ pc' = [pc EXCEPT ![Svc] = "idle"] \/ pc' = [c \in Procs |-> "idle"]
      BY <1>4 DEF GetServiceConfigMap, UpdateServiceStatus, FailService, Crash, EndPass, Goto
    <2>2. pc'[Svc] \in {"idle", "read", "write"}
      BY <1>0, <2>1 DEF WeakTypes
    <2> QED BY <1>1, <2>2
  <1>5. CASE ReconcileServiceConfigMap
    <2>1. /\ pc[Svc] = "write" /\ pc'[Svc] = "deploy" /\ msvc' = msvc
          /\ UpdateConfigMap(Svc, ServiceMerged)
      BY <1>0, <1>5 DEF ReconcileServiceConfigMap, Goto, WeakTypes
    <2>2. cm' = ServiceMerged
      BY <2>1 DEF UpdateConfigMap
    <2>3. HasConfig(cm', msvc'.spec)
      BY <2>1, <2>2 DEF ServiceMerged, HasConfig
    <2> QED BY <2>1, <2>3 DEF SvcLoadInv, Begun
  <1>6. CASE ReconcileDeployment
    <2>1. /\ pc[Svc] = "deploy" /\ UNCHANGED <<cm, pod>> /\ msvc' = msvc
          /\ \/ deploy' = [exists |-> TRUE, tmpl |-> msvc.spec.tmpl, observed |-> FALSE] /\ pc'[Svc] = "ready"
             \/ deploy' = [deploy EXCEPT !.tmpl = msvc.spec.tmpl, !.observed = FALSE] /\ pc'[Svc] = "rolled"
             \/ pc'[Svc] = "settled"
      BY <1>0, <1>6 DEF ReconcileDeployment, Goto, WeakTypes
    <2>2. pc'[Svc] \in {"rolled", "ready", "started"} => ~deploy'.observed
      <3>1. ASSUME deploy' = [exists |-> TRUE, tmpl |-> msvc.spec.tmpl, observed |-> FALSE]
            PROVE  ~deploy'.observed
        BY <3>1
      <3>2. ASSUME deploy' = [deploy EXCEPT !.tmpl = msvc.spec.tmpl, !.observed = FALSE]
            PROVE  ~deploy'.observed
        <4>1. deploy' = [exists |-> deploy.exists, tmpl |-> msvc.spec.tmpl, observed |-> FALSE]
          BY <3>2 DEF DeployType
        <4> QED BY <4>1
      <3> QED BY <2>1, <3>1, <3>2
    <2> QED BY <1>2, <2>1, <2>2 DEF WroteService, Begun
  <1>7. CASE RecordBeforeWait
    <2>1. /\ pc[Svc] = "rolled" /\ pc'[Svc] = "ready" /\ UNCHANGED <<cm, pod, deploy, missed>>
          /\ msvc' = [msvc EXCEPT !.status = msvc.spec]
      BY <1>0, <1>7 DEF RecordBeforeWait, Goto, WeakTypes, cluster, history
    <2>2. msvc'.spec = msvc.spec
      BY <2>1 DEF SvcTypes, Services
    <2> QED BY <1>2, <2>1, <2>2 DEF WroteService, Begun
  <1>8. CASE WaitForDeploymentToBeReady
    <2>1. /\ UNCHANGED <<cm, pod, deploy, missed, msvc>> /\ deploy.observed
          /\ \/ pc[Svc] = "ready" /\ pc'[Svc] = "started"
             \/ pc[Svc] = "settled" /\ pc'[Svc] = "config"
      BY <1>0, <1>8 DEF WaitForDeploymentToBeReady, Goto, WeakTypes, cluster, history
    <2> QED BY <1>2, <2>1 DEF WroteService, Begun
  <1>9. CASE UpdateBackupSvcConfig
    <2>1. /\ pc[Svc] = "config" /\ UNCHANGED <<cm, msvc>>
          /\ \/ UNCHANGED pod /\ pc'[Svc] \in {"status", "wait"}
             \/ pod' = NoPod /\ pc'[Svc] = "rolled"
      BY <1>0, <1>9 DEF UpdateBackupSvcConfig, Goto, WeakTypes
    <2>2. CASE UNCHANGED pod /\ pc'[Svc] \in {"status", "wait"}
      BY <1>2, <2>1, <2>2 DEF WroteService
    <2>3. CASE pod' = NoPod /\ pc'[Svc] = "rolled"
      <3>1. pod'.st = "none" /\ pod'.st # "running"
        BY <2>3, NoPodIs
      <3>2. cm # None => HasConfig(cm, msvc.spec)
        BY <2>1 DEF SvcLoadInv, WroteService
      <3> QED BY <2>1, <2>3, <3>1, <3>2 DEF SvcLoadInv, HasConfig
    <2> QED BY <2>1, <2>2, <2>3
  <1>10. CASE WaitForConfigInPods(Svc)
    <2>1. /\ pc[Svc] = "wait" /\ pc'[Svc] = "apply" /\ UNCHANGED <<cm, pod, msvc>> /\ pod.file = cm
      BY <1>0, <1>10 DEF WaitForConfigInPods, Goto, WeakTypes, cluster
    <2> QED BY <1>2, <2>1 DEF WroteService
  <1>11. CASE ApplyConfig(Svc)
    <2>1. /\ pc[Svc] = "apply" /\ pod.st = "running" /\ pc'[Svc] = "reloaded" /\ UNCHANGED <<cm, msvc>>
          /\ pod' = [pod EXCEPT !.loaded = [pod.file EXCEPT !.static = pod.loaded.static]]
      BY <1>0, <1>11 DEF ApplyConfig, Goto, WeakTypes
    <2> DEFINE new == [pod.file EXCEPT !.static = pod.loaded.static]
    <2>2. new.dyn = pod.file.dyn /\ pod' = [pod EXCEPT !.loaded = new]
      BY SMT, <1>0, <2>1 DEF PodTypes, IsConfig
    <2> HIDE DEF new
    <2>3. pod' = [st |-> pod.st, tmpl |-> pod.tmpl, file |-> pod.file, loaded |-> new]
      BY <1>0, <2>2 DEF PodTypes
    <2>4. pod'.file = pod.file /\ pod'.loaded = new
      BY <2>3
    <2>5. HasConfig(pod.file, msvc.spec) /\ (cm # None => HasConfig(cm, msvc.spec))
      BY <2>1 DEF SvcLoadInv, WroteService
    <2>6. new.dyn = msvc.spec.dyn
      BY <2>2, <2>5 DEF HasConfig
    <2> QED BY <2>1, <2>4, <2>5, <2>6 DEF SvcLoadInv, HasConfig, Begun
  <1> QED BY <1>3, <1>4, <1>5, <1>6, <1>7, <1>8, <1>9, <1>10, <1>11 DEF ServiceStep, Reload

\* Every step keeps what the passes over the service rely on.
LEMMA SvcLoadInvKept ==
    ASSUME IInv, LoadInv, SvcLoadInv, [Next]_vars
    PROVE  SvcLoadInv'
  <1>0. SvcTypes /\ DeployType /\ PodHasMap /\ PodStep
    BY PodSteps DEF LoadInv
  <1>1. CASE ServiceStep \/ FailService \/ Reload(Svc) \/ Crash
    BY <1>0, <1>1, ServiceMoves
  <1>2. CASE ~(ServiceStep \/ FailService \/ Reload(Svc) \/ Crash)
    <2>1. ~ReconcileServiceConfigMap
      BY <1>2 DEF ServiceStep
    <2>2. cm' # None => cm # None /\ cm'.static = cm.static /\ cm'.dyn = cm.dyn
      BY <2>1, ServicePart
    <2> QED BY <1>0, <1>2, <2>2, ServiceSteps, ServiceStill
  <1> QED BY <1>1, <1>2

\* Whatever the passes over backups write and reload meanwhile, and whatever
\* fails: a pass over the service that reloads it, or that starts a pod, ends
\* with a process that runs the config of that pass, unless the rollout kept
\* the old pod.
THEOREM CompletedLoaded == Spec => CompletedIsLoaded
  <1> DEFINE Step ==
        svc'.phase = "Completed" /\ svc.phase # "Completed" /\ pod.st = "running" =>
          /\ pc[Svc] = "reloaded" => pod.loaded.dyn = msvc.spec.dyn
          /\ pc[Svc] = "started" /\ Svc \notin missed => HasConfig(pod.loaded, msvc.spec)
  <1>1. LoadInv /\ SvcLoadInv => [Step]_vars
    BY DEF LoadInv, PodHasMap, SvcLoadInv, Begun
  <1>2. Init => SvcLoadInv
    <2> SUFFICES ASSUME Init PROVE SvcLoadInv
      OBVIOUS
    <2>1. pc[Svc] = "idle"
      BY ProcsAre DEF Init
    <2> QED BY <2>1 DEF SvcLoadInv, WroteService, Begun
  <1>3. Init => IInv /\ LoadInv /\ SvcLoadInv
    BY <1>2, InitInv, LoadInvInit
  <1>4. IInv /\ LoadInv /\ SvcLoadInv /\ [Next]_vars => IInv' /\ LoadInv' /\ SvcLoadInv'
    BY NextInv, LoadInvKept, SvcLoadInvKept
  <1> QED BY <1>1, <1>3, <1>4, PTL DEF Spec, CompletedIsLoaded
=============================================================================
