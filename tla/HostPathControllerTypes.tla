---------------------- MODULE HostPathControllerTypes -----------------------
(***************************************************************************)
(* Proofs about HostPathController, part 1: the inductive invariant IInv, that*)
(* it holds initially, and that a step of a call preserves the types.      *)
(***************************************************************************)
EXTENDS HostPathController, TLAPS

(* The steps of a CreateSnapshot call after its validation. *)
SnapshotSteps == {"init", "get", "source", "mkSnap", "mkData", "mkSource"}

(* h is between GetSnapshotById, which found nothing, and its answer. *)
Creating(h) ==
    \/ pc[h] \in {"source", "mkSnap", "mkData", "mkSource"}
    \/ pc[h] \in CopySteps /\ req[h].op = "CreateSnapshot"

(* Which call a step belongs to, and the arguments that call has there. *)
CallShape(h) ==
    /\ pc[h] = "validate" =>
         /\ req[h].op \in {"CreateVolume", "DeleteVolume", "CreateSnapshot"}
              => req[h].vol \in Volumes
         /\ req[h].op \in {"CreateSnapshot", "DeleteSnapshot"}
              => req[h].snap \in Snapshots
    /\ pc[h] \in {"stat", "mkdir", "undo", "undoing", "restore"} =>
         /\ req[h].op = "CreateVolume"
         /\ req[h].vol \in Volumes /\ req[h].pool \in Pools
    /\ pc[h] = "find" => req[h].op = "DeleteVolume" /\ req[h].vol \in Volumes
    /\ pc[h] \in {"remove", "removing"} =>
         /\ req[h].op = "DeleteVolume"
         /\ req[h].vol \in Volumes /\ req[h].pool \in Pools
    /\ pc[h] = "lock" =>
         /\ req[h].op # "DeleteVolume"
         /\ req[h].op = "CreateVolume" =>
              req[h].vol \in Volumes /\ req[h].pool \in Pools /\ req[h].snap \in Snapshots
         /\ req[h].op = "CreateSnapshot" =>
              req[h].vol \in Volumes /\ req[h].pool \in SnapshotPools
         /\ req[h].op \in {"CreateSnapshot", "DeleteSnapshot"}
              => req[h].snap \in Snapshots
    /\ pc[h] = "restore" => req[h].snap \in Snapshots
    /\ pc[h] \in SnapshotSteps =>
         /\ req[h].op = "CreateSnapshot" /\ req[h].vol \in Volumes
         /\ req[h].snap \in Snapshots /\ req[h].pool \in SnapshotPools
    /\ pc[h] \in CopySteps =>
         /\ req[h].op \in {"CreateVolume", "CreateSnapshot"}
         /\ req[h].vol \in Volumes /\ req[h].snap \in Snapshots
         /\ req[h].pool \in SnapshotPools
    /\ pc[h] = "next" => req[h].op = "DeleteSnapshot" /\ req[h].snap \in Snapshots
    /\ pc[h] = "rm" =>
         /\ req[h].op = "DeleteSnapshot"
         /\ req[h].snap \in Snapshots /\ req[h].pool \in SnapshotPools
    /\ pc[h] = "list" => req[h].op = "ListSnapshots"

(* What a CreateSnapshot call has built so far. *)
Progress(h) ==
    /\ pc[h] \in {"source", "mkSnap"} => ~snaps[S(h)].dir
    /\ pc[h] = "mkData" => snaps[S(h)].dir /\ snaps[S(h)].srcs = {}
    /\ pc[h] = "mkSource" =>
         snaps[S(h)].dir /\ snaps[S(h)].data /\ snaps[S(h)].srcs = {}
    /\ pc[h] \in CopySteps /\ req[h].op = "CreateSnapshot" =>
         snaps[S(h)].dir /\ snaps[S(h)].data /\ snaps[S(h)].srcs = {req[h].vol}
    /\ pc[h] = "copy" /\ req[h].op = "CreateSnapshot" =>
         need[S(h)] \subseteq todo[h] \cup Present(snaps[S(h)].files)

(* A snapshot directory no call is working on is complete or interrupted. *)
Settled ==
    \A x \in Pools \X Snapshots :
        /\ ~snaps[x].dir => ~snaps[x].data /\ snaps[x].srcs = {}
        /\ /\ snaps[x].dir /\ x \notin interrupted
           /\ \A h \in Handlers : x \notin HalfDone(h)
           => Complete(x)

(* Nobody was told of a snapshot that is being made or removed. *)
Unreported ==
    /\ \A x \in ready : snaps[x].dir
    /\ \A h \in Handlers :
         /\ Creating(h) => S(h) \notin ready
         /\ ~Idle(h) /\ req[h].op = "DeleteSnapshot"
              => \A x \in ready : x[2] # req[h].snap

(* The inductive invariant: besides the three properties it says what each
   call has built at each step, and who knows of it. *)
IInv ==
    /\ TypeOK
    /\ MutualExclusion
    /\ SingleSource
    /\ \A h \in Handlers : CallShape(h) /\ Progress(h)
    /\ Settled
    /\ Unreported
-----------------------------------------------------------------------------
(* The values directories and requests start from have their types. *)
LEMMA TypeFacts ==
    /\ Empty \in Content
    /\ NoVolume \in VolumeDir
    /\ NoSnapshot \in SnapshotDir
    /\ NoRequest \in Request
<1>1. Empty \in Content
  BY DEF Empty, Content
<1> QED
  BY <1>1 DEF NoVolume, NoSnapshot, NoRequest, VolumeDir, SnapshotDir, Request, Ops

(* A fresh plugin, with no calls and no snapshots, satisfies the invariant. *)
LEMMA InitEstablishes == Init => IInv
<1> SUFFICES ASSUME Init PROVE IInv
  OBVIOUS
<1>1. TypeOK
  BY TypeFacts DEF Init, TypeOK, FreeSteps
<1>2. MutualExclusion
  BY ConstantsAssumption DEF Init, MutualExclusion, LockedSteps, CopySteps
<1>3. SingleSource
  BY DEF Init, SingleSource, NoSnapshot
<1>4. ASSUME NEW h \in Handlers PROVE CallShape(h) /\ Progress(h)
  BY DEF Init, CallShape, Progress, SnapshotSteps, CopySteps
<1>5. Settled
  BY DEF Init, Settled, NoSnapshot
<1>6. Unreported
  BY DEF Init, Unreported, Creating, CopySteps
<1> QED
  BY <1>1, <1>2, <1>3, <1>4, <1>5, <1>6 DEF IInv


(* Every place a handler can be. *)
Steps == FreeSteps \cup LockedSteps \cup CopySteps

(* Writing one file keeps vols, and what a file holds, in its type (CopyFile
   of a restore, RemoveVolumeFile, PodWrite). *)
LEMMA VolumeUpdates ==
    ASSUME TypeOK, NEW x \in Pools \X Volumes, NEW f \in Files,
           NEW w \in Values \cup {NoFile}
    PROVE  /\ [vols EXCEPT ![x].files[f] = w] \in [Pools \X Volumes -> VolumeDir]
           /\ vols[x] \in VolumeDir
           /\ vols[x].files[f] \in Values \cup {NoFile}
<1>1. vols[x] \in VolumeDir /\ vols[x].files \in Content
  BY DEF TypeOK, VolumeDir
<1>2. [vols[x].files EXCEPT ![f] = w] \in Content /\ vols[x].files[f] \in Values \cup {NoFile}
  BY <1>1 DEF Content
<1>3. [vols[x] EXCEPT !.files[f] = w] \in VolumeDir
  BY <1>1, <1>2 DEF VolumeDir
<1>4. [vols EXCEPT ![x].files[f] = w] \in [Pools \X Volumes -> VolumeDir]
  BY <1>3 DEF TypeOK
<1> QED
  BY <1>1, <1>2, <1>4

(* So do os.MkdirAll and os.Remove of a volume directory. *)
LEMMA VolumeDirUpdates ==
    ASSUME TypeOK, NEW x \in Pools \X Volumes
    PROVE  /\ [vols EXCEPT ![x].dir = TRUE] \in [Pools \X Volumes -> VolumeDir]
           /\ [vols EXCEPT ![x] = NoVolume] \in [Pools \X Volumes -> VolumeDir]
<1>1. vols[x] \in VolumeDir
  BY DEF TypeOK
<1>2. [vols[x] EXCEPT !.dir = TRUE] \in VolumeDir
  BY <1>1, Zenon DEF VolumeDir
<1> QED
  BY <1>2, TypeFacts DEF TypeOK

(* FindVolume and NextProvider choose the pool a call works in. *)
LEMMA PoolUpdate ==
    ASSUME TypeOK, NEW h \in Handlers, NEW p \in Pools
    PROVE  [req EXCEPT ![h].pool = p] \in [Handlers -> Request]
<1>1. req[h] \in Request
  BY DEF TypeOK
<1>2. [req[h] EXCEPT !.pool = p] \in Request
  BY <1>1 DEF Request
<1> QED
  BY <1>2 DEF TypeOK

(* cp and os.RemoveAll, file by file, keep snaps in its type (reflinkCopy,
   Reflink.DeleteSnapshot). *)
LEMMA SnapshotUpdates ==
    ASSUME TypeOK, NEW x \in Pools \X Snapshots, NEW f \in Files,
           NEW w \in Values \cup {NoFile}
    PROVE  /\ [snaps EXCEPT ![x].files[f] = w] \in [Pools \X Snapshots -> SnapshotDir]
           /\ snaps[x].files[f] \in Values \cup {NoFile}
<1>1. snaps[x] \in SnapshotDir /\ snaps[x].files \in Content
  BY DEF TypeOK, SnapshotDir
<1>2. [snaps[x].files EXCEPT ![f] = w] \in Content /\ snaps[x].files[f] \in Values \cup {NoFile}
  BY <1>1 DEF Content
<1>3. [snaps[x] EXCEPT !.files[f] = w] \in SnapshotDir
  BY <1>1, <1>2 DEF SnapshotDir
<1>4. [snaps EXCEPT ![x].files[f] = w] \in [Pools \X Snapshots -> SnapshotDir]
  BY <1>3 DEF TypeOK
<1> QED
  BY <1>2, <1>4

(* The same for the directories of a snapshot (reflink.go:168-171). *)
LEMMA SnapshotDirUpdates ==
    ASSUME TypeOK, NEW x \in Pools \X Snapshots, NEW b \in BOOLEAN
    PROVE  /\ [snaps EXCEPT ![x].dir = TRUE] \in [Pools \X Snapshots -> SnapshotDir]
           /\ [snaps EXCEPT ![x].data = b] \in [Pools \X Snapshots -> SnapshotDir]
           /\ [snaps EXCEPT ![x] = NoSnapshot] \in [Pools \X Snapshots -> SnapshotDir]
<1>1. snaps[x] \in SnapshotDir
  BY DEF TypeOK
<1>2. /\ [snaps[x] EXCEPT !.dir = TRUE] \in SnapshotDir
      /\ [snaps[x] EXCEPT !.data = b] \in SnapshotDir
  BY <1>1, Zenon DEF SnapshotDir
<1> QED
  BY <1>2, TypeFacts DEF TypeOK

(* The same for the directory that names the source volume. *)
LEMMA SourceUpdates ==
    ASSUME TypeOK, NEW x \in Pools \X Snapshots, NEW v \in Volumes
    PROVE  /\ [snaps EXCEPT ![x].srcs = @ \cup {v}] \in [Pools \X Snapshots -> SnapshotDir]
           /\ [snaps EXCEPT ![x].srcs = @ \ {v}] \in [Pools \X Snapshots -> SnapshotDir]
<1>1. snaps[x] \in SnapshotDir
  BY DEF TypeOK
<1>2. /\ [snaps[x] EXCEPT !.srcs = @ \cup {v}] \in SnapshotDir
      /\ [snaps[x] EXCEPT !.srcs = @ \ {v}] \in SnapshotDir
  BY <1>1 DEF SnapshotDir
<1> QED
  BY <1>2 DEF TypeOK

(* Every return of a handler, with the deferred Unlock, keeps the types. *)
LEMMA ReturnTypes ==
    ASSUME TypeOK, NEW h \in Handlers, NEW o \in {"ok", "err"}, Return(h, o)
    PROVE  /\ pc' \in [Handlers -> Steps]
           /\ snapMutex' \in Handlers \cup {None}
           /\ req' \in [Handlers -> Request]
           /\ todo' \in [Handlers -> SUBSET Files]
           /\ left' \in [Handlers -> SUBSET SnapshotPools]
<1>1. pc' \in [Handlers -> Steps]
  BY DEF TypeOK, Return, Goto, Steps, FreeSteps
<1>2. snapMutex' \in Handlers \cup {None}
  BY DEF TypeOK, Return, Unlock
<1>3. req' \in [Handlers -> Request]
  BY TypeFacts DEF TypeOK, Return
<1>4. todo' \in [Handlers -> SUBSET Files] /\ left' \in [Handlers -> SUBSET SnapshotPools]
  BY DEF TypeOK, Return
<1> QED
  BY <1>1, <1>2, <1>3, <1>4

(* Where a call works is a directory of a configured pool. *)
LEMMA Arguments ==
    ASSUME NEW h \in Handlers, CallShape(h)
    PROVE  /\ pc[h] \in {"stat", "mkdir", "undo", "undoing", "remove", "removing"}
                        \cup CopySteps \cup SnapshotSteps
                => V(h) \in Pools \X Volumes /\ req[h].pool \in Pools /\ req[h].vol \in Volumes
           /\ pc[h] = "restore" => V(h) \in Pools \X Volumes
           /\ pc[h] \in {"rm"} \cup CopySteps \cup SnapshotSteps
                => /\ S(h) \in Pools \X Snapshots
                   /\ req[h].pool \in SnapshotPools /\ req[h].snap \in Snapshots
  BY ConstantsAssumption DEF CallShape, V, S, CopySteps, SnapshotSteps

(* So does a failure, also one that makes CreateVolume delete its volume. *)
LEMMA AbortTypes ==
    ASSUME TypeOK, NEW h \in Handlers, CallShape(h), Abort(h)
    PROVE  TypeOK'
<1>1. interrupted' \subseteq Pools \X Snapshots
  BY Arguments DEF TypeOK, Abort, HalfDone, CopySteps, SnapshotSteps
<1>2. UNCHANGED <<vols, snaps, repo, created, ready, need>>
  BY DEF Abort, fsVars
<1>3. CASE Return(h, "err")
  BY <1>1, <1>2, <1>3, ReturnTypes DEF TypeOK, Steps
<1>4. CASE Goto(h, "undo") /\ Unlock(h) /\ todo' = [todo EXCEPT ![h] = {}]
           /\ UNCHANGED <<req, left>>
  <2>1. pc' \in [Handlers -> Steps]
    BY <1>4 DEF TypeOK, Goto, Steps, FreeSteps
  <2>2. snapMutex' \in Handlers \cup {None} /\ todo' \in [Handlers -> SUBSET Files]
    BY <1>4 DEF TypeOK, Unlock
  <2> QED
    BY <1>1, <1>2, <1>4, <2>1, <2>2 DEF TypeOK, Steps
<1> QED
  BY <1>3, <1>4 DEF Abort

(* A step of the call that handler h runs. *)
HandlerStep(h) ==
    (\E r \in Requests : Invoke(h, r)) \/ Lock(h) \/ Step(h) \/ IoError(h)

(* Every step of every call keeps TypeOK. *)
LEMMA TypePreserved ==
    ASSUME IInv, NEW h \in Handlers, HandlerStep(h)
    PROVE  TypeOK'
<1>0. TypeOK /\ CallShape(h)
  BY DEF IInv
<1>a. SnapshotPools \subseteq Pools
  BY ConstantsAssumption
(* A step that goes on to s and changes nothing else in callVars. *)
<1>b. ASSUME NEW s \in Steps, Goto(h, s) PROVE pc' \in [Handlers -> Steps]
  BY <1>0, <1>b DEF TypeOK, Steps, Goto
<1>c. ASSUME NEW s \in Steps, Goto(h, s),
             UNCHANGED <<vols, snaps, repo, snapMutex, req, todo, left, created,
                         ready, need, interrupted>>
      PROVE  TypeOK'
  BY <1>0, <1>b, <1>c DEF TypeOK, Steps
(* A step that returns, and may report. *)
<1>d. ASSUME NEW o \in {"ok", "err"}, Return(h, o),
             created' \subseteq Pools \X Volumes, ready' \subseteq Pools \X Snapshots,
             UNCHANGED <<vols, snaps, repo, need, interrupted>>
      PROVE  TypeOK'
  BY <1>0, <1>d, ReturnTypes DEF TypeOK, Steps
<1>e. created \subseteq Pools \X Volumes /\ ready \subseteq Pools \X Snapshots
  BY <1>0 DEF TypeOK
<1>1. ASSUME NEW r \in Requests, Invoke(h, r) PROVE TypeOK'
  <2>1. pc' \in [Handlers -> Steps]
    BY <1>1, <1>b DEF Invoke, Steps, FreeSteps
  <2>2. req' \in [Handlers -> Request]
    BY <1>0, <1>1, RequestsAssumption DEF Invoke, TypeOK
  <2> QED
    BY <1>0, <1>1, <2>1, <2>2 DEF Invoke, TypeOK, Steps, fsVars
<1>2. CASE Lock(h)
  <2>1. pc' \in [Handlers -> Steps]
    BY <1>2, <1>b DEF Lock, Steps, LockedSteps
  <2>2. left' \in [Handlers -> SUBSET SnapshotPools]
    BY <1>0, <1>2 DEF Lock, TypeOK
  <2> QED
    BY <1>0, <1>2, <2>1, <2>2 DEF Lock, TypeOK, Steps, fsVars
<1>3. CASE Validate(h)
  BY <1>3, <1>c, <1>d, <1>e DEF Validate, Steps, FreeSteps, fsVars
<1>4. CASE StartCopy(h)
  <2>1. CASE Abort(h)
    BY <1>0, <2>1, AbortTypes
  <2>2. CASE ~Abort(h)
    <3>1. vols' \in [Pools \X Volumes -> VolumeDir]
      <4>1. V(h) \in Pools \X Volumes
        BY <1>0, <1>4, Arguments DEF StartCopy, CopySteps
      <4>2. CASE UNCHANGED vols
        BY <1>0, <4>2 DEF TypeOK
      <4>3. CASE vols' = [vols EXCEPT ![V(h)].dir = TRUE]
        BY <1>0, <4>1, <4>3, VolumeDirUpdates, Zenon
      <4> QED
        BY <1>4, <2>2, <4>2, <4>3 DEF StartCopy, fsVars
    <3>2. \A c : Present(c) \subseteq Files
      BY DEF Present
    <3>3. todo' \in [Handlers -> SUBSET Files]
      BY <1>0, <1>4, <2>2, <3>2 DEF StartCopy, TypeOK
    <3>4. need' \in [Pools \X Snapshots -> SUBSET Files]
      BY <1>0, <1>4, <2>2, <3>2 DEF StartCopy, TypeOK
    <3>5. pc' \in [Handlers -> Steps]
      BY <1>4, <1>b, <2>2 DEF StartCopy, Steps, CopySteps
    <3>6. UNCHANGED <<snaps, repo, snapMutex, req, left, created, ready, interrupted>>
      BY <1>4, <2>2 DEF StartCopy, fsVars
    <3> QED
      BY <1>0, <3>1, <3>3, <3>4, <3>5, <3>6 DEF TypeOK, Steps
  <2> QED
    BY <2>1, <2>2
<1>5. CASE CopyBroken(h) \/ IoError(h)
  BY <1>0, <1>5, AbortTypes DEF CopyBroken, IoError
<1>6. CASE FinishCopy(h)
  <2>1. V(h) \in Pools \X Volumes /\ S(h) \in Pools \X Snapshots
    BY <1>0, <1>6, Arguments DEF FinishCopy, CopySteps
  <2>2. created' \subseteq Pools \X Volumes /\ ready' \subseteq Pools \X Snapshots
    BY <1>6, <1>e, <2>1 DEF FinishCopy, ReportCreated, ReportReady
  <2> QED
    BY <1>6, <1>d, <2>2 DEF FinishCopy, fsVars
<1>7. ASSUME NEW f \in Files, CopyFile(h, f) PROVE TypeOK'
  <2>1. V(h) \in Pools \X Volumes /\ S(h) \in Pools \X Snapshots
    BY <1>0, <1>7, Arguments DEF CopyFile, CopySteps
  <2>2. /\ vols[V(h)].files[f] \in Values \cup {NoFile}
        /\ snaps[S(h)].files[f] \in Values \cup {NoFile}
    BY <1>0, <2>1, VolumeUpdates, SnapshotUpdates, Zenon
  <2>3. vols' \in [Pools \X Volumes -> VolumeDir]
    <3>1. CASE UNCHANGED vols
      BY <1>0, <3>1 DEF TypeOK
    <3>2. CASE vols' = [vols EXCEPT ![V(h)].files[f] = snaps[S(h)].files[f]]
      BY <1>0, <2>1, <2>2, <3>2, VolumeUpdates, Zenon
    <3> QED
      BY <1>7, <3>1, <3>2 DEF CopyFile
  <2>4. snaps' \in [Pools \X Snapshots -> SnapshotDir]
    <3>1. CASE UNCHANGED snaps
      BY <1>0, <3>1 DEF TypeOK
    <3>2. CASE snaps' = [snaps EXCEPT ![S(h)].files[f] = vols[V(h)].files[f]]
      BY <1>0, <2>1, <2>2, <3>2, SnapshotUpdates, Zenon
    <3> QED
      BY <1>7, <3>1, <3>2 DEF CopyFile
  <2>5. todo' \in [Handlers -> SUBSET Files]
    BY <1>0, <1>7 DEF CopyFile, TypeOK
  <2> QED
    BY <1>0, <1>7, <2>3, <2>4, <2>5 DEF CopyFile, TypeOK
<1>8. ASSUME NEW f \in Files, RemoveVolumeFile(h, f) PROVE TypeOK'
  <2>1. V(h) \in Pools \X Volumes
    BY <1>0, <1>8, Arguments DEF RemoveVolumeFile
  <2>2. vols' \in [Pools \X Volumes -> VolumeDir]
    BY <1>0, <1>8, <2>1, VolumeUpdates, Zenon DEF RemoveVolumeFile
  <2>3. todo' \in [Handlers -> SUBSET Files]
    BY <1>0, <1>8 DEF RemoveVolumeFile, TypeOK
  <2> QED
    BY <1>0, <1>8, <2>2, <2>3 DEF RemoveVolumeFile, TypeOK
<1>9. CASE StatVolume(h) \/ MakeVolume(h)
  <2>1. V(h) \in Pools \X Volumes
    BY <1>0, <1>9, Arguments DEF StatVolume, MakeVolume
  <2>2. vols' \in [Pools \X Volumes -> VolumeDir]
    <3>1. CASE UNCHANGED vols
      BY <1>0, <3>1 DEF TypeOK
    <3>2. CASE vols' = [vols EXCEPT ![V(h)].dir = TRUE]
      BY <1>0, <2>1, <3>2, VolumeDirUpdates, Zenon
    <3> QED
      BY <1>9, <3>1, <3>2 DEF StatVolume, MakeVolume, fsVars
  <2>3. CASE Return(h, "ok") /\ ReportCreated(h)
    <3>1. created' \subseteq Pools \X Volumes
      BY <1>e, <2>1, <2>3 DEF ReportCreated
    <3> QED
      BY <1>0, <1>9, <2>2, <2>3, <3>1, ReturnTypes
      DEF StatVolume, MakeVolume, TypeOK, Steps, fsVars
  <2>4. CASE /\ Goto(h, "lock") \/ Goto(h, "mkdir")
             /\ UNCHANGED <<snapMutex, req, todo, left, created>>
    <3>1. pc' \in [Handlers -> Steps]
      BY <1>b, <2>4 DEF Steps, FreeSteps
    <3> QED
      BY <1>0, <1>9, <2>2, <2>4, <3>1 DEF StatVolume, MakeVolume, TypeOK, Steps, fsVars
  <2> QED
    BY <1>9, <2>3, <2>4 DEF StatVolume, MakeVolume, VolumeExists
<1>10. CASE RestoreSnapshot(h)
  BY <1>0, <1>10, <1>c, AbortTypes DEF RestoreSnapshot, Steps, CopySteps, fsVars
<1>11. CASE FindVolume(h)
  <2>1. CASE Return(h, "ok")
    BY <1>11, <1>d, <1>e, <2>1 DEF FindVolume, fsVars
  <2>2. CASE \E p \in Pools : /\ req' = [req EXCEPT ![h].pool = p]
                              /\ Goto(h, "remove")
                              /\ UNCHANGED <<snapMutex, todo, left>>
    <3>1. req' \in [Handlers -> Request]
      BY <1>0, <2>2, PoolUpdate
    <3>2. pc' \in [Handlers -> Steps]
      BY <1>b, <2>2 DEF Steps, FreeSteps
    <3> QED
      BY <1>0, <1>11, <2>2, <3>1, <3>2 DEF FindVolume, TypeOK, Steps, fsVars
  <2> QED
    BY <1>11, <2>1, <2>2, Zenon DEF FindVolume
<1>12. CASE StartRemove(h)
  <2>1. pc' \in [Handlers -> Steps]
    BY <1>12, <1>b DEF StartRemove, Steps, FreeSteps
  <2>2. todo' \in [Handlers -> SUBSET Files]
    BY <1>0, <1>12 DEF StartRemove, TypeOK, Present
  <2> QED
    BY <1>0, <1>12, <2>1, <2>2 DEF StartRemove, TypeOK, Steps, fsVars
<1>13. CASE RemoveVolumeDir(h)
  <2>1. vols' \in [Pools \X Volumes -> VolumeDir]
    <3>1. V(h) \in Pools \X Volumes
      BY <1>0, <1>13, Arguments DEF RemoveVolumeDir
    <3>2. CASE UNCHANGED vols
      BY <1>0, <3>2 DEF TypeOK
    <3>3. CASE vols' = [vols EXCEPT ![V(h)] = NoVolume]
      BY <1>0, <3>1, <3>3, VolumeDirUpdates, Zenon
    <3> QED
      BY <1>13, <3>2, <3>3 DEF RemoveVolumeDir
  <2> QED
    BY <1>0, <1>13, <2>1, ReturnTypes DEF RemoveVolumeDir, TypeOK, Steps
<1>14. CASE InitRepo(h)
  <2>1. req[h].pool \in SnapshotPools
    BY <1>0, <1>14, Arguments DEF InitRepo, SnapshotSteps
  <2>2. pc' \in [Handlers -> Steps]
    BY <1>14, <1>b DEF InitRepo, Steps, LockedSteps
  <2> QED
    BY <1>0, <1>14, <2>1, <2>2 DEF InitRepo, TypeOK, Steps
<1>15. CASE GetSnapshot(h) \/ StatSource(h)
  <2>1. S(h) \in Pools \X Snapshots
    BY <1>0, <1>15, Arguments DEF GetSnapshot, StatSource, SnapshotSteps
  <2>2. CASE Return(h, "ok") /\ ReportReady({S(h)})
    BY <1>15, <1>d, <1>e, <2>1, <2>2 DEF GetSnapshot, StatSource, ReportReady, fsVars
  <2>3. CASE Return(h, "err") /\ UNCHANGED ready
    BY <1>15, <1>d, <1>e, <2>3 DEF GetSnapshot, StatSource, fsVars
  <2>4. CASE /\ Goto(h, "source") \/ Goto(h, "mkSnap")
             /\ UNCHANGED <<snapMutex, req, todo, left, ready>>
    BY <1>15, <1>c, <2>4 DEF GetSnapshot, StatSource, fsVars, Steps, LockedSteps
  <2> QED
    BY <1>15, <2>2, <2>3, <2>4 DEF GetSnapshot, StatSource
<1>16. CASE MakeSnapshotDir(h) \/ MakeDataDir(h) \/ MakeSourceDir(h)
  <2>1. S(h) \in Pools \X Snapshots /\ req[h].vol \in Volumes
    BY <1>0, <1>16, Arguments DEF MakeSnapshotDir, MakeDataDir, MakeSourceDir, SnapshotSteps
  <2>2. snaps' \in [Pools \X Snapshots -> SnapshotDir]
    <3>1. CASE snaps' = [snaps EXCEPT ![S(h)].dir = TRUE]
      BY <1>0, <2>1, <3>1, SnapshotDirUpdates, Zenon
    <3>2. CASE snaps' = [snaps EXCEPT ![S(h)].data = TRUE]
      BY <1>0, <2>1, <3>2, SnapshotDirUpdates, Zenon
    <3>3. CASE snaps' = [snaps EXCEPT ![S(h)].srcs = @ \cup {req[h].vol}]
      BY <1>0, <2>1, <3>3, SourceUpdates, Zenon
    <3> QED
      BY <1>16, <3>1, <3>2, <3>3 DEF MakeSnapshotDir, MakeDataDir, MakeSourceDir
  <2>3. pc' \in [Handlers -> Steps]
    BY <1>16, <1>b DEF MakeSnapshotDir, MakeDataDir, MakeSourceDir, Steps, LockedSteps, CopySteps
  <2> QED
    BY <1>0, <1>16, <2>2, <2>3 DEF MakeSnapshotDir, MakeDataDir, MakeSourceDir, TypeOK, Steps
<1>17. CASE NextProvider(h)
  <2>1. CASE Return(h, "ok")
    BY <1>17, <1>d, <1>e, <2>1 DEF NextProvider, fsVars
  <2>2. ASSUME NEW p \in left[h],
               left' = [left EXCEPT ![h] = @ \ {p}],
               req' = [req EXCEPT ![h].pool = p],
               Goto(h, IF snaps[<<p, req[h].snap>>].dir THEN "rm" ELSE "next"),
               UNCHANGED <<snapMutex, todo>>
        PROVE  TypeOK'
    <3>1. p \in Pools
      BY <1>0, <1>a DEF TypeOK
    <3>2. req' \in [Handlers -> Request]
      BY <1>0, <2>2, <3>1, PoolUpdate
    <3>3. left' \in [Handlers -> SUBSET SnapshotPools]
      BY <1>0, <2>2 DEF TypeOK
    <3>4. pc' \in [Handlers -> Steps]
      BY <1>b, <2>2 DEF Steps, LockedSteps
    <3> QED
      BY <1>0, <1>17, <2>2, <3>2, <3>3, <3>4 DEF NextProvider, TypeOK, Steps, fsVars
  <2> QED
    BY <1>17, <2>1, <2>2, Zenon DEF NextProvider
<1>18. CASE RemoveSnapshotEntry(h)
  <2>1. S(h) \in Pools \X Snapshots
    BY <1>0, <1>18, Arguments DEF RemoveSnapshotEntry
  <2>2. snaps[S(h)].srcs \subseteq Volumes
    BY <1>0, <2>1 DEF TypeOK, SnapshotDir
  <2>3. snaps' \in [Pools \X Snapshots -> SnapshotDir]
    <3>1. CASE \E f \in Files : snaps' = [snaps EXCEPT ![S(h)].files[f] = NoFile]
      <4> PICK f \in Files : snaps' = [snaps EXCEPT ![S(h)].files[f] = NoFile]
        BY <3>1, Zenon
      <4>1. NoFile \in Values \cup {NoFile}
        OBVIOUS
      <4> QED
        BY <1>0, <2>1, <4>1, SnapshotUpdates, Zenon
    <3>2. CASE snaps' = [snaps EXCEPT ![S(h)].data = FALSE]
      BY <1>0, <2>1, <3>2, SnapshotDirUpdates, Zenon
    <3>3. CASE \E v \in Volumes : snaps' = [snaps EXCEPT ![S(h)].srcs = @ \ {v}]
      <4> PICK v \in Volumes : snaps' = [snaps EXCEPT ![S(h)].srcs = @ \ {v}]
        BY <3>3, Zenon
      <4> QED
        BY <1>0, <2>1, SourceUpdates, Zenon
    <3> QED
      BY <1>18, <2>2, <3>1, <3>2, <3>3 DEF RemoveSnapshotEntry, Present
  <2> QED
    BY <1>0, <1>18, <2>3 DEF RemoveSnapshotEntry, TypeOK, callVars
<1>19. CASE RemoveSnapshotDir(h)
  <2>1. S(h) \in Pools \X Snapshots
    BY <1>0, <1>19, Arguments DEF RemoveSnapshotDir
  <2>2. snaps' \in [Pools \X Snapshots -> SnapshotDir]
    BY <1>0, <1>19, <2>1, TypeFacts DEF RemoveSnapshotDir, TypeOK
  <2>3. need' \in [Pools \X Snapshots -> SUBSET Files]
    BY <1>0, <1>19, <2>1 DEF RemoveSnapshotDir, TypeOK
  <2>4. pc' \in [Handlers -> Steps]
    BY <1>19, <1>b DEF RemoveSnapshotDir, Steps, LockedSteps
  <2> QED
    BY <1>0, <1>19, <2>2, <2>3, <2>4 DEF RemoveSnapshotDir, TypeOK, Steps
<1>20. CASE ListSnapshots(h)
  <2>1. Listed(req[h]) \subseteq Pools \X Snapshots
    BY <1>a DEF Listed, Inspected
  <2>2. ready' \subseteq Pools \X Snapshots
    BY <1>20, <1>e, <2>1 DEF ListSnapshots, ReportReady
  <2> QED
    BY <1>20, <1>d, <1>e, <2>2 DEF ListSnapshots, fsVars
<1>21. CASE Step(h)
  BY <1>3, <1>4, <1>5, <1>6, <1>7, <1>8, <1>9, <1>10, <1>11, <1>12, <1>13, <1>14, <1>15,
     <1>16, <1>17, <1>18, <1>19, <1>20, <1>21, Zenon DEF Step
<1> QED
  BY <1>1, <1>2, <1>5, <1>21 DEF HandlerStep
=============================================================================
