---------------------- MODULE HostPathControllerProofs ----------------------
(***************************************************************************)
(* Proofs about HostPathController, part 4: the theorems, for any pools,   *)
(* volumes, snapshots, files, handlers and requests.                       *)
(***************************************************************************)
EXTENDS HostPathControllerSnapshots

(* A call keeps its arguments until it returns. *)
LEMMA CallKept ==
    ASSUME TypeOK, NEW h \in Handlers, Lock(h) \/ Step(h) \/ IoError(h)
    PROVE  /\ ~Idle(h)
           /\ \/ Idle(h)'
              \/ req'[h].op = req[h].op /\ req'[h].snap = req[h].snap
<1>a. ASSUME NEW o \in {"ok", "err"}, Return(h, o) PROVE pc'[h] \in {"ok", "err"}
  BY <1>a, Returned DEF TypeOK
<1>b. ASSUME Abort(h) PROVE pc'[h] = "err" \/ req' = req
  BY <1>b, AbortFrame
<1>c. ASSUME NEW p, req' = [req EXCEPT ![h].pool = p]
      PROVE  req'[h].op = req[h].op /\ req'[h].snap = req[h].snap
  BY <1>c DEF TypeOK, Request
<1>1. CASE Lock(h) \/ Validate(h) \/ FinishCopy(h) \/ StatVolume(h) \/ MakeVolume(h)
  BY <1>1, <1>a DEF Lock, Validate, FinishCopy, StatVolume, MakeVolume, VolumeExists, Idle
<1>2. CASE StartCopy(h) \/ RestoreSnapshot(h) \/ CopyBroken(h)
  BY <1>2, <1>b DEF StartCopy, RestoreSnapshot, CopyBroken, Idle
<1>3. CASE \E f \in Files : CopyFile(h, f) \/ RemoveVolumeFile(h, f)
  BY <1>3 DEF CopyFile, RemoveVolumeFile, Idle
<1>4. CASE FindVolume(h)
  BY <1>4, <1>a, <1>c, Zenon DEF FindVolume, Idle
<1>5. CASE NextProvider(h)
  BY <1>5, <1>a, <1>c, Zenon DEF NextProvider, Idle
<1>6. CASE StartRemove(h) \/ RemoveVolumeDir(h) \/ InitRepo(h) \/ GetSnapshot(h)
           \/ StatSource(h) \/ ListSnapshots(h)
  BY <1>6, <1>a DEF StartRemove, RemoveVolumeDir, InitRepo, GetSnapshot, StatSource,
                    ListSnapshots, Idle
<1>7. CASE \/ MakeSnapshotDir(h) \/ MakeDataDir(h) \/ MakeSourceDir(h)
           \/ RemoveSnapshotEntry(h) \/ RemoveSnapshotDir(h)
  BY <1>7 DEF MakeSnapshotDir, MakeDataDir, MakeSourceDir, RemoveSnapshotEntry,
              RemoveSnapshotDir, Idle, callVars
<1>8. CASE IoError(h)
  BY <1>8, <1>b DEF IoError, Idle
<1>9. CASE Step(h)
  BY <1>1, <1>2, <1>3, <1>4, <1>5, <1>6, <1>7, <1>9, Zenon DEF Step
<1> QED
  BY <1>1, <1>8, <1>9

(* Only DeleteSnapshot makes a snapshot directory disappear. *)
LEMMA DirKept ==
    ASSUME IInv, NEW h \in Handlers, HandlerStep(h), NEW x \in Pools \X Snapshots,
           snaps[x].dir, ~snaps'[x].dir
    PROVE  RemoveSnapshotDir(h) /\ x = S(h)
<1>0. TypeOK /\ snaps[x] \in SnapshotDir
  BY DEF IInv, TypeOK
<1>1. Writes(h) /\ x = S(h)
  BY OnlyWritersWrite, WritesOwn
<1>2. ASSUME NEW f \in Files, CopyFile(h, f) PROVE FALSE
  BY <1>0, <1>2 DEF CopyFile, TypeOK, SnapshotDir
<1>3. CASE MakeSnapshotDir(h)
  BY <1>0, <1>1, <1>3 DEF MakeSnapshotDir, TypeOK, SnapshotDir
<1>4. CASE MakeDataDir(h)
  BY <1>0, <1>1, <1>4 DEF MakeDataDir, TypeOK, SnapshotDir
<1>5. CASE MakeSourceDir(h)
  BY <1>0, <1>1, <1>5 DEF MakeSourceDir, TypeOK, SnapshotDir
<1>6. CASE RemoveSnapshotEntry(h)
  BY <1>0, <1>1, <1>6 DEF RemoveSnapshotEntry, TypeOK, SnapshotDir
<1> QED
  BY <1>1, <1>2, <1>3, <1>4, <1>5, <1>6 DEF Writes

(* Answers about snapshots are made with snapMutex held. *)
LEMMA ReporterLocks ==
    ASSUME NEW h \in Handlers, Reports(h)
    PROVE  pc[h] \in LockedSteps \cup CopySteps
  BY DEF Reports, FinishCopy, GetSnapshot, StatSource, ListSnapshots, LockedSteps, CopySteps

(* No caller knows of a snapshot that is being made or removed. *)
LEMMA UnreportedPreserved ==
    ASSUME IInv, NEW h \in Handlers, HandlerStep(h)
    PROVE  Unreported'
<1>0. TypeOK /\ CallShape(h) /\ Unreported /\ OthersKept(h) /\ TypeOK'
  BY Frame, TypePreserved DEF IInv, HandlerStep
<1>1. ASSUME NEW x \in ready' PROVE snaps'[x].dir
  <2>1. x \in Pools \X Snapshots
    BY <1>0 DEF TypeOK
  <2>2. CASE x \notin ready
    BY <2>2, OnlyReportsReport, ReportsSound
  <2>3. CASE x \in ready
    <3>1. snaps[x].dir
      BY <1>0, <2>3 DEF Unreported
    <3>2. ~(RemoveSnapshotDir(h) /\ x = S(h))
      <4>1. ASSUME RemoveSnapshotDir(h), x = S(h) PROVE FALSE
        <5>1. ~Idle(h) /\ req[h].op = "DeleteSnapshot" /\ x[2] = req[h].snap
          BY <1>0, <4>1 DEF RemoveSnapshotDir, Idle, CallShape, S
        <5> QED
          BY <1>0, <2>3, <5>1 DEF Unreported
      <4> QED
        BY <4>1
    <3> QED
      BY <2>1, <3>1, <3>2, DirKept
  <2> QED
    BY <2>2, <2>3
<1>u. \A g \in Handlers : Creating(g) => S(g) \notin ready
  BY <1>0, Zenon DEF Unreported
<1>2. ASSUME NEW g \in Handlers, Creating(g)' PROVE S(g)' \notin ready'
  <2>1. CASE g # h
    <3>1. Creating(g) /\ S(g)' = S(g) /\ pc[g] \in LockedSteps \cup CopySteps
      BY <1>0, <1>2, <2>1 DEF OthersKept, Creating, S, LockedSteps, CopySteps
    <3>2. ~Reports(h)
      BY <2>1, <3>1, ReporterLocks, HolderAlone
    <3> QED
      BY <1>0, <3>1, <3>2, OnlyReportsReport DEF Unreported
  <2>2. CASE g = h
    <3>1. Builds(h) /\ pc'[h] # "ok"
      BY <1>0, <1>2, <2>2, EntersBuild DEF Creating, BuildSteps, CopySteps
    <3>2. ready' \subseteq ready /\ S(h)' = S(h)
      BY <3>1, OnlyReportsReport, ReportsSound, SMTT(30) DEF Builds, S
    <3>3. S(h) \notin ready
      <4>1. CASE GetSnapshot(h) /\ ~snaps[S(h)].dir
        BY <1>0, <4>1 DEF Unreported
      <4>2. CASE Creating(h)
        BY <1>u, <4>2, Zenon
      <4>3. CASE RestoreSnapshot(h)
        <5>1. pc[h] = "restore" /\ (Abort(h) \/ (Goto(h, "cp") /\ req' = req))
          BY <4>3, Zenon DEF RestoreSnapshot
        <5>2. req[h].op = "CreateVolume"
          BY <1>0, <5>1 DEF CallShape
        <5>3. CASE Abort(h)
          BY <1>0, <1>2, <2>2, <5>1, <5>2, <5>3, AbortFrame DEF Creating, CopySteps
        <5>4. CASE Goto(h, "cp") /\ req' = req
          BY <1>0, <1>2, <2>2, <5>2, <5>4 DEF Creating, TypeOK, Goto, CopySteps
        <5> QED
          BY <5>1, <5>3, <5>4
      <4> QED
        BY <1>0, <1>2, <2>2, <3>1, <4>1, <4>2, <4>3
        DEF Builds, Creating, StatSource, StartCopy, CopyFile, MakeSnapshotDir, MakeDataDir,
            MakeSourceDir, CopySteps
    <3> QED
      BY <2>2, <3>2, <3>3
  <2> QED
    BY <2>1, <2>2
<1>3. ASSUME NEW g \in Handlers, ~Idle(g)', req'[g].op = "DeleteSnapshot",
             NEW x \in ready'
      PROVE  x[2] # req'[g].snap
  <2>1. CASE g # h
    <3>1. ~Idle(g) /\ req'[g] = req[g]
      BY <1>0, <1>3, <2>1 DEF OthersKept, Idle
    <3>2. CASE x \in ready
      BY <1>0, <1>3, <3>1, <3>2 DEF Unreported
    <3>3. CASE x \notin ready
      <4>1. ~BeingDeleted("DeleteSnapshot", x[2])
        BY <3>3, OnlyReportsReport, ReportsSound
      <4> QED
        BY <1>3, <3>1, <4>1 DEF BeingDeleted
    <3> QED
      BY <3>2, <3>3
  <2>2. CASE g = h /\ \E r \in Requests : Invoke(h, r)
    BY <1>0, <1>3, <2>2 DEF Invoke, TypeOK
  <2>3. CASE g = h /\ (Lock(h) \/ Step(h) \/ IoError(h))
    <3>1. ~Idle(h) /\ req'[h].op = req[h].op /\ req'[h].snap = req[h].snap
      BY <1>0, <1>3, <2>3, CallKept
    <3>2. ready' \subseteq ready
      BY <1>3, <2>3, OnlyReportsReport, ReportsSound DEF Idle
    <3> QED
      BY <1>0, <1>3, <2>3, <3>1, <3>2 DEF Unreported
  <2> QED
    BY <2>1, <2>2, <2>3 DEF HandlerStep
<1> QED
  BY <1>1, <1>2, <1>3 DEF Unreported
-----------------------------------------------------------------------------
(* A crash loses the calls and leaves the directories: what was half done
   becomes interrupted. *)
LEMMA CrashPreserves == IInv /\ Crash => IInv'
<1> SUFFICES ASSUME IInv, Crash PROVE IInv'
  OBVIOUS
<1>0. TypeOK /\ SingleSource /\ Settled /\ Unreported /\ \A h \in Handlers : CallShape(h)
  BY DEF IInv
<1>1. UNION {HalfDone(h) : h \in Handlers} \subseteq Pools \X Snapshots
  BY <1>0, Arguments DEF HalfDone, CopySteps, SnapshotSteps
<1>2. TypeOK'
  BY <1>0, <1>1, TypeFacts DEF Crash, TypeOK, FreeSteps, fsVars
<1>3. MutualExclusion'
  BY ConstantsAssumption DEF Crash, MutualExclusion, LockedSteps, CopySteps
<1>4. SingleSource'
  BY <1>0, SMTT(30) DEF Crash, SingleSource, fsVars
<1>5. \A h \in Handlers : (CallShape(h) /\ Progress(h))'
  BY SMTT(30) DEF Crash, CallShape, Progress, SnapshotSteps, CopySteps
<1>6. Settled'
  BY <1>0, Zenon DEF Crash, Settled, Complete, fsVars
<1>7. Unreported'
  BY <1>0 DEF Crash, Unreported, Creating, Idle, CopySteps, fsVars
<1> QED
  BY <1>2, <1>3, <1>4, <1>5, <1>6, <1>7 DEF IInv

(* Nothing but the volumes, the repositories and created changes. *)
LEMMA VolumesOnly ==
    ASSUME IInv, TypeOK', UNCHANGED <<snaps, snapMutex, pc, req, todo, ready, need, interrupted>>
    PROVE  IInv'
<1>1. (MutualExclusion /\ SingleSource)'
  BY DEF IInv, MutualExclusion, SingleSource, LockedSteps, CopySteps
<1>2. ASSUME NEW h \in Handlers PROVE (CallShape(h) /\ Progress(h))'
  <2>1. CallShape(h) /\ Progress(h)
    BY SMTT(30) DEF IInv
  <2>2. CallShape(h)'
    BY <2>1, SMTT(30) DEF CallShape, SnapshotSteps, CopySteps
  <2>3. Progress(h)'
    BY <2>1, Zenon DEF Progress, S, CopySteps, Present
  <2> QED
    BY <2>2, <2>3
<1>3. (Settled /\ Unreported)'
  BY DEF IInv, Settled, Unreported, Creating, Complete, HalfDone, S, Idle, CopySteps, Present
<1> QED
  BY <1>1, <1>2, <1>3 DEF IInv

(* A pod writes to volumes, never to snapshots. *)
LEMMA PodWritePreserves ==
    ASSUME IInv, NEW x \in created, NEW f \in Files, NEW w \in Values, PodWrite(x, f, w)
    PROVE  IInv'
<1>1. TypeOK'
  BY VolumeUpdates DEF IInv, TypeOK, PodWrite, callVars
<1> QED
  BY <1>1, VolumesOnly DEF PodWrite, callVars

(* Nothing happens. *)
LEMMA StutterPreserves == IInv /\ UNCHANGED vars => IInv'
<1> SUFFICES ASSUME IInv, UNCHANGED vars PROVE IInv'
  OBVIOUS
<1>1. TypeOK'
  BY DEF IInv, TypeOK, vars
<1> QED
  BY <1>1, VolumesOnly DEF vars

(* The inductive step. *)
LEMMA NextPreserves == IInv /\ [Next]_vars => IInv'
<1> SUFFICES ASSUME IInv, [Next]_vars PROVE IInv'
  OBVIOUS
<1>1. ASSUME NEW h \in Handlers, HandlerStep(h) PROVE IInv'
  BY <1>1, TypePreserved, MutexPreserved, SourcePreserved, ShapePreserved,
     ProgressPreserved, SettledPreserved, UnreportedPreserved DEF IInv, HandlerStep
<1> QED
  BY <1>1, CrashPreserves, PodWritePreserves, StutterPreserves DEF Next, HandlerStep

(* The invariant holds in every reachable state, for any number of handlers,
   pools, volumes, snapshots and files. *)
THEOREM Invariance == Spec => []IInv
  BY InitEstablishes, NextPreserves, PTL DEF Spec

(* The state of controllerserver.go and reflink.go stays well formed: every step
   works on a configured pool and on the names its request carries. *)
THEOREM TypeCorrect == Spec => []TypeOK
<1>1. IInv => TypeOK
  BY DEF IInv
<1> QED
  BY <1>1, Invariance, PTL

(* snapMutex excludes: no early return, error path or failed restore of
   controllerserver.go keeps the lock, or works on snapshots without it. *)
THEOREM SnapMutexExcludes == Spec => []MutualExclusion
<1>1. IInv => MutualExclusion
  BY DEF IInv
<1> QED
  BY <1>1, Invariance, PTL

(* A snapshot id never stands for two volumes, although the check in
   CreateSnapshot (controllerserver.go:462-476) and the directory that records
   the source (reflink.go:171) are separate system calls. *)
THEOREM OneSourcePerSnapshot == Spec => []SingleSource
<1>1. IInv => SingleSource
  BY DEF IInv
<1> QED
  BY <1>1, Invariance, PTL

(* What is reported ready_to_use has every file cp found in the source, unless
   a create or delete of that snapshot was cut short (reflink.go:82-103). *)
THEOREM ReadySnapshotsComplete == Spec => []ReadyIsCompleteUnlessInterrupted
<1>1. IInv => ReadyIsCompleteUnlessInterrupted
  <2> SUFFICES ASSUME IInv, NEW x \in ready \ interrupted PROVE Complete(x)
    BY DEF ReadyIsCompleteUnlessInterrupted
  <2>1. x \in Pools \X Snapshots /\ snaps[x].dir
    BY DEF IInv, TypeOK, Unreported
  <2>2. ASSUME NEW h \in Handlers, x \in HalfDone(h) PROVE FALSE
    <3>1. CASE Creating(h)
      BY <2>2, <3>1 DEF IInv, Unreported, HalfDone
    <3>2. CASE pc[h] = "rm"
      <4>1. ~Idle(h) /\ req[h].op = "DeleteSnapshot" /\ x[2] = req[h].snap
        BY <2>2, <3>2 DEF IInv, CallShape, HalfDone, S, Idle
      <4> QED
        BY <4>1 DEF IInv, Unreported
    <3> QED
      BY <2>2, <3>1, <3>2 DEF HalfDone, Creating, CopySteps
  <2> QED
    BY <2>1, <2>2 DEF IInv, Settled
<1> QED
  BY <1>1, Invariance, PTL

(* What was reported ready stays as it is until its deletion is asked for,
   although CreateSnapshot may be repeated while the source changes. *)
THEOREM ReadySnapshotsFrozen == Spec => ReadySnapshotFrozen
<1> DEFINE Frozen == \A x \in ready \cap ready' : snaps'[x] = snaps[x]
<1>1. ASSUME IInv, NEW h \in Handlers, HandlerStep(h), NEW x \in ready
      PROVE  snaps'[x] = snaps[x]
  <2>1. x \in Pools \X Snapshots /\ TypeOK /\ CallShape(h) /\ Unreported
    BY <1>1 DEF IInv, TypeOK
  <2>2. CASE Creating(h)
    <3>1. x # S(h)
      BY <2>1, <2>2, SMTT(30) DEF Unreported
    <3> QED
      BY <1>1, <2>1, <3>1, OnlyWritersWrite, WritesOwn
  <2>3. CASE RemoveSnapshotEntry(h) \/ RemoveSnapshotDir(h)
    <3>1. ~Idle(h) /\ req[h].op = "DeleteSnapshot" /\ S(h)[2] = req[h].snap
      BY <2>1, <2>3, Zenon DEF RemoveSnapshotEntry, RemoveSnapshotDir, Idle, CallShape, S
    <3>2. x # S(h)
      BY <2>1, <3>1 DEF Unreported
    <3> QED
      BY <1>1, <2>1, <3>2, OnlyWritersWrite, WritesOwn
  <2>4. CASE StartCopy(h) \/ \E f \in Files : CopyFile(h, f)
    <3>1. req[h].op = "CreateVolume" => UNCHANGED snaps
      BY <2>4 DEF StartCopy, CopyFile
    <3> QED
      BY <2>1, <2>2, <2>4, <3>1 DEF StartCopy, CopyFile, Creating, CopySteps
  <2>5. CASE MakeSnapshotDir(h) \/ MakeDataDir(h) \/ MakeSourceDir(h)
    BY <2>2, <2>5 DEF MakeSnapshotDir, MakeDataDir, MakeSourceDir, Creating
  <2> QED
    BY <1>1, <2>3, <2>4, <2>5, OnlyWritersWrite DEF Writes
<1>2. IInv /\ [Next]_vars => [Frozen]_vars
  BY <1>1 DEF Next, HandlerStep, Crash, PodWrite, fsVars
<1> QED
  BY <1>2, Invariance, PTL DEF Spec, ReadySnapshotFrozen
=============================================================================
