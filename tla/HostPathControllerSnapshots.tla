-------------------- MODULE HostPathControllerSnapshots ---------------------
(***************************************************************************)
(* Proofs about HostPathController, part 3: how a snapshot directory comes *)
(* to be complete.                                                         *)
(***************************************************************************)
EXTENDS HostPathControllerCalls

(* While h is inside, no other handler is (snapMutex). *)
LEMMA HolderAlone ==
    ASSUME IInv, NEW h \in Handlers, pc[h] \in LockedSteps \cup CopySteps,
           NEW g \in Handlers \ {h}
    PROVE  pc[g] \notin LockedSteps \cup CopySteps
  BY DEF IInv, MutualExclusion

(* Snapshot directories are only written with snapMutex held. *)
LEMMA WriterLocks ==
    ASSUME NEW h \in Handlers, Writes(h)
    PROVE  pc[h] \in LockedSteps \cup CopySteps
  BY DEF Writes, StartCopy, CopyFile, MakeSnapshotDir, MakeDataDir, MakeSourceDir,
         RemoveSnapshotEntry, RemoveSnapshotDir, LockedSteps, CopySteps

(* The steps of a CreateSnapshot that found nothing, and of any cp. *)
BuildSteps == {"source", "mkSnap", "mkData", "mkSource"} \cup CopySteps

(* The steps after which h is building a snapshot or copying. *)
Builds(h) ==
    /\ req' = req
    /\ \/ GetSnapshot(h) /\ ~snaps[S(h)].dir /\ pc'[h] = "source"
       \/ StatSource(h) /\ pc'[h] = "mkSnap"
       \/ RestoreSnapshot(h) /\ pc'[h] = "cp"
       \/ StartCopy(h) /\ pc'[h] = "copy"
       \/ (\E f \in Files : CopyFile(h, f)) /\ pc'[h] = "copy"
       \/ MakeSnapshotDir(h) /\ pc'[h] = "mkData"
       \/ MakeDataDir(h) /\ pc'[h] = "mkSource"
       \/ MakeSourceDir(h) /\ pc'[h] = "cp"

(* Those are the only ways into a building step. *)
LEMMA EntersBuild ==
    ASSUME TypeOK, NEW h \in Handlers, HandlerStep(h), pc'[h] \in BuildSteps
    PROVE  Builds(h)
<1>0. pc'[h] \in {"source", "mkSnap", "mkData", "mkSource", "cp", "copy"}
  BY DEF BuildSteps, CopySteps
<1>1. ASSUME NEW r \in Requests, Invoke(h, r) PROVE FALSE
  BY <1>0, <1>1 DEF TypeOK, Invoke, Goto
<1>2. CASE Lock(h) \/ Validate(h) \/ FinishCopy(h)
  BY <1>0, <1>2, Returned DEF TypeOK, Lock, Validate, FinishCopy, Goto
<1>3. CASE StatVolume(h) \/ MakeVolume(h)
  BY <1>0, <1>3, Returned DEF TypeOK, StatVolume, MakeVolume, VolumeExists, Goto
<1>4. CASE CopyBroken(h) \/ IoError(h)
  BY <1>0, <1>4, AbortFrame DEF CopyBroken, IoError
<1>5. ASSUME NEW f \in Files, RemoveVolumeFile(h, f) PROVE FALSE
  BY <1>0, <1>5 DEF RemoveVolumeFile
<1>6. CASE FindVolume(h) \/ StartRemove(h) \/ RemoveVolumeDir(h) \/ InitRepo(h)
  BY <1>0, <1>6, Returned, Zenon
  DEF TypeOK, FindVolume, StartRemove, RemoveVolumeDir, InitRepo, Goto
<1>7. CASE NextProvider(h) \/ RemoveSnapshotEntry(h) \/ RemoveSnapshotDir(h) \/ ListSnapshots(h)
  BY <1>0, <1>7, Returned, Zenon
  DEF TypeOK, NextProvider, RemoveSnapshotEntry, RemoveSnapshotDir, ListSnapshots, Goto, callVars
<1>8. CASE GetSnapshot(h) \/ StatSource(h)
  BY <1>0, <1>8, Returned DEF TypeOK, GetSnapshot, StatSource, Goto, Builds
<1>9. CASE RestoreSnapshot(h) \/ StartCopy(h)
  BY <1>0, <1>9, AbortFrame DEF TypeOK, RestoreSnapshot, StartCopy, Goto, Builds
<1>10. CASE MakeSnapshotDir(h) \/ MakeDataDir(h) \/ MakeSourceDir(h)
  BY <1>10 DEF TypeOK, MakeSnapshotDir, MakeDataDir, MakeSourceDir, Goto, Builds
<1>11. ASSUME NEW f \in Files, CopyFile(h, f) PROVE Builds(h)
  BY <1>11, Zenon DEF CopyFile, Builds
<1>12. CASE Step(h)
  BY <1>2, <1>3, <1>4, <1>5, <1>6, <1>7, <1>8, <1>9, <1>10, <1>11, <1>12, Zenon DEF Step
<1> QED
  BY <1>1, <1>2, <1>4, <1>12 DEF HandlerStep

(* What CreateSnapshot has built so far stays as it left it between its
   system calls. *)
LEMMA ProgressPreserved ==
    ASSUME IInv, NEW h \in Handlers, HandlerStep(h)
    PROVE  \A g \in Handlers : Progress(g)'
<1>0. TypeOK /\ CallShape(h) /\ Progress(h) /\ Settled
  BY DEF IInv
<1>1. ASSUME NEW g \in Handlers \ {h} PROVE Progress(g)'
  <2>1. Progress(g) /\ pc'[g] = pc[g] /\ req'[g] = req[g] /\ todo'[g] = todo[g]
    BY <1>0, Frame DEF IInv, OthersKept
  <2>2. CASE UNCHANGED <<snaps, need>>
    BY <2>1, <2>2 DEF Progress, S, CopySteps, Present
  <2>3. CASE Writes(h)
    BY <2>1, <2>3, WriterLocks, HolderAlone DEF Progress, LockedSteps, CopySteps
  <2> QED
    BY <2>2, <2>3, OnlyWritersWrite
<1>2. Progress(h)'
  <2>1. CASE pc'[h] \notin BuildSteps
    BY <2>1 DEF Progress, BuildSteps, CopySteps
  <2>2. CASE GetSnapshot(h) /\ ~snaps[S(h)].dir /\ pc'[h] = "source" /\ req' = req
    BY <2>2 DEF GetSnapshot, Progress, S, CopySteps, fsVars
  <2>3. CASE StatSource(h) /\ pc'[h] = "mkSnap" /\ req' = req
    BY <1>0, <2>3 DEF StatSource, Progress, S, CopySteps, fsVars
  <2>4. CASE RestoreSnapshot(h) /\ pc'[h] = "cp" /\ req' = req
    BY <1>0, <2>4 DEF RestoreSnapshot, CallShape, Progress, CopySteps
  <2>5. CASE StartCopy(h) /\ pc'[h] = "copy" /\ req' = req
    <3>1. CASE req[h].op = "CreateVolume"
      BY <2>5, <3>1 DEF Progress, CopySteps
    <3>2. CASE req[h].op = "CreateSnapshot"
      <4>1. S(h) \in Pools \X Snapshots /\ S(h)' = S(h) /\ pc[h] = "cp"
        BY <1>0, <2>5, Arguments DEF StartCopy, CopySteps, S
      <4>2. snaps' = snaps /\ todo'[h] = need'[S(h)]
        BY <1>0, <2>5, <3>2, <4>1, AbortFrame DEF StartCopy, TypeOK, fsVars
      <4> QED
        BY <1>0, <2>5, <3>2, <4>1, <4>2 DEF Progress, CopySteps
    <3> QED
      BY <2>5, <3>1, <3>2 DEF StartCopy
  <2>6. ASSUME NEW f \in Files, CopyFile(h, f), pc'[h] = "copy", req' = req
        PROVE  Progress(h)'
    <3>1. CASE req[h].op = "CreateVolume"
      BY <2>6, <3>1 DEF Progress, CopySteps
    <3>2. CASE req[h].op = "CreateSnapshot"
      <4>1. S(h) \in Pools \X Snapshots /\ S(h)' = S(h) /\ snaps[S(h)] \in SnapshotDir
            /\ snaps[S(h)].files \in Content
        BY <1>0, <2>6, Arguments DEF CopyFile, CopySteps, S, TypeOK, SnapshotDir
      <4>2. snaps' = [snaps EXCEPT ![S(h)].files[f] = vols[V(h)].files[f]]
            /\ vols[V(h)].files[f] # NoFile
        BY <2>6, <3>2 DEF CopyFile
      <4>3. snaps'[S(h)] = [snaps[S(h)] EXCEPT !.files[f] = vols[V(h)].files[f]]
        BY <1>0, <4>1, <4>2 DEF TypeOK
      <4>4. /\ snaps'[S(h)].dir = snaps[S(h)].dir
            /\ snaps'[S(h)].data = snaps[S(h)].data
            /\ snaps'[S(h)].srcs = snaps[S(h)].srcs
            /\ snaps'[S(h)].files = [snaps[S(h)].files EXCEPT ![f] = vols[V(h)].files[f]]
        BY <4>1, <4>3 DEF SnapshotDir
      <4>5. Present(snaps'[S(h)].files) = Present(snaps[S(h)].files) \cup {f}
        BY <4>1, <4>2, <4>4 DEF Present, Content
      <4>6. todo'[h] = todo[h] \ {f} /\ need' = need /\ pc[h] = "copy"
        BY <1>0, <2>6 DEF CopyFile, TypeOK
      <4>7. need[S(h)] \subseteq todo[h] \cup Present(snaps[S(h)].files)
        BY <1>0, <3>2, <4>6 DEF Progress
      <4>8. (need[S(h)] \subseteq todo[h] \cup Present(snaps[S(h)].files))'
        BY <4>1, <4>5, <4>6, <4>7
      <4> QED
        BY <1>0, <2>6, <3>2, <4>1, <4>4, <4>6, <4>8 DEF Progress, CopySteps
    <3> QED
      BY <2>6, <3>1, <3>2 DEF CopyFile
  <2>7. CASE MakeSnapshotDir(h) /\ pc'[h] = "mkData" /\ req' = req
    <3>1. S(h) \in Pools \X Snapshots /\ S(h)' = S(h)
      BY <1>0, <2>7, Arguments DEF MakeSnapshotDir, SnapshotSteps, S
    <3>2. snaps[S(h)].srcs = {}
      BY <1>0, <2>7, <3>1 DEF MakeSnapshotDir, Progress, Settled
    <3> QED
      BY <1>0, <2>7, <3>1, <3>2 DEF MakeSnapshotDir, TypeOK, SnapshotDir, Progress, CopySteps
  <2>8. CASE MakeDataDir(h) /\ pc'[h] = "mkSource" /\ req' = req
    <3>1. S(h) \in Pools \X Snapshots /\ S(h)' = S(h) /\ pc[h] = "mkData"
      BY <1>0, <2>8, Arguments DEF MakeDataDir, SnapshotSteps, S
    <3>2. snaps[S(h)].dir /\ snaps[S(h)].srcs = {}
      BY <1>0, <3>1 DEF Progress
    <3>3. snaps'[S(h)].dir /\ snaps'[S(h)].data /\ snaps'[S(h)].srcs = {}
      BY <1>0, <2>8, <3>1, <3>2 DEF MakeDataDir, TypeOK, SnapshotDir
    <3> QED
      BY <2>8, <3>1, <3>3 DEF Progress, CopySteps
  <2>9. CASE MakeSourceDir(h) /\ pc'[h] = "cp" /\ req' = req
    <3>1. S(h) \in Pools \X Snapshots /\ S(h)' = S(h) /\ pc[h] = "mkSource"
      BY <1>0, <2>9, Arguments DEF MakeSourceDir, SnapshotSteps, S
    <3>2. snaps[S(h)].dir /\ snaps[S(h)].data /\ snaps[S(h)].srcs = {}
      BY <1>0, <3>1 DEF Progress
    <3>3. snaps'[S(h)].dir /\ snaps'[S(h)].data /\ snaps'[S(h)].srcs = {req[h].vol}
      BY <1>0, <2>9, <3>1, <3>2 DEF MakeSourceDir, TypeOK, SnapshotDir
    <3> QED
      BY <2>9, <3>1, <3>3 DEF Progress, CopySteps
  <2> QED
    BY <1>0, <2>1, <2>2, <2>3, <2>4, <2>5, <2>6, <2>7, <2>8, <2>9, EntersBuild DEF Builds
<1> QED
  BY <1>1, <1>2
-----------------------------------------------------------------------------
(* A call writes the snapshot its request names and no other. *)
LEMMA WritesOwn ==
    ASSUME IInv, NEW h \in Handlers, Writes(h),
           NEW x \in Pools \X Snapshots, x # S(h)
    PROVE  snaps'[x] = snaps[x] /\ need'[x] = need[x]
<1>0. TypeOK
  BY DEF IInv
<1>1. CASE StartCopy(h) /\ UNCHANGED snaps
  BY <1>0, <1>1 DEF TypeOK, StartCopy, Abort
<1>2. ASSUME NEW f \in Files, CopyFile(h, f)
      PROVE  snaps'[x] = snaps[x] /\ need'[x] = need[x]
  BY <1>0, <1>2 DEF TypeOK, CopyFile
<1>3. CASE MakeSnapshotDir(h) \/ MakeDataDir(h) \/ MakeSourceDir(h)
  BY <1>0, <1>3 DEF TypeOK, MakeSnapshotDir, MakeDataDir, MakeSourceDir
<1>4. CASE RemoveSnapshotEntry(h) \/ RemoveSnapshotDir(h)
  BY <1>0, <1>4 DEF TypeOK, RemoveSnapshotEntry, RemoveSnapshotDir
<1> QED
  BY <1>1, <1>2, <1>3, <1>4 DEF Writes

(* A snapshot that is half done stays the business of its call until the call
   completes it, removes it, or leaves it interrupted. *)
LEMMA HalvesKept ==
    ASSUME IInv, NEW h \in Handlers, HandlerStep(h)
    PROVE  \/ FinishCopy(h) \/ RemoveSnapshotDir(h)
           \/ /\ interrupted \subseteq interrupted'
              /\ HalfDone(h) \subseteq HalfDone(h)' \cup interrupted'
<1> DEFINE Kept == /\ interrupted \subseteq interrupted'
                   /\ HalfDone(h) \subseteq HalfDone(h)' \cup interrupted'
<1>0. TypeOK /\ CallShape(h)
  BY DEF IInv
<1>1. ASSUME NEW r \in Requests, Invoke(h, r) PROVE Kept
  BY <1>0, <1>1 DEF Invoke, Idle, HalfDone
<1>2. CASE Lock(h) \/ Validate(h) \/ StatVolume(h) \/ MakeVolume(h) \/ FindVolume(h)
  BY <1>0, <1>2 DEF Lock, Validate, StatVolume, MakeVolume, FindVolume, HalfDone
<1>3. CASE Abort(h)
  BY <1>3 DEF Abort
<1>4. CASE StartCopy(h)
  BY <1>0, <1>3, <1>4 DEF StartCopy, TypeOK, Goto, HalfDone, S
<1>5. CASE RestoreSnapshot(h)
  BY <1>0, <1>3, <1>5 DEF RestoreSnapshot, HalfDone
<1>6. CASE CopyBroken(h) \/ IoError(h)
  BY <1>3, <1>6 DEF CopyBroken, IoError
<1>7. ASSUME NEW f \in Files, CopyFile(h, f) \/ RemoveVolumeFile(h, f) PROVE Kept
  BY <1>0, <1>7 DEF CopyFile, RemoveVolumeFile, HalfDone, S
<1>8. CASE StartRemove(h) \/ RemoveVolumeDir(h) \/ InitRepo(h) \/ GetSnapshot(h) \/ StatSource(h)
  BY <1>8 DEF StartRemove, RemoveVolumeDir, InitRepo, GetSnapshot, StatSource, HalfDone
<1>9. CASE MakeSnapshotDir(h) \/ NextProvider(h) \/ ListSnapshots(h)
  BY <1>9 DEF MakeSnapshotDir, NextProvider, ListSnapshots, HalfDone
<1>10. CASE MakeDataDir(h)
  BY <1>0, <1>10 DEF MakeDataDir, TypeOK, Goto, HalfDone, S
<1>11. CASE MakeSourceDir(h)
  BY <1>0, <1>11, SMTT(30) DEF MakeSourceDir, TypeOK, CallShape, SnapshotSteps, Goto, HalfDone, S
<1>12. CASE RemoveSnapshotEntry(h)
  BY <1>12, Zenon DEF RemoveSnapshotEntry, callVars, HalfDone, S
<1>13. CASE Step(h)
  BY <1>2, <1>4, <1>5, <1>6, <1>7, <1>8, <1>9, <1>10, <1>11, <1>12, <1>13, Zenon DEF Step
<1> QED
  BY <1>1, <1>2, <1>6, <1>13 DEF HandlerStep

(* A write to S(h) leaves it half done, unless it was its last. *)
LEMMA OwnHalfDone ==
    ASSUME IInv, NEW h \in Handlers, Writes(h)
    PROVE  \/ UNCHANGED <<snaps, need>> /\ ~FinishCopy(h) /\ ~RemoveSnapshotDir(h)
           \/ /\ S(h) \in HalfDone(h)' /\ S(h)' = S(h)
              /\ ~snaps'[S(h)].dir => ~snaps'[S(h)].data /\ snaps'[S(h)].srcs = {}
           \/ RemoveSnapshotDir(h)
<1> DEFINE Half == /\ S(h) \in HalfDone(h)' /\ S(h)' = S(h)
                   /\ ~snaps'[S(h)].dir => ~snaps'[S(h)].data /\ snaps'[S(h)].srcs = {}
           None0 == UNCHANGED <<snaps, need>> /\ ~FinishCopy(h) /\ ~RemoveSnapshotDir(h)
<1>0. TypeOK /\ CallShape(h) /\ Progress(h) /\ Settled
  BY DEF IInv
<1>1. CASE StartCopy(h) /\ UNCHANGED snaps
  <2>1. pc[h] = "cp"
    BY <1>1 DEF StartCopy
  <2>2. CASE UNCHANGED need
    BY <1>1, <2>1, <2>2 DEF FinishCopy, RemoveSnapshotDir
  <2>3. CASE ~UNCHANGED need
    BY <1>0, <1>1, <2>1, <2>3 DEF StartCopy, Abort, TypeOK, Goto, HalfDone, Progress, S, CopySteps
  <2> QED
    BY <2>2, <2>3
<1>2. ASSUME NEW f \in Files, CopyFile(h, f) PROVE Half \/ None0
  <2>0. pc[h] = "copy" /\ pc'[h] = "copy" /\ req' = req
    BY <1>2 DEF CopyFile
  <2>1. CASE req[h].op = "CreateVolume"
    <3>1. ~FinishCopy(h)
      BY <1>0, <1>2 DEF CopyFile, FinishCopy, TypeOK
    <3> QED
      BY <1>2, <2>0, <2>1, <3>1 DEF CopyFile, RemoveSnapshotDir
  <2>2. CASE req[h].op = "CreateSnapshot"
    <3>1. Progress(h)' /\ S(h) \in HalfDone(h)' /\ S(h)' = S(h)
      BY <1>2, <2>0, <2>2, ProgressPreserved DEF HandlerStep, Step, HalfDone, S
    <3> QED
      BY <2>0, <2>2, <3>1 DEF Progress, CopySteps
  <2> QED
    BY <1>2, <2>1, <2>2 DEF CopyFile
<1>3. ASSUME MakeSnapshotDir(h) \/ MakeDataDir(h) \/ MakeSourceDir(h) PROVE Half
  <2>1. Progress(h)'
    BY <1>3, ProgressPreserved DEF HandlerStep, Step
  <2>2. /\ S(h)' = S(h) /\ req'[h] = req[h] /\ req[h].op = "CreateSnapshot"
        /\ pc'[h] \in {"mkData", "mkSource", "cp"}
    BY <1>0, <1>3 DEF MakeSnapshotDir, MakeDataDir, MakeSourceDir, TypeOK, CallShape,
                      SnapshotSteps, Goto, S
  <2>3. S(h) \in HalfDone(h)'
    BY <2>2 DEF HalfDone
  <2>4. snaps'[S(h)].dir
    BY <2>1, <2>2 DEF Progress, CopySteps
  <2> QED
    BY <2>2, <2>3, <2>4
<1>4. ASSUME RemoveSnapshotEntry(h) PROVE Half
  <2>1. S(h) \in Pools \X Snapshots /\ S(h)' = S(h) /\ S(h) \in HalfDone(h)'
    BY <1>0, <1>4, Arguments, Zenon DEF RemoveSnapshotEntry, callVars, HalfDone, S
  <2>2. snaps[S(h)] \in SnapshotDir /\ (~snaps[S(h)].dir => ~snaps[S(h)].data /\ snaps[S(h)].srcs = {})
    BY <1>0, <2>1 DEF TypeOK, Settled
  <2>3. ~snaps'[S(h)].dir => ~snaps'[S(h)].data /\ snaps'[S(h)].srcs = {}
    <3>1. CASE \E f \in Files : snaps' = [snaps EXCEPT ![S(h)].files[f] = NoFile]
      BY <1>0, <2>1, <2>2, <3>1 DEF TypeOK, SnapshotDir
    <3>2. CASE snaps' = [snaps EXCEPT ![S(h)].data = FALSE]
      BY <1>0, <2>1, <2>2, <3>2 DEF TypeOK, SnapshotDir
    <3>3. CASE \E v \in snaps[S(h)].srcs : snaps' = [snaps EXCEPT ![S(h)].srcs = @ \ {v}]
      BY <1>0, <2>1, <2>2, <3>3 DEF TypeOK, SnapshotDir
    <3> QED
      BY <1>4, <3>1, <3>2, <3>3 DEF RemoveSnapshotEntry, Present
  <2> QED
    BY <2>1, <2>3, SMTT(30)
<1> QED
  BY <1>1, <1>2, <1>3, <1>4 DEF Writes
-----------------------------------------------------------------------------
(* So a directory nobody works on is complete or known as interrupted. *)
LEMMA SettledPreserved ==
    ASSUME IInv, NEW h \in Handlers, HandlerStep(h)
    PROVE  Settled'
<1>0. TypeOK /\ CallShape(h) /\ Progress(h) /\ Settled /\ OthersKept(h)
  BY Frame DEF IInv
<1>a. \A g \in Handlers \ {h} : HalfDone(g)' = HalfDone(g)
  BY <1>0 DEF OthersKept, HalfDone, S
<1>b. HalfDone(h) \subseteq {S(h)}
  BY DEF HalfDone
<1> DEFINE Shape(x) == ~snaps[x].dir => ~snaps[x].data /\ snaps[x].srcs = {}
           Ripe(x) == /\ snaps[x].dir /\ x \notin interrupted
                      /\ \A g \in Handlers : x \notin HalfDone(g)
<1>1. SUFFICES ASSUME NEW x \in Pools \X Snapshots
               PROVE  Shape(x)' /\ (Ripe(x) => Complete(x))'
  BY DEF Settled
<1>2. Shape(x) /\ (Ripe(x) => Complete(x))
  BY <1>0 DEF Settled
<1>3. CASE UNCHANGED <<snaps, need>> /\ ~FinishCopy(h) /\ ~RemoveSnapshotDir(h)
  BY <1>2, <1>3, <1>a, HalvesKept DEF Complete, Present
<1>4. CASE FinishCopy(h)
  <2>1. UNCHANGED <<snaps, need, interrupted>> /\ pc[h] = "copy"
    BY <1>4 DEF FinishCopy, fsVars
  <2>2. CASE x = S(h) /\ req[h].op = "CreateSnapshot"
    <3>1. Complete(x)
      BY <1>0, <1>4, <2>1, <2>2 DEF FinishCopy, Progress, CopySteps, Complete
    <3> QED
      BY <1>2, <2>1, <3>1 DEF Complete, Present
  <2>3. CASE ~(x = S(h) /\ req[h].op = "CreateSnapshot")
    <3>1. x \notin HalfDone(h)
      BY <2>1, <2>3 DEF HalfDone
    <3> QED
      BY <1>2, <1>a, <2>1, <3>1 DEF Complete, Present
  <2> QED
    BY <2>2, <2>3
<1>5. CASE Writes(h) /\ x # S(h)
  <2>1. snaps'[x] = snaps[x] /\ need'[x] = need[x]
    BY <1>5, WritesOwn
  <2>2. x \in interrupted => x \in interrupted'
    BY <1>5, HalvesKept, Zenon DEF RemoveSnapshotDir, FinishCopy
  <2>3. x \notin HalfDone(h)
    BY <1>5, <1>b
  <2> QED
    BY <1>2, <1>a, <2>1, <2>2, <2>3 DEF Complete, Present
<1>6. CASE RemoveSnapshotDir(h) /\ x = S(h)
  BY <1>0, <1>1, <1>6 DEF RemoveSnapshotDir, TypeOK, NoSnapshot
<1>7. CASE /\ x = S(h) /\ S(h) \in HalfDone(h)'
           /\ ~snaps'[S(h)].dir => ~snaps'[S(h)].data /\ snaps'[S(h)].srcs = {}
  BY <1>7
<1>8. CASE Writes(h)
  BY <1>3, <1>5, <1>6, <1>7, <1>8, OwnHalfDone
<1> QED
  BY <1>3, <1>4, <1>8, OnlyWritersWrite DEF Writes
-----------------------------------------------------------------------------
(* The steps that report snapshots. *)
Reports(h) == FinishCopy(h) \/ GetSnapshot(h) \/ StatSource(h) \/ ListSnapshots(h)

(* No other step tells a caller that a snapshot is ready. *)
LEMMA OnlyReportsReport ==
    ASSUME NEW h \in Handlers, HandlerStep(h)
    PROVE  Reports(h) \/ ready' \subseteq ready
<1>1. CASE \E r \in Requests : Invoke(h, r)
  BY <1>1 DEF Invoke
<1>2. CASE Lock(h) \/ Validate(h) \/ StatVolume(h) \/ MakeVolume(h) \/ FindVolume(h)
  BY <1>2 DEF Lock, Validate, StatVolume, MakeVolume, FindVolume
<1>3. CASE StartCopy(h) \/ RestoreSnapshot(h) \/ CopyBroken(h) \/ IoError(h)
  BY <1>3 DEF StartCopy, RestoreSnapshot, CopyBroken, IoError, Abort
<1>4. CASE \E f \in Files : CopyFile(h, f) \/ RemoveVolumeFile(h, f)
  BY <1>4 DEF CopyFile, RemoveVolumeFile
<1>5. CASE StartRemove(h) \/ RemoveVolumeDir(h) \/ InitRepo(h) \/ NextProvider(h)
  BY <1>5 DEF StartRemove, RemoveVolumeDir, InitRepo, NextProvider
<1>6. CASE \/ MakeSnapshotDir(h) \/ MakeDataDir(h) \/ MakeSourceDir(h)
           \/ RemoveSnapshotEntry(h) \/ RemoveSnapshotDir(h)
  BY <1>6 DEF MakeSnapshotDir, MakeDataDir, MakeSourceDir, RemoveSnapshotEntry, RemoveSnapshotDir
<1>7. CASE Reports(h)
  BY <1>7
<1>8. CASE Step(h)
  BY <1>2, <1>3, <1>4, <1>5, <1>6, <1>7, <1>8, Zenon DEF Step, Reports
<1> QED
  BY <1>1, <1>2, <1>3, <1>8 DEF HandlerStep

(* What is reported is there, and nobody is deleting it. *)
LEMMA ReportsSound ==
    ASSUME IInv, NEW h \in Handlers, Reports(h)
    PROVE  /\ UNCHANGED snaps
           /\ \A x \in ready' \ ready :
                snaps[x].dir /\ ~BeingDeleted("DeleteSnapshot", x[2])
           /\ ready' # ready => pc'[h] = "ok"
<1>0. TypeOK /\ CallShape(h) /\ Progress(h) /\ Settled
  BY DEF IInv
<1>1. UNCHANGED snaps
  BY Zenon DEF Reports, FinishCopy, GetSnapshot, StatSource, ListSnapshots, fsVars
<1>2. CASE FinishCopy(h)
  <2>0. pc[h] \in CopySteps
    BY <1>2, Zenon DEF FinishCopy, CopySteps
  <2>1. req[h].op = "CreateSnapshot" => snaps[S(h)].dir
    BY <1>0, <2>0, Zenon DEF Progress
  <2>2. pc'[h] = "ok"
    BY <1>0, <1>2, Returned DEF FinishCopy
  <2>3. CASE req[h].op = "CreateVolume" /\ UNCHANGED ready
    BY <1>1, <2>3
  <2>4. CASE req[h].op = "CreateSnapshot" /\ ReportReady({S(h)})
    <3>1. \A x \in ready' \ ready : x = S(h) /\ ~BeingDeleted("DeleteSnapshot", x[2])
      BY <2>4 DEF ReportReady
    <3> QED
      BY <1>1, <2>1, <2>2, <2>4, <3>1
  <2> QED
    BY <1>2, <2>3, <2>4, Zenon DEF FinishCopy
<1>3. CASE GetSnapshot(h)
  BY <1>0, <1>1, <1>3, Returned DEF GetSnapshot, ReportReady
<1>4. CASE StatSource(h)
  <2>1. pc[h] = "source"
    BY <1>4, Zenon DEF StatSource
  <2>2. S(h) \in Pools \X Snapshots
    BY <1>0, <2>1, Arguments DEF SnapshotSteps
  <2>3. ~snaps[S(h)].dir
    BY <1>0, <2>1, Zenon DEF Progress
  <2>4. ~snaps[S(h)].data
    BY <1>0, <2>2, <2>3 DEF Settled
  <2>5. ready' = ready
    BY <1>4, <2>4 DEF StatSource
  <2> QED
    BY <1>1, <2>5
<1>5. CASE ListSnapshots(h)
  BY <1>0, <1>1, <1>5, Returned DEF ListSnapshots, ReportReady, Listed, Inspected
<1> QED
  BY <1>2, <1>3, <1>4, <1>5, Zenon DEF Reports
=============================================================================
