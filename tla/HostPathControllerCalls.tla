---------------------- MODULE HostPathControllerCalls -----------------------
(***************************************************************************)
(* Proofs about HostPathController, part 2: what a step of one call does to*)
(* the other calls and to snapMutex.                                       *)
(***************************************************************************)
EXTENDS HostPathControllerTypes

(* A step of h leaves the other calls alone. *)
OthersKept(h) ==
    \A g \in Handlers \ {h} : pc'[g] = pc[g] /\ req'[g] = req[g] /\ todo'[g] = todo[g]

(* What a step of h does to the lock: nothing, take it or let it go. *)
KeepsLock(h) ==
    /\ snapMutex' = snapMutex
    /\ pc'[h] \in LockedSteps \cup CopySteps <=> pc[h] \in LockedSteps \cup CopySteps
TakesLock(h) ==
    snapMutex = None /\ snapMutex' = h /\ pc'[h] \in LockedSteps \cup CopySteps
DropsLock(h) ==
    /\ snapMutex' = IF snapMutex = h THEN None ELSE snapMutex
    /\ pc'[h] \in FreeSteps

(* A return ends one call, and releases the lock if that call held it. *)
LEMMA Returned ==
    ASSUME TypeOK, NEW h \in Handlers, NEW o \in {"ok", "err"}, Return(h, o)
    PROVE  pc'[h] = o /\ OthersKept(h) /\ DropsLock(h)
<1>1. pc'[h] = o /\ OthersKept(h)
  BY DEF TypeOK, Return, Goto, OthersKept
<1>2. DropsLock(h)
  BY <1>1 DEF Return, Unlock, DropsLock, FreeSteps
<1> QED
  BY <1>1, <1>2

(* A failure releases the lock too; only a failed restore goes on without it
   (restoreFromSnapshot returns before CreateVolume cleans up). *)
LEMMA AbortFrame ==
    ASSUME TypeOK, NEW h \in Handlers, Abort(h)
    PROVE  /\ OthersKept(h) /\ DropsLock(h)
           /\ pc'[h] \in {"undo", "err"}
           /\ pc'[h] = "undo" => /\ req' = req /\ req[h].op = "CreateVolume"
                                 /\ pc[h] \in {"restore", "cp", "copy"}
<1>1. CASE Return(h, "err")
  BY <1>1, Returned
<1>2. CASE ~Return(h, "err")
  BY <1>2 DEF TypeOK, Abort, Goto, Unlock, OthersKept, DropsLock, FreeSteps
<1> QED
  BY <1>1, <1>2

(* Whatever h does, the other calls stay where they are, and the lock is
   kept, taken when free, or released when h leaves the locked steps. *)
LEMMA Frame ==
    ASSUME TypeOK, NEW h \in Handlers, HandlerStep(h)
    PROVE  OthersKept(h) /\ (KeepsLock(h) \/ TakesLock(h) \/ DropsLock(h))
<1> DEFINE Goal == OthersKept(h) /\ (KeepsLock(h) \/ TakesLock(h) \/ DropsLock(h))
<1> USE DEF OthersKept
<1>1. ASSUME NEW r \in Requests, Invoke(h, r) PROVE Goal
  BY <1>1 DEF TypeOK, Invoke, Goto, FreeSteps, LockedSteps, CopySteps, Idle, KeepsLock
<1>2. CASE Lock(h)
  BY <1>2 DEF TypeOK, Lock, Goto, FreeSteps, LockedSteps, CopySteps, Idle, TakesLock
<1>3. CASE Validate(h)
  BY <1>3, Returned DEF TypeOK, Validate, Goto, FreeSteps, LockedSteps, CopySteps, Idle, KeepsLock, DropsLock
<1>4. CASE StartCopy(h)
  BY <1>4, AbortFrame DEF TypeOK, StartCopy, Goto, FreeSteps, LockedSteps, CopySteps, Idle, KeepsLock
<1>5. CASE CopyBroken(h)
  BY <1>5, AbortFrame DEF TypeOK, CopyBroken, Goto, FreeSteps, LockedSteps, CopySteps, Idle
<1>6. CASE FinishCopy(h)
  BY <1>6, Returned DEF TypeOK, FinishCopy, Goto, FreeSteps, LockedSteps, CopySteps, Idle, DropsLock
<1>7. ASSUME NEW f \in Files, CopyFile(h, f) PROVE Goal
  BY <1>7 DEF TypeOK, CopyFile, Goto, FreeSteps, LockedSteps, CopySteps, Idle, KeepsLock
<1>8. ASSUME NEW f \in Files, RemoveVolumeFile(h, f) PROVE Goal
  BY <1>8 DEF TypeOK, RemoveVolumeFile, Goto, FreeSteps, LockedSteps, CopySteps, Idle, KeepsLock
<1>9. CASE StatVolume(h)
  BY <1>9, Returned DEF TypeOK, StatVolume, Goto, FreeSteps, LockedSteps, CopySteps, Idle, VolumeExists, KeepsLock, DropsLock
<1>10. CASE MakeVolume(h)
  BY <1>10, Returned DEF TypeOK, MakeVolume, Goto, FreeSteps, LockedSteps, CopySteps, Idle, VolumeExists, KeepsLock, DropsLock
<1>11. CASE RestoreSnapshot(h)
  BY <1>11, AbortFrame DEF TypeOK, RestoreSnapshot, Goto, FreeSteps, LockedSteps, CopySteps, Idle, KeepsLock
<1>12. CASE FindVolume(h)
  <2>1. CASE Return(h, "ok")
    BY <2>1, Returned
  <2>2. CASE \E p \in Pools : /\ req' = [req EXCEPT ![h].pool = p]
                              /\ Goto(h, "remove")
                              /\ UNCHANGED <<snapMutex, todo, left>>
    BY <1>12, <2>2 DEF FindVolume, TypeOK, Goto, LockedSteps, CopySteps, KeepsLock
  <2> QED
    BY <1>12, <2>1, <2>2, Zenon DEF FindVolume
<1>13. CASE StartRemove(h)
  BY <1>13 DEF TypeOK, StartRemove, Goto, FreeSteps, LockedSteps, CopySteps, Idle, KeepsLock
<1>14. CASE RemoveVolumeDir(h)
  BY <1>14, Returned DEF TypeOK, RemoveVolumeDir, Goto, FreeSteps, LockedSteps, CopySteps, Idle, DropsLock
<1>15. CASE InitRepo(h)
  BY <1>15 DEF TypeOK, InitRepo, Goto, FreeSteps, LockedSteps, CopySteps, Idle, KeepsLock
<1>16. CASE GetSnapshot(h)
  BY <1>16, Returned DEF TypeOK, GetSnapshot, Goto, FreeSteps, LockedSteps, CopySteps, Idle, KeepsLock, DropsLock
<1>17. CASE StatSource(h)
  BY <1>17, Returned DEF TypeOK, StatSource, Goto, FreeSteps, LockedSteps, CopySteps, Idle, KeepsLock, DropsLock
<1>18. CASE MakeSnapshotDir(h)
  BY <1>18 DEF TypeOK, MakeSnapshotDir, Goto, FreeSteps, LockedSteps, CopySteps, Idle, KeepsLock
<1>19. CASE MakeDataDir(h)
  BY <1>19 DEF TypeOK, MakeDataDir, Goto, FreeSteps, LockedSteps, CopySteps, Idle, KeepsLock
<1>20. CASE MakeSourceDir(h)
  BY <1>20 DEF TypeOK, MakeSourceDir, Goto, FreeSteps, LockedSteps, CopySteps, Idle, KeepsLock
<1>21. CASE NextProvider(h)
  <2>1. CASE Return(h, "ok")
    BY <2>1, Returned
  <2>2. CASE \E p \in left[h] :
               /\ req' = [req EXCEPT ![h].pool = p]
               /\ Goto(h, IF snaps[<<p, req[h].snap>>].dir THEN "rm" ELSE "next")
               /\ UNCHANGED <<snapMutex, todo>>
    BY <1>21, <2>2 DEF NextProvider, TypeOK, Goto, LockedSteps, CopySteps, KeepsLock
  <2> QED
    BY <1>21, <2>1, <2>2 DEF NextProvider
<1>22. CASE RemoveSnapshotEntry(h)
  BY <1>22 DEF TypeOK, RemoveSnapshotEntry, Goto, FreeSteps, LockedSteps, CopySteps, Idle, KeepsLock, callVars
<1>23. CASE RemoveSnapshotDir(h)
  BY <1>23 DEF TypeOK, RemoveSnapshotDir, Goto, FreeSteps, LockedSteps, CopySteps, Idle, KeepsLock
<1>24. CASE ListSnapshots(h)
  BY <1>24, Returned DEF TypeOK, ListSnapshots, Goto, FreeSteps, LockedSteps, CopySteps, Idle, DropsLock
<1>25. CASE IoError(h)
  BY <1>25, AbortFrame DEF TypeOK, IoError, Goto, FreeSteps, LockedSteps, CopySteps, Idle
<1>26. CASE Step(h)
  BY <1>26, <1>3, <1>4, <1>5, <1>6, <1>7, <1>8, <1>9, <1>10, <1>11, <1>12, <1>13, <1>14, <1>15, <1>16, <1>17, <1>18, <1>19, <1>20, <1>21, <1>22, <1>23, <1>24, Zenon DEF Step
<1> QED
  BY <1>1, <1>2, <1>25, <1>26 DEF HandlerStep
-----------------------------------------------------------------------------
(* Hence the handlers inside the locked steps remain exactly the holder. *)
LEMMA MutexPreserved ==
    ASSUME IInv, NEW h \in Handlers, HandlerStep(h)
    PROVE  MutualExclusion'
<1>1. TypeOK /\ MutualExclusion /\ OthersKept(h)
      /\ (KeepsLock(h) \/ TakesLock(h) \/ DropsLock(h))
  BY Frame DEF IInv
<1>2. ASSUME NEW g \in Handlers
      PROVE  (pc[g] \in LockedSteps \cup CopySteps <=> snapMutex = g)'
  <2>1. CASE g = h
    <3>1. CASE KeepsLock(h)
      BY <1>1, <2>1, <3>1 DEF MutualExclusion, KeepsLock, LockedSteps, CopySteps
    <3>2. CASE TakesLock(h)
      BY <2>1, <3>2 DEF TakesLock, LockedSteps, CopySteps
    <3>3. CASE DropsLock(h)
      BY <2>1, <3>3, ConstantsAssumption DEF DropsLock, FreeSteps, LockedSteps, CopySteps
    <3> QED
      BY <1>1, <3>1, <3>2, <3>3
  <2>2. CASE g # h
    <3>1. snapMutex' = g <=> snapMutex = g
      BY <1>1, <2>2, ConstantsAssumption DEF KeepsLock, TakesLock, DropsLock
    <3> QED
      BY <1>1, <2>2, <3>1 DEF MutualExclusion, OthersKept, LockedSteps, CopySteps
  <2> QED
    BY <2>1, <2>2
<1> QED
  BY <1>2 DEF MutualExclusion

(* The steps that change a snapshot directory, or start to. *)
Writes(h) ==
    \/ StartCopy(h) /\ UNCHANGED snaps
    \/ \E f \in Files : CopyFile(h, f)
    \/ MakeSnapshotDir(h) \/ MakeDataDir(h) \/ MakeSourceDir(h)
    \/ RemoveSnapshotEntry(h) \/ RemoveSnapshotDir(h)

(* No other step touches a snapshot directory. *)
LEMMA OnlyWritersWrite ==
    ASSUME NEW h \in Handlers, HandlerStep(h)
    PROVE  Writes(h) \/ UNCHANGED <<snaps, need>>
<1> DEFINE Goal == Writes(h) \/ UNCHANGED <<snaps, need>>
<1>1. ASSUME NEW r \in Requests, Invoke(h, r) PROVE Goal
  BY <1>1 DEF Invoke, fsVars
<1>2. CASE Lock(h) \/ Validate(h) \/ FinishCopy(h) \/ StatVolume(h) \/ MakeVolume(h)
  BY <1>2 DEF Lock, Validate, FinishCopy, StatVolume, MakeVolume, fsVars
<1>3. CASE StartCopy(h)
  BY <1>3 DEF StartCopy, Abort, Writes, fsVars
<1>4. CASE CopyBroken(h) \/ RestoreSnapshot(h) \/ IoError(h)
  BY <1>4 DEF CopyBroken, RestoreSnapshot, IoError, Abort, fsVars
<1>5. ASSUME NEW f \in Files, RemoveVolumeFile(h, f) PROVE Goal
  BY <1>5 DEF RemoveVolumeFile
<1>6. CASE FindVolume(h) \/ StartRemove(h) \/ RemoveVolumeDir(h)
  BY <1>6 DEF FindVolume, StartRemove, RemoveVolumeDir, fsVars
<1>7. CASE InitRepo(h) \/ GetSnapshot(h) \/ StatSource(h) \/ NextProvider(h) \/ ListSnapshots(h)
  BY <1>7 DEF InitRepo, GetSnapshot, StatSource, NextProvider, ListSnapshots, fsVars
<1>8. CASE \/ \E f \in Files : CopyFile(h, f)
           \/ MakeSnapshotDir(h) \/ MakeDataDir(h) \/ MakeSourceDir(h)
           \/ RemoveSnapshotEntry(h) \/ RemoveSnapshotDir(h)
  BY <1>8 DEF Writes
<1>9. CASE Step(h)
  BY <1>2, <1>3, <1>4, <1>5, <1>6, <1>7, <1>8, <1>9, Zenon DEF Step
<1> QED
  BY <1>1, <1>2, <1>4, <1>9 DEF HandlerStep

(* A source directory is made only where there was none: Reflink.CreateSnapshot
   runs after GetSnapshotById found no directory, under the same lock. *)
LEMMA SourcePreserved ==
    ASSUME IInv, NEW h \in Handlers, HandlerStep(h)
    PROVE  SingleSource'
<1>0. TypeOK /\ SingleSource /\ CallShape(h) /\ Progress(h)
  BY DEF IInv
<1>1. CASE UNCHANGED snaps
  BY <1>0, <1>1 DEF SingleSource
<1>3. ASSUME NEW f \in Files, CopyFile(h, f) PROVE SingleSource'
  BY <1>0, <1>1, <1>3, Arguments DEF CopyFile, CopySteps, TypeOK, SingleSource, SnapshotDir
<1>4. CASE MakeSnapshotDir(h)
  BY <1>0, <1>4, Arguments DEF MakeSnapshotDir, SnapshotSteps, TypeOK, SingleSource, SnapshotDir
<1>5. CASE MakeDataDir(h)
  BY <1>0, <1>5, Arguments DEF MakeDataDir, SnapshotSteps, TypeOK, SingleSource, SnapshotDir
<1>6. CASE MakeSourceDir(h)
  BY <1>0, <1>6, Arguments DEF MakeSourceDir, SnapshotSteps, TypeOK, SingleSource, SnapshotDir, Progress
<1>7. CASE RemoveSnapshotEntry(h)
  <2>1. S(h) \in Pools \X Snapshots
    BY <1>0, <1>7, Arguments DEF RemoveSnapshotEntry
  <2>2. \A x \in Pools \X Snapshots : snaps'[x].srcs \subseteq snaps[x].srcs
    BY <1>0, <1>7, <2>1 DEF RemoveSnapshotEntry, TypeOK, SnapshotDir
  <2> QED
    BY <1>0, <2>2 DEF SingleSource
<1>8. CASE RemoveSnapshotDir(h)
  BY <1>0, <1>8, Arguments DEF RemoveSnapshotDir, TypeOK, SingleSource, SnapshotDir, NoSnapshot
<1> QED
  BY <1>1, <1>3, <1>4, <1>5, <1>6, <1>7, <1>8, OnlyWritersWrite DEF Writes
-----------------------------------------------------------------------------
(* A call is at a step of its own operation and carries its arguments there. *)
LEMMA ShapePreserved ==
    ASSUME IInv, NEW h \in Handlers, HandlerStep(h)
    PROVE  \A g \in Handlers : CallShape(g)'
<1>0. TypeOK /\ CallShape(h)
  BY DEF IInv
<1>a. ASSUME NEW g \in Handlers \ {h} PROVE CallShape(g)'
  <2>1. CallShape(g) /\ pc'[g] = pc[g] /\ req'[g] = req[g]
    BY <1>0, Frame DEF IInv, OthersKept
  <2> QED
    BY <2>1 DEF CallShape, SnapshotSteps, CopySteps
<1>b. SnapshotPools \subseteq Pools
  BY ConstantsAssumption
<1>c. req[h].snap \in Snapshots \cup {None} /\ req[h].op \in Ops
  BY <1>0 DEF TypeOK, Request
<1>d. ASSUME pc'[h] \in {"ok", "err"} PROVE CallShape(h)'
  BY <1>d DEF CallShape, SnapshotSteps, CopySteps
<1>e. ASSUME NEW o \in {"ok", "err"}, Return(h, o) PROVE CallShape(h)'
  BY <1>0, <1>d, <1>e, Returned
<1>f. ASSUME Abort(h) PROVE CallShape(h)'
  <2>1. CASE pc'[h] = "undo" /\ req' = req /\ req[h].op = "CreateVolume"
             /\ pc[h] \in {"restore", "cp", "copy"}
    BY <1>0, <1>b, <2>1 DEF CallShape, SnapshotSteps, CopySteps
  <2> QED
    BY <1>0, <1>d, <1>f, <2>1, AbortFrame
(* Where a call goes on without a change of its arguments. *)
<1>g. ASSUME NEW s, pc' = [pc EXCEPT ![h] = s], req' = req
      PROVE  pc'[h] = s /\ req'[h] = req[h]
  BY <1>0, <1>g DEF TypeOK
<1>1. ASSUME NEW r \in Requests, Invoke(h, r) PROVE CallShape(h)'
  <2>1. pc'[h] = "validate" /\ req'[h] = r
    BY <1>0, <1>1 DEF TypeOK, Invoke, Goto
  <2> QED
    BY <2>1, RequestsAssumption DEF CallShape, SnapshotSteps, CopySteps
<1>2. ASSUME Lock(h) PROVE CallShape(h)'
  BY <1>0, <1>b, <1>c, <1>2 DEF TypeOK, Lock, Goto, CallShape, SnapshotSteps, CopySteps, Ops
<1>3. ASSUME Validate(h) PROVE CallShape(h)'
  <2>1. CASE Valid(req[h])
    BY <1>0, <1>3, <2>1 DEF TypeOK, Validate, Valid, Goto, CallShape, SnapshotSteps, CopySteps
  <2> QED
    BY <1>3, <1>e, <2>1 DEF Validate
<1>4. ASSUME StartCopy(h) PROVE CallShape(h)'
  <2>1. CASE pc[h] = "cp" /\ pc'[h] = "copy" /\ req'[h] = req[h]
    BY <1>0, <2>1 DEF CallShape, SnapshotSteps, CopySteps
  <2> QED
    BY <1>4, <1>f, <1>g, <2>1 DEF StartCopy, Goto
<1>5. ASSUME CopyBroken(h) \/ IoError(h) PROVE CallShape(h)'
  BY <1>5, <1>f DEF CopyBroken, IoError
<1>6. ASSUME FinishCopy(h) \/ RemoveVolumeDir(h) \/ ListSnapshots(h) PROVE CallShape(h)'
  BY <1>6, <1>e DEF FinishCopy, RemoveVolumeDir, ListSnapshots
<1>7. ASSUME \/ RemoveSnapshotEntry(h)
             \/ \E f \in Files : CopyFile(h, f) \/ RemoveVolumeFile(h, f)
      PROVE  CallShape(h)'
  <2>1. UNCHANGED <<pc, req>>
    BY <1>7 DEF RemoveSnapshotEntry, CopyFile, RemoveVolumeFile, callVars
  <2> QED
    BY <1>0, <2>1 DEF CallShape, SnapshotSteps, CopySteps
<1>8. ASSUME StatVolume(h) \/ MakeVolume(h) PROVE CallShape(h)'
  <2>1. CASE /\ pc[h] \in {"stat", "mkdir"} /\ req'[h] = req[h]
             /\ pc'[h] = "mkdir" \/ (pc'[h] = "lock" /\ req[h].snap # None)
    BY <1>0, <1>c, <2>1 DEF CallShape, SnapshotSteps, CopySteps
  <2>2. CASE VolumeExists(h) /\ pc[h] \in {"stat", "mkdir"}
    <3>1. CASE req[h].snap = None
      BY <1>e, <2>2, <3>1 DEF VolumeExists
    <3>2. CASE req[h].snap # None
      BY <1>g, <2>1, <2>2, <3>2 DEF VolumeExists, Goto
    <3> QED
      BY <3>1, <3>2
  <2>3. CASE StatVolume(h) /\ ~vols[V(h)].dir
    <3>1. pc[h] = "stat" /\ pc'[h] = "mkdir" /\ req'[h] = req[h]
      BY <1>0, <2>3 DEF StatVolume, Goto, TypeOK
    <3> QED
      BY <1>0, <3>1 DEF CallShape, SnapshotSteps, CopySteps
  <2> QED
    BY <1>8, <2>2, <2>3 DEF StatVolume, MakeVolume
<1>9. ASSUME RestoreSnapshot(h) PROVE CallShape(h)'
  <2>1. CASE /\ pc[h] = "restore" /\ pc'[h] = "cp" /\ req'[h] = req[h]
             /\ req[h].pool \in SnapshotPools
    BY <1>0, <2>1 DEF CallShape, SnapshotSteps, CopySteps
  <2> QED
    BY <1>9, <1>f, <1>g, <2>1 DEF RestoreSnapshot, Goto
<1>10. ASSUME FindVolume(h) PROVE CallShape(h)'
  <2>1. CASE \E p \in Pools : req' = [req EXCEPT ![h].pool = p] /\ Goto(h, "remove")
    <3>1. /\ pc[h] = "find" /\ pc'[h] = "remove"
          /\ req'[h].op = req[h].op /\ req'[h].vol = req[h].vol /\ req'[h].pool \in Pools
      <4>1. pc[h] = "find" /\ pc'[h] = "remove"
        BY <1>0, <1>10, <2>1 DEF FindVolume, TypeOK, Goto
      <4> QED
        BY <1>0, <2>1, <4>1 DEF TypeOK, Request
    <3> QED
      BY <1>0, <3>1 DEF CallShape, SnapshotSteps, CopySteps
  <2> QED
    BY <1>10, <1>e, <2>1, Zenon DEF FindVolume
<1>11. ASSUME StartRemove(h) PROVE CallShape(h)'
  <2>1. /\ req'[h] = req[h]
        /\ \/ pc[h] = "remove" /\ pc'[h] = "removing"
           \/ pc[h] = "undo" /\ pc'[h] = "undoing"
    BY <1>0, <1>11 DEF StartRemove, TypeOK, Goto
  <2> QED
    BY <1>0, <2>1 DEF CallShape, SnapshotSteps, CopySteps
<1>12. ASSUME \/ InitRepo(h) \/ GetSnapshot(h) \/ StatSource(h)
              \/ MakeSnapshotDir(h) \/ MakeDataDir(h) \/ MakeSourceDir(h)
       PROVE  CallShape(h)'
  <2>1. CASE /\ pc[h] \in SnapshotSteps /\ req'[h] = req[h]
             /\ pc'[h] \in {"get", "source", "mkSnap", "mkData", "mkSource", "cp"}
    BY <1>0, <2>1 DEF CallShape, SnapshotSteps, CopySteps
  <2>2. CASE InitRepo(h) \/ GetSnapshot(h) \/ StatSource(h)
    <3>1. CASE InitRepo(h)
      <4>1. pc[h] = "init" /\ Goto(h, "get") /\ req' = req
        BY <3>1, Zenon DEF InitRepo
      <4> QED
        BY <1>g, <2>1, <4>1, Zenon DEF Goto, SnapshotSteps
    <3>2. CASE GetSnapshot(h)
      BY <1>e, <1>g, <2>1, <3>2 DEF GetSnapshot, Goto, SnapshotSteps
    <3>3. CASE StatSource(h)
      BY <1>e, <1>g, <2>1, <3>3 DEF StatSource, Goto, SnapshotSteps
    <3> QED
      BY <2>2, <3>1, <3>2, <3>3
  <2>3. CASE MakeSnapshotDir(h) \/ MakeDataDir(h) \/ MakeSourceDir(h)
    BY <1>g, <2>1, <2>3 DEF MakeSnapshotDir, MakeDataDir, MakeSourceDir, Goto, SnapshotSteps
  <2> QED
    BY <1>12, <2>2, <2>3
<1>13. ASSUME NextProvider(h) PROVE CallShape(h)'
  <2>1. CASE \E p \in left[h] :
               /\ req' = [req EXCEPT ![h].pool = p]
               /\ Goto(h, IF snaps[<<p, req[h].snap>>].dir THEN "rm" ELSE "next")
    <3>1. left[h] \subseteq SnapshotPools /\ pc[h] = "next"
      BY <1>0, <1>13 DEF TypeOK, NextProvider
    <3>2. /\ req'[h].op = req[h].op /\ req'[h].snap = req[h].snap
          /\ req'[h].pool \in SnapshotPools
          /\ pc'[h] \in {"rm", "next"}
      BY <1>0, <2>1, <3>1 DEF TypeOK, Request, Goto
    <3> QED
      BY <1>0, <3>1, <3>2 DEF CallShape, SnapshotSteps, CopySteps
  <2> QED
    BY <1>13, <1>e, <2>1 DEF NextProvider
<1>14. ASSUME RemoveSnapshotDir(h) PROVE CallShape(h)'
  <2>1. pc[h] = "rm" /\ pc'[h] = "next" /\ req'[h] = req[h]
    BY <1>0, <1>14 DEF RemoveSnapshotDir, TypeOK, Goto
  <2> QED
    BY <1>0, <2>1 DEF CallShape, SnapshotSteps, CopySteps
<1>15. ASSUME Step(h) PROVE CallShape(h)'
  BY <1>3, <1>4, <1>5, <1>6, <1>7, <1>8, <1>9, <1>10, <1>11, <1>12, <1>13, <1>14,
     <1>15, Zenon DEF Step
<1> QED
  BY <1>1, <1>2, <1>5, <1>15, <1>a DEF HandlerStep
=============================================================================
