------------------------- MODULE HostPathController -------------------------
(***************************************************************************)
(* The CSI controller service of the hostpath driver                       *)
(* (pkg/hostpath/controllerserver.go) with its reflink snapshot provider   *)
(* (pkg/hostpath/reflink.go), on the directories of one node.              *)
(*                                                                         *)
(* gRPC runs every call in a goroutine of its own: a handler.  A handler   *)
(* moves through the steps of its call one file system operation at a      *)
(* time; snapMutex is the only lock.  The plugin may crash between any two *)
(* steps: the calls are lost, the directories stay as they are.            *)
(***************************************************************************)
EXTENDS Naturals

CONSTANTS
    Pools,          \* the storage pools of the configuration
    SnapshotPools,  \* those with a snapshot provider
    PoolRank,       \* position of a pool's path in sort.Strings order
    Volumes,        \* volume names, which are also the volume ids
    Snapshots,      \* snapshot names, which are also the snapshot ids
    Files,          \* the files a workload may put in a volume
    Values,         \* the contents of a file
    Handlers,       \* concurrent gRPC calls
    Requests,       \* the calls the sidecars may make
    Serialized,     \* TRUE: one call per volume at a time, see ClientMay
    NoFile, None    \* no such file; no value

Ops == {"CreateVolume", "DeleteVolume", "CreateSnapshot", "DeleteSnapshot",
        "ListSnapshots"}

(***************************************************************************)
(* A call.  pool is None when the storage pool is not configured or the    *)
(* topology of the request names another node.  snap is the content source *)
(* of a CreateVolume; vol, of a CreateSnapshot, the volume to copy.        *)
(***************************************************************************)
Request == [op : Ops, vol : Volumes \cup {None}, snap : Snapshots \cup {None},
            pool : Pools \cup {None}]

ASSUME ConstantsAssumption ==
    /\ SnapshotPools \subseteq Pools
    /\ PoolRank \in [Pools -> Nat]
    /\ \A p, q \in Pools : PoolRank[p] = PoolRank[q] => p = q
    /\ NoFile \notin Values
    /\ None \notin Handlers \cup Pools \cup Volumes \cup Snapshots
    /\ Serialized \in BOOLEAN

(* What each kind of call names. *)
ASSUME RequestsAssumption ==
    /\ Requests \subseteq Request
    /\ \A r \in Requests :
         /\ r.op \in {"CreateVolume", "DeleteVolume", "CreateSnapshot"}
              => r.vol \in Volumes
         /\ r.op \in {"CreateSnapshot", "DeleteSnapshot"} => r.snap \in Snapshots

VARIABLES
    vols,         \* <<pool, volume>> -> directory of the volume
    snaps,        \* <<pool, snapshot>> -> directory of the snapshot
    repo,         \* pools whose SnapshotPath directory exists
    snapMutex,    \* the handler that holds hostPathController.snapMutex
    pc,           \* handler -> next step of its call
    req,          \* handler -> the call; pool is where it works now
    todo,         \* handler -> files its cp has still to copy
    left,         \* handler -> providers its DeleteSnapshot has still to visit
    created,      \* <<pool, volume>> reported created, no deletion asked since
    ready,        \* <<pool, snapshot>> reported ready, no deletion asked since
    need,         \* <<pool, snapshot>> -> files of the source when cp began
    interrupted   \* snapshots with a create or delete that failed half-way

fsVars == <<vols, snaps, repo>>
callVars == <<pc, req, todo, left>>
vars == <<vols, snaps, repo, snapMutex, pc, req, todo, left, created, ready,
          need, interrupted>>

Content == [Files -> Values \cup {NoFile}]
Empty == [f \in Files |-> NoFile]
Present(c) == {f \in Files : c[f] # NoFile}

VolumeDir == [dir : BOOLEAN, files : Content]
NoVolume == [dir |-> FALSE, files |-> Empty]

(* <SnapshotPath>/<id>/data and <SnapshotPath>/<id>/<source volume id>: the
   source is remembered as the name of an empty directory. *)
SnapshotDir == [dir : BOOLEAN, data : BOOLEAN, files : Content,
                srcs : SUBSET Volumes]
NoSnapshot == [dir |-> FALSE, data |-> FALSE, files |-> Empty, srcs |-> {}]

NoRequest == [op |-> "ListSnapshots", vol |-> None, snap |-> None, pool |-> None]

Idle(h) == pc[h] \in {"idle", "ok", "err"}

(* The directories the call of h works on. *)
V(h) == <<req[h].pool, req[h].vol>>
S(h) == <<req[h].pool, req[h].snap>>

(* getSourceVolumeId: the first subdirectory that is not "data". *)
SourceOf(d) == IF d.srcs = {} THEN None ELSE CHOOSE v \in d.srcs : TRUE

Init ==
    /\ vols = [x \in Pools \X Volumes |-> NoVolume]
    /\ snaps = [x \in Pools \X Snapshots |-> NoSnapshot]
    /\ repo \in SUBSET SnapshotPools
    /\ snapMutex = None
    /\ pc = [h \in Handlers |-> "idle"]
    /\ req = [h \in Handlers |-> NoRequest]
    /\ todo = [h \in Handlers |-> {}]
    /\ left = [h \in Handlers |-> {}]
    /\ created = {}
    /\ ready = {}
    /\ need = [x \in Pools \X Snapshots |-> {}]
    /\ interrupted = {}

-----------------------------------------------------------------------------
(* Returning from a call; an idle handler keeps the outcome of its last call. *)

Goto(h, step) == pc' = [pc EXCEPT ![h] = step]

(* Faulty variant: the deferred Unlock is missing. *)
UnlockForgotten(h) == UNCHANGED snapMutex

(* defer hpc.snapMutex.Unlock() *)
Unlock(h) == snapMutex' = IF snapMutex = h THEN None ELSE snapMutex

Return(h, outcome) ==
    /\ Goto(h, outcome)
    /\ Unlock(h)
    /\ req' = [req EXCEPT ![h] = NoRequest]
    /\ todo' = [todo EXCEPT ![h] = {}]
    /\ left' = [left EXCEPT ![h] = {}]

BeingDeleted(op, x) ==
    \E h \in Handlers : ~Idle(h) /\ req[h].op = op /\ x \in {req[h].vol, req[h].snap}

(* The caller learns that the volume exists. *)
ReportCreated(h) ==
    created' = IF BeingDeleted("DeleteVolume", req[h].vol)
               THEN created ELSE created \cup {V(h)}

(* The caller learns that the snapshots in X are ready to use. *)
ReportReady(X) ==
    ready' = ready \cup {x \in X : ~BeingDeleted("DeleteSnapshot", x[2])}

(* The snapshot that h leaves half made or half removed if it stops here. *)
HalfDone(h) ==
    IF \/ pc[h] \in {"mkData", "mkSource", "rm"}
       \/ pc[h] \in {"cp", "copy"} /\ req[h].op = "CreateSnapshot"
    THEN {S(h)} ELSE {}

(* An error inside restoreFromSnapshot makes CreateVolume delete the volume;
   any other error is returned at once, and nothing is rolled back. *)
Abort(h) ==
    /\ IF req[h].op = "CreateVolume" /\ pc[h] \in {"restore", "cp", "copy"}
       THEN /\ Goto(h, "undo")
            /\ Unlock(h)
            /\ todo' = [todo EXCEPT ![h] = {}]
            /\ UNCHANGED <<req, left>>
       ELSE Return(h, "err")
    /\ interrupted' = interrupted \cup HalfDone(h)
    /\ UNCHANGED <<fsVars, created, ready, need>>

-----------------------------------------------------------------------------
(* The sidecars *)

(* When Serialized, the caller waits for the answer of a call on a volume (or
   for the plugin to restart) before it makes another one for that volume,
   and does not repeat a CreateVolume that was answered.  Otherwise calls
   are repeated at any time, as after a gRPC deadline: the handlers ignore
   their context, so the call that timed out keeps running. *)
ClientMay(r) ==
    Serialized /\ r.op \in {"CreateVolume", "DeleteVolume"} =>
        /\ \A h \in Handlers :
             ~Idle(h) /\ req[h].op \in {"CreateVolume", "DeleteVolume"}
               => req[h].vol # r.vol
        /\ r.op = "CreateVolume" => <<r.pool, r.vol>> \notin created

Invoke(h, r) ==
    /\ Idle(h)
    /\ ClientMay(r)
    /\ Goto(h, "validate")
    /\ req' = [req EXCEPT ![h] = r]
    /\ created' = IF r.op = "DeleteVolume"
                  THEN {x \in created : x[2] # r.vol} ELSE created
    /\ ready' = IF r.op = "DeleteSnapshot"
                THEN {x \in ready : x[2] # r.snap} ELSE ready
    /\ UNCHANGED <<fsVars, snapMutex, todo, left, need, interrupted>>

(* A pod writes a file of a volume it was given. *)
PodWrite(x, f, w) ==
    /\ x \in created
    /\ vols[x].dir
    /\ vols' = [vols EXCEPT ![x].files[f] = w]
    /\ UNCHANGED <<snaps, repo, snapMutex, callVars, created, ready, need,
                   interrupted>>

-----------------------------------------------------------------------------
(* Steps common to several calls *)

(* Argument, topology, storage pool and snapshot provider checks. *)
Valid(r) ==
    /\ r.op = "CreateVolume" => r.pool \in Pools
    /\ r.op = "CreateSnapshot" => r.pool \in SnapshotPools

Validate(h) ==
    /\ pc[h] = "validate"
    /\ IF Valid(req[h])
       THEN /\ Goto(h, CASE req[h].op = "CreateVolume" -> "stat"
                         [] req[h].op = "DeleteVolume" -> "find"
                         [] OTHER -> "lock")
            /\ UNCHANGED <<snapMutex, req, todo, left>>
       ELSE Return(h, "err")
    /\ UNCHANGED <<fsVars, created, ready, need, interrupted>>

(* Faulty variant: enters without waiting for the holder. *)
LockWithoutWaiting(h) ==
    /\ pc[h] = "lock"
    /\ snapMutex' = h
    /\ Goto(h, CASE req[h].op = "CreateVolume" -> "restore"
                 [] req[h].op = "CreateSnapshot" -> "init"
                 [] req[h].op = "DeleteSnapshot" -> "next"
                 [] OTHER -> "list")
    /\ left' = [left EXCEPT ![h] = SnapshotPools]
    /\ UNCHANGED <<fsVars, req, todo, created, ready, need, interrupted>>

Lock(h) ==
    /\ pc[h] = "lock"
    /\ snapMutex = None
    /\ snapMutex' = h
    /\ Goto(h, CASE req[h].op = "CreateVolume" -> "restore"
                 [] req[h].op = "CreateSnapshot" -> "init"
                 [] req[h].op = "DeleteSnapshot" -> "next"
                 [] OTHER -> "list")
    /\ left' = [left EXCEPT ![h] = SnapshotPools]
    /\ UNCHANGED <<fsVars, req, todo, created, ready, need, interrupted>>

(* cp -rp --reflink=auto src/. dst lists src, then copies file by file; it
   creates a missing dst and fails on a missing src. *)
StartCopy(h) ==
    /\ pc[h] = "cp"
    /\ \/ /\ req[h].op = "CreateVolume"
          /\ todo' = [todo EXCEPT ![h] = Present(snaps[S(h)].files)]
          /\ vols' = [vols EXCEPT ![V(h)].dir = TRUE]
          /\ Goto(h, "copy")
          /\ UNCHANGED <<snaps, repo, snapMutex, req, left, created, ready,
                         need, interrupted>>
       \/ /\ req[h].op = "CreateSnapshot"
          /\ vols[V(h)].dir
          /\ todo' = [todo EXCEPT ![h] = Present(vols[V(h)].files)]
          /\ need' = [need EXCEPT ![S(h)] = Present(vols[V(h)].files)]
          /\ Goto(h, "copy")
          /\ UNCHANGED <<fsVars, snapMutex, req, left, created, ready,
                         interrupted>>
       \/ /\ req[h].op = "CreateSnapshot"
          /\ ~vols[V(h)].dir
          /\ Abort(h)

CopyFile(h, f) ==
    /\ pc[h] = "copy"
    /\ f \in todo[h]
    /\ todo' = [todo EXCEPT ![h] = @ \ {f}]
    /\ \/ /\ req[h].op = "CreateVolume"
          /\ vols[V(h)].dir
          /\ vols' = [vols EXCEPT ![V(h)].files[f] = snaps[S(h)].files[f]]
          /\ UNCHANGED snaps
       \/ /\ req[h].op = "CreateSnapshot"
          /\ vols[V(h)].files[f] # NoFile
          /\ snaps' = [snaps EXCEPT ![S(h)].files[f] = vols[V(h)].files[f]]
          /\ UNCHANGED vols
    /\ UNCHANGED <<repo, snapMutex, pc, req, left, created, ready, need,
                   interrupted>>

(* A file that cp listed, or the directory it copies to, is gone. *)
CopyBroken(h) ==
    /\ pc[h] = "copy"
    /\ \E f \in todo[h] :
         \/ req[h].op = "CreateVolume" /\ ~vols[V(h)].dir
         \/ req[h].op = "CreateSnapshot" /\ vols[V(h)].files[f] = NoFile
    /\ Abort(h)

(* Faulty variant: starts cp and does not wait for it. *)
FinishCopyEarly(h) ==
    /\ pc[h] = "copy"
    /\ Return(h, "ok")
    /\ \/ /\ req[h].op = "CreateVolume"
          /\ ReportCreated(h)
          /\ UNCHANGED ready
       \/ /\ req[h].op = "CreateSnapshot"
          /\ ReportReady({S(h)})
          /\ UNCHANGED created
    /\ UNCHANGED <<fsVars, need, interrupted>>

FinishCopy(h) ==
    /\ pc[h] = "copy"
    /\ todo[h] = {}
    /\ Return(h, "ok")
    /\ \/ /\ req[h].op = "CreateVolume"
          /\ ReportCreated(h)
          /\ UNCHANGED ready
       \/ /\ req[h].op = "CreateSnapshot"
          /\ ReportReady({S(h)})
          /\ UNCHANGED created
    /\ UNCHANGED <<fsVars, need, interrupted>>

-----------------------------------------------------------------------------
(* CreateVolume and DeleteVolume *)

(* Faulty variants: answers before the restore, or restores in the background. *)
VolumeExistsSkipsRestore(h) ==
    IF vols[V(h)].dir \/ req[h].snap = None
    THEN Return(h, "ok") /\ ReportCreated(h)
    ELSE Goto(h, "lock") /\ UNCHANGED <<snapMutex, req, todo, left, created>>

(* The directory is there: return, or go on to the content source. *)
VolumeExists(h) ==
    IF req[h].snap = None
    THEN Return(h, "ok") /\ ReportCreated(h)
    ELSE Goto(h, "lock") /\ UNCHANGED <<snapMutex, req, todo, left, created>>

StatVolume(h) ==
    /\ pc[h] = "stat"
    /\ IF vols[V(h)].dir
       THEN VolumeExists(h)
       ELSE Goto(h, "mkdir") /\ UNCHANGED <<snapMutex, req, todo, left, created>>
    /\ UNCHANGED <<fsVars, ready, need, interrupted>>

(* Faulty variant: recreates a directory that appeared since the stat. *)
MakeVolumeAfresh(h) ==
    /\ pc[h] = "mkdir"
    /\ vols' = [vols EXCEPT ![V(h)] = [dir |-> TRUE, files |-> Empty]]
    /\ VolumeExists(h)
    /\ UNCHANGED <<snaps, repo, ready, need, interrupted>>

(* os.MkdirAll leaves a directory that appeared since the stat as it is. *)
MakeVolume(h) ==
    /\ pc[h] = "mkdir"
    /\ vols' = [vols EXCEPT ![V(h)].dir = TRUE]
    /\ VolumeExists(h)
    /\ UNCHANGED <<snaps, repo, ready, need, interrupted>>

RestoreSnapshot(h) ==
    /\ pc[h] = "restore"
    /\ IF req[h].pool \in SnapshotPools /\ snaps[S(h)].data /\ vols[V(h)].dir
       THEN /\ Goto(h, "cp")
            /\ UNCHANGED <<fsVars, snapMutex, req, todo, left, created, ready,
                           need, interrupted>>
       ELSE Abort(h)


(* DeleteVolume keeps the last match in path order over all pools. *)
FindVolume(h) ==
    LET found == {p \in Pools : vols[<<p, req[h].vol>>].dir}
    IN  /\ pc[h] = "find"
        /\ \/ /\ found = {}
              /\ Return(h, "ok")
           \/ \E p \in found :
                /\ \A q \in found : PoolRank[q] <= PoolRank[p]
                /\ req' = [req EXCEPT ![h].pool = p]
                /\ Goto(h, "remove")
                /\ UNCHANGED <<snapMutex, todo, left>>
        /\ UNCHANGED <<fsVars, created, ready, need, interrupted>>

(* os.RemoveAll of a volume, for DeleteVolume and for a failed restore: list
   the directory, unlink what was listed, then rmdir, which fails when a file
   has appeared since. *)
StartRemove(h) ==
    /\ pc[h] \in {"remove", "undo"}
    /\ todo' = [todo EXCEPT ![h] = Present(vols[V(h)].files)]
    /\ Goto(h, IF pc[h] = "remove" THEN "removing" ELSE "undoing")
    /\ UNCHANGED <<fsVars, snapMutex, req, left, created, ready, need,
                   interrupted>>

RemoveVolumeFile(h, f) ==
    /\ pc[h] \in {"removing", "undoing"}
    /\ f \in todo[h]
    /\ todo' = [todo EXCEPT ![h] = @ \ {f}]
    /\ vols' = [vols EXCEPT ![V(h)].files[f] = NoFile]
    /\ UNCHANGED <<snaps, repo, snapMutex, pc, req, left, created, ready, need,
                   interrupted>>

RemoveVolumeDir(h) ==
    LET empty == vols[V(h)].files = Empty
    IN  /\ pc[h] \in {"removing", "undoing"}
        /\ todo[h] = {}
        /\ vols' = IF empty THEN [vols EXCEPT ![V(h)] = NoVolume] ELSE vols
        /\ Return(h, IF empty /\ pc[h] = "removing" THEN "ok" ELSE "err")
        /\ UNCHANGED <<snaps, repo, created, ready, need, interrupted>>

-----------------------------------------------------------------------------
(* CreateSnapshot, DeleteSnapshot and ListSnapshots, all under snapMutex *)

InitRepo(h) ==
    /\ pc[h] = "init"
    /\ repo' = repo \cup {req[h].pool}
    /\ Goto(h, "get")
    /\ UNCHANGED <<vols, snaps, snapMutex, req, todo, left, created, ready,
                   need, interrupted>>

(* Faulty variants: a snapshot of another volume is not refused; a repeated
   call copies the source again. *)
GetSnapshotAnySource(h) ==
    /\ pc[h] = "get"
    /\ Goto(h, "source")
    /\ UNCHANGED <<fsVars, snapMutex, req, todo, left, created, ready, need,
                   interrupted>>
GetSnapshotRefreshes(h) ==
    LET d == snaps[S(h)]
    IN  /\ pc[h] = "get"
        /\ Goto(h, IF d.dir /\ SourceOf(d) = req[h].vol THEN "cp" ELSE "source")
        /\ UNCHANGED <<fsVars, snapMutex, req, todo, left, created, ready, need,
                       interrupted>>

(* GetSnapshotById: a directory with the name is a snapshot that is ready,
   whatever it holds, as long as it has a source. *)
GetSnapshot(h) ==
    LET d == snaps[S(h)]
    IN  /\ pc[h] = "get"
        /\ \/ /\ ~d.dir
              /\ Goto(h, "source")
              /\ UNCHANGED <<snapMutex, req, todo, left, ready>>
           \/ /\ d.dir
              /\ SourceOf(d) = req[h].vol
              /\ Return(h, "ok")
              /\ ReportReady({S(h)})
           \/ /\ d.dir
              /\ SourceOf(d) # req[h].vol
              /\ Return(h, "err")
              /\ UNCHANGED ready
        /\ UNCHANGED <<fsVars, created, need, interrupted>>

(* Reflink.CreateSnapshot up to its first MkdirAll. *)
StatSource(h) ==
    /\ pc[h] = "source"
    /\ \/ /\ vols[V(h)].dir
          /\ IF snaps[S(h)].data
             THEN Return(h, "ok") /\ ReportReady({S(h)})
             ELSE Goto(h, "mkSnap") /\ UNCHANGED <<snapMutex, req, todo, left, ready>>
       \/ /\ ~vols[V(h)].dir
          /\ Return(h, "err")
          /\ UNCHANGED ready
    /\ UNCHANGED <<fsVars, created, need, interrupted>>

(* MkdirAll(<id>/data) makes <id> first. *)
MakeSnapshotDir(h) ==
    /\ pc[h] = "mkSnap"
    /\ snaps' = [snaps EXCEPT ![S(h)].dir = TRUE]
    /\ Goto(h, "mkData")
    /\ UNCHANGED <<vols, repo, snapMutex, req, todo, left, created, ready, need,
                   interrupted>>

MakeDataDir(h) ==
    /\ pc[h] = "mkData"
    /\ snaps' = [snaps EXCEPT ![S(h)].data = TRUE]
    /\ Goto(h, "mkSource")
    /\ UNCHANGED <<vols, repo, snapMutex, req, todo, left, created, ready, need,
                   interrupted>>

(* Faulty variant: the arguments of filepath.Join are swapped. *)
MakeSourceDirOfSnapshot(h) ==
    /\ pc[h] = "mkSource"
    /\ snaps' = [snaps EXCEPT ![S(h)].srcs = @ \cup {req[h].snap}]
    /\ Goto(h, "cp")
    /\ UNCHANGED <<vols, repo, snapMutex, req, todo, left, created, ready, need,
                   interrupted>>

MakeSourceDir(h) ==
    /\ pc[h] = "mkSource"
    /\ snaps' = [snaps EXCEPT ![S(h)].srcs = @ \cup {req[h].vol}]
    /\ Goto(h, "cp")
    /\ UNCHANGED <<vols, repo, snapMutex, req, todo, left, created, ready, need,
                   interrupted>>

(* DeleteSnapshot asks every provider in turn, in the order of a Go map. *)
NextProvider(h) ==
    /\ pc[h] = "next"
    /\ \/ /\ left[h] = {}
          /\ Return(h, "ok")
       \/ \E p \in left[h] :
            /\ left' = [left EXCEPT ![h] = @ \ {p}]
            /\ req' = [req EXCEPT ![h].pool = p]
            /\ Goto(h, IF snaps[<<p, req[h].snap>>].dir THEN "rm" ELSE "next")
            /\ UNCHANGED <<snapMutex, todo>>
    /\ UNCHANGED <<fsVars, created, ready, need, interrupted>>

(* os.RemoveAll of a snapshot: entry by entry, then the directory. *)
RemoveSnapshotEntry(h) ==
    LET d == snaps[S(h)]
    IN  /\ pc[h] = "rm"
        /\ \/ \E f \in Present(d.files) :
                snaps' = [snaps EXCEPT ![S(h)].files[f] = NoFile]
           \/ /\ d.data
              /\ d.files = Empty
              /\ snaps' = [snaps EXCEPT ![S(h)].data = FALSE]
           \/ \E v \in d.srcs :
                snaps' = [snaps EXCEPT ![S(h)].srcs = @ \ {v}]
        /\ UNCHANGED <<vols, repo, snapMutex, callVars, created, ready, need,
                       interrupted>>

RemoveSnapshotDir(h) ==
    /\ pc[h] = "rm"
    /\ ~snaps[S(h)].data
    /\ snaps[S(h)].srcs = {}
    /\ snaps' = [snaps EXCEPT ![S(h)] = NoSnapshot]
    /\ need' = [need EXCEPT ![S(h)] = {}]
    /\ interrupted' = interrupted \ {S(h)}
    /\ Goto(h, "next")
    /\ UNCHANGED <<vols, repo, snapMutex, req, todo, left, created, ready>>

(* The snapshots ListSnapshots looks at, and those it returns. *)
Inspected(r) == {x \in SnapshotPools \X Snapshots :
                   snaps[x].dir /\ r.snap \in {None, x[2]}}
Listed(r) == {x \in Inspected(r) : \/ r.snap # None
                                   \/ r.vol \in {None, SourceOf(snaps[x])}}

(* One snapshot without a source, or a pool without a repository directory
   (unless one id is asked for), fails the whole call. *)
ListFails(r) ==
    \/ \E x \in Inspected(r) : SourceOf(snaps[x]) = None
    \/ r.snap = None /\ ~ (SnapshotPools \subseteq repo)

ListSnapshots(h) ==
    /\ pc[h] = "list"
    /\ \/ /\ ListFails(req[h])
          /\ Return(h, "err")
          /\ UNCHANGED ready
       \/ /\ ~ListFails(req[h])
          /\ Return(h, "ok")
          /\ ReportReady(Listed(req[h]))
    /\ UNCHANGED <<fsVars, created, need, interrupted>>

-----------------------------------------------------------------------------
(* Faults *)

(* Any file system call or cp may fail. *)
IoError(h) ==
    /\ ~Idle(h)
    /\ pc[h] # "lock"
    /\ pc[h] = "validate" => req[h].op = "CreateVolume"
    /\ pc[h] = "next" => left[h] # {}
    /\ Abort(h)

(* The plugin dies and is restarted. *)
Crash ==
    /\ \E h \in Handlers : ~Idle(h)
    /\ pc' = [h \in Handlers |-> "idle"]
    /\ req' = [h \in Handlers |-> NoRequest]
    /\ todo' = [h \in Handlers |-> {}]
    /\ left' = [h \in Handlers |-> {}]
    /\ snapMutex' = None
    /\ interrupted' = interrupted \cup UNION {HalfDone(h) : h \in Handlers}
    /\ UNCHANGED <<fsVars, created, ready, need>>

-----------------------------------------------------------------------------
(* A step the code takes once it is scheduled, waiting for the lock apart. *)
Step(h) ==
    \/ Validate(h) \/ StartCopy(h) \/ CopyBroken(h) \/ FinishCopy(h)
    \/ \E f \in Files : CopyFile(h, f) \/ RemoveVolumeFile(h, f)
    \/ StatVolume(h) \/ MakeVolume(h) \/ RestoreSnapshot(h)
    \/ FindVolume(h) \/ StartRemove(h) \/ RemoveVolumeDir(h)
    \/ InitRepo(h) \/ GetSnapshot(h) \/ StatSource(h)
    \/ MakeSnapshotDir(h) \/ MakeDataDir(h) \/ MakeSourceDir(h)
    \/ NextProvider(h) \/ RemoveSnapshotEntry(h) \/ RemoveSnapshotDir(h)
    \/ ListSnapshots(h)

Next ==
    \/ \E h \in Handlers :
         \/ \E r \in Requests : Invoke(h, r)
         \/ Lock(h)
         \/ Step(h)
         \/ IoError(h)
    \/ \E x \in created, f \in Files, w \in Values : PodWrite(x, f, w)
    \/ Crash

Spec == Init /\ [][Next]_vars

(* Every handler keeps running; a Go mutex hands itself over to a goroutine
   that has waited long enough. *)
FairSpec == Spec /\ \A h \in Handlers : WF_vars(Step(h)) /\ SF_vars(Lock(h))

-----------------------------------------------------------------------------
(* Properties *)

LockedSteps == {"restore", "init", "get", "source", "mkSnap", "mkData",
                "mkSource", "next", "rm", "list"}
CopySteps == {"cp", "copy"}
FreeSteps == {"idle", "ok", "err", "validate", "stat", "mkdir", "find",
              "remove", "removing", "undo", "undoing", "lock"}

TypeOK ==
    /\ vols \in [Pools \X Volumes -> VolumeDir]
    /\ snaps \in [Pools \X Snapshots -> SnapshotDir]
    /\ repo \subseteq SnapshotPools
    /\ snapMutex \in Handlers \cup {None}
    /\ pc \in [Handlers -> FreeSteps \cup LockedSteps \cup CopySteps]
    /\ req \in [Handlers -> Request]
    /\ todo \in [Handlers -> SUBSET Files]
    /\ left \in [Handlers -> SUBSET SnapshotPools]
    /\ created \subseteq Pools \X Volumes
    /\ ready \subseteq Pools \X Snapshots
    /\ need \in [Pools \X Snapshots -> SUBSET Files]
    /\ interrupted \subseteq Pools \X Snapshots

(* snapMutex (controllerserver.go:452, 494, 508, 576) keeps two calls out of
   the snapshot directories at once: the handlers between Lock and Unlock,
   through every early return, are exactly the holder. *)
MutualExclusion ==
    \A h \in Handlers : pc[h] \in LockedSteps \cup CopySteps <=> snapMutex = h

(* A snapshot id never stands for two volumes: the directory of a snapshot
   names at most one source, whatever calls race, fail, crash or are
   repeated with another source (controllerserver.go:462-476). *)
SingleSource ==
    \A x \in Pools \X Snapshots : \A v, w \in snaps[x].srcs : v = w

Complete(x) == snaps[x].data /\ need[x] \subseteq Present(snaps[x].files)

(* A snapshot that was reported ready_to_use holds every file its source had
   when it was taken, unless a CreateSnapshot or DeleteSnapshot of it was cut
   short (reflink.go:101 sets ReadyToUse for any directory). *)
ReadyIsCompleteUnlessInterrupted == \A x \in ready \ interrupted : Complete(x)

(* The unconditional form: ready_to_use means the snapshot can be used. *)
ReadyIsComplete == \A x \in ready : Complete(x)

(* What a caller was told is ready does not change until it is deleted, even
   when CreateSnapshot is repeated after the source has changed. *)
ReadySnapshotFrozen ==
    [][\A x \in ready \cap ready' : snaps'[x] = snaps[x]]_vars

Restored == {<<r.pool, r.vol>> : r \in {q \in Requests : q.op = "CreateVolume"
                                                          /\ q.snap # None}}

TouchedOnlyByPods(X) ==
    \A x \in (created \cap created') \cap X :
        vols'[x] # vols[x] => \E f \in Files, w \in Values : PodWrite(x, f, w)

(* Repeating CreateVolume for a volume without a content source, in whatever
   order the repeated calls run, never changes the volume once the caller
   has it ("re-running should not re-create", controllerserver_test.go). *)
BlankVolumeKept == [][TouchedOnlyByPods((Pools \X Volumes) \ Restored)]_vars


Answers(h, outcome) == ~Idle(h) /\ pc'[h] = outcome

(* A CreateVolume with a snapshot as content source that succeeds delivers
   every file of the snapshot, also when it resumes a restore that an error
   or a crash had cut short. *)
RestoreDelivers ==
    [][\A h \in Handlers :
         Answers(h, "ok") /\ req[h].op = "CreateVolume" /\ req[h].snap # None
           => Present(snaps[S(h)].files) \subseteq Present(vols'[V(h)].files)]_vars


(* Every call is answered, or lost in a crash: snapMutex is released on every
   path and no call waits for it forever. *)
EveryCallEnds == \A h \in Handlers : ~Idle(h) ~> Idle(h)

=============================================================================
