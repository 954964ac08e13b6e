------------------------- MODULE ProvisionController -------------------------
(***************************************************************************)
(* The legacy provisioner (cmd/provisioner): on every node a               *)
(* ProvisionController (controller/controller.go) that drives a            *)
(* hostPathProvisioner, with the blocking store for new PersistentVolumes  *)
(* (backoffStore, controller/volume_store.go).                             *)
(*                                                                         *)
(* The controllers share the API server and see it through informer        *)
(* caches that may lag behind.  On each node, claim workers provision      *)
(* directories and volume workers remove them; a worker moves one request  *)
(* to the API server or one directory operation at a time.  A claim stands *)
(* for its UID, and also for the one PersistentVolume name made from it.   *)
(***************************************************************************)
EXTENDS WorkQueue, FiniteSets

CONSTANTS
    Nodes,
    Claims,
    WaitForFirstConsumer,        \* volumeBindingMode of the storage class
    ClaimWorkers, VolumeWorkers, \* the threads of one controller
    FailedProvisionThreshold, FailedDeleteThreshold,
    CreateProvisionedPVRetryCount,
    AddFinalizer,
    Failing,       \* requests and operations that may fail
    MaxFaults,     \* bound: failures and crashes in one behaviour
    MaxQueued,     \* bound: copies of one key in a queue
    None

ASSUME ConstantsAssumption ==
    /\ {WaitForFirstConsumer, AddFinalizer} \subseteq BOOLEAN
    /\ {FailedProvisionThreshold, FailedDeleteThreshold, MaxFaults} \subseteq Nat
    /\ {CreateProvisionedPVRetryCount, MaxQueued} \subseteq Nat \ {0}
    /\ None \notin Nodes \cup Claims

VARIABLES
    claims,       \* API server: claim -> PersistentVolumeClaim
    pvs,          \* API server: claim -> PersistentVolume named after it
    dirs,         \* <<node, claim>>: backing directories under PV_DIR
    claimCache,   \* node -> informer's copy of claims
    pvCache,      \* node -> informer's copy of pvs
    claimQueue,   \* node -> claim -> entry of claimQueue
    volumeQueue,  \* node -> claim -> entry of volumeQueue
    cw,           \* <<node, thread>> -> claim worker
    vw,           \* <<node, thread>> -> volume worker
    faults,       \* failures so far
    orphaned      \* directories left behind by a crash or a failed clean-up

apiVars == <<claims, pvs>>
claimSide == <<claimCache, claimQueue, cw>>
volumeSide == <<pvCache, volumeQueue, vw>>
vars == <<claims, pvs, dirs, claimCache, pvCache, claimQueue, volumeQueue, cw, vw,
          faults, orphaned>>

(* bound: Spec.VolumeName is set.  provisionOn and selected are the
   kubevirt.io/provisionOnNode and selected-node annotations. *)
Claim == [live : BOOLEAN, bound : BOOLEAN, provisionOn : Nodes \cup {None},
          selected : Nodes \cup {None}]
NoClaim == [live |-> FALSE, bound |-> FALSE, provisionOn |-> None, selected |-> None]

Volume == [node : Nodes, phase : {"Available", "Bound", "Released"},
           deleting : BOOLEAN, finalizer : BOOLEAN]
NoPV == [node |-> None]

IdleWorker == [pc |-> "idle", key |-> None, tries |-> 0, vol |-> NoPV]

Init ==
    /\ claims = [c \in Claims |-> NoClaim]
    /\ pvs = [c \in Claims |-> NoPV]
    /\ dirs = {}
    /\ claimCache = [n \in Nodes |-> claims]
    /\ pvCache = [n \in Nodes |-> pvs]
    /\ claimQueue = [n \in Nodes |-> [c \in Claims |-> NewEntry]]
    /\ volumeQueue = claimQueue
    /\ cw = [x \in Nodes \X ClaimWorkers |-> IdleWorker]
    /\ vw = [x \in Nodes \X VolumeWorkers |-> IdleWorker]
    /\ faults = 0
    /\ orphaned = {}

MayFail(what) ==
    /\ what \in Failing
    /\ faults < MaxFaults
    /\ faults' = faults + 1

-----------------------------------------------------------------------------
(* The end of a work item *)

(* A success forgets the failures of the key, then Done. *)
Succeed(e) == Done(Forget(e))

(* Faulty variant: the failure is counted and the key not put back. *)
FailForgets(e, threshold) == Done([e EXCEPT !.requeues = @ + 1])

(* A failure puts the key back later, up to the threshold (0: always); after
   that the key is given up, and its failures are kept. *)
Fail(e, threshold) ==
    Done(IF threshold = 0 \/ e.requeues < threshold THEN AddRateLimited(e) ELSE e)

(* enqueueClaim, enqueueVolume: a key that has failed is not added. *)
Enqueue(e) == IF e.requeues = 0 THEN Add(e) ELSE e

ClaimEntry(n, c, e) == claimQueue' = [claimQueue EXCEPT ![n][c] = e]
VolumeEntry(n, c, e) == volumeQueue' = [volumeQueue EXCEPT ![n][c] = e]

ClaimDone(x) ==
    /\ ClaimEntry(x[1], cw[x].key, Succeed(claimQueue[x[1]][cw[x].key]))
    /\ cw' = [cw EXCEPT ![x] = IdleWorker]
ClaimFailed(x) ==
    /\ ClaimEntry(x[1], cw[x].key,
                  Fail(claimQueue[x[1]][cw[x].key], FailedProvisionThreshold))
    /\ cw' = [cw EXCEPT ![x] = IdleWorker]
ClaimGoto(x, step) ==
    /\ cw' = [cw EXCEPT ![x].pc = step, ![x].tries = 0]
    /\ UNCHANGED claimQueue

VolumeDone(x) ==
    /\ VolumeEntry(x[1], vw[x].key, Succeed(volumeQueue[x[1]][vw[x].key]))
    /\ vw' = [vw EXCEPT ![x] = IdleWorker]
VolumeFailed(x) ==
    /\ VolumeEntry(x[1], vw[x].key,
                   Fail(volumeQueue[x[1]][vw[x].key], FailedDeleteThreshold))
    /\ vw' = [vw EXCEPT ![x] = IdleWorker]
VolumeGoto(x, step) ==
    /\ vw' = [vw EXCEPT ![x].pc = step]
    /\ UNCHANGED volumeQueue

-----------------------------------------------------------------------------
(* Claim workers: processNextClaimWorkItem, syncClaim and
   provisionClaimOperation *)

(* isCorrectNodeByBindingMode; the annotation that names the provisioner comes
   with selected-node, and is set by the code itself for provisionOnNode. *)
CorrectNode(n, cl) ==
    IF cl.provisionOn # None THEN cl.provisionOn = n
    ELSE WaitForFirstConsumer /\ cl.selected = n

ShouldProvision(n, cl) == cl.live /\ ~cl.bound /\ CorrectNode(n, cl)

(* Takes a claim and looks at the informer's copy of it.  The directory may
   be too small for the claim (calculatePvCapacity), and the class unknown. *)
StartClaim(x, c) ==
    LET n == x[1]
        e == Get(claimQueue[n][c])
        cl == claimCache[n][c]
    IN  /\ cw[x].pc = "idle"
        /\ CanGet(claimQueue[n][c])
        /\ \/ /\ ShouldProvision(n, cl)
              /\ ClaimEntry(n, c, e)
              /\ cw' = [cw EXCEPT ![x].pc = "check", ![x].key = c]
              /\ UNCHANGED faults
           \/ /\ IF ShouldProvision(n, cl) THEN MayFail("capacity") ELSE UNCHANGED faults
              /\ ClaimEntry(n, c, Succeed(e))
              /\ UNCHANGED cw
           \/ /\ cl.live /\ ~cl.bound
              /\ MayFail("class")
              /\ ClaimEntry(n, c, Fail(e, FailedProvisionThreshold))
              /\ UNCHANGED cw
        /\ UNCHANGED <<apiVars, dirs, claimCache, volumeSide, orphaned>>

(* The PersistentVolume is read from the API server; any error of that read
   counts as "does not exist".  A claim that is refused (a block volume, a
   class of another provisioner) counts as done. *)
CheckVolume(x) ==
    LET exists == pvs[cw[x].key] # NoPV
    IN  /\ cw[x].pc = "check"
        /\ \/ exists /\ ClaimDone(x) /\ UNCHANGED faults
           \/ ~exists /\ MayFail("refused") /\ ClaimDone(x)
           \/ ~exists /\ ClaimGoto(x, "provision") /\ UNCHANGED faults
           \/ exists /\ MayFail("getPV") /\ ClaimGoto(x, "provision")
        /\ UNCHANGED <<apiVars, dirs, claimCache, volumeSide, orphaned>>

(* hostPathProvisioner.Provision: os.MkdirAll; what precedes it (class, node,
   statfs) may fail too. *)
Provision(x) ==
    /\ cw[x].pc = "provision"
    /\ \/ /\ dirs' = dirs \cup {<<x[1], cw[x].key>>}
          /\ ClaimGoto(x, "save")
          /\ UNCHANGED faults
       \/ /\ MayFail("provision")
          /\ ClaimFailed(x)
          /\ UNCHANGED dirs
    /\ UNCHANGED <<apiVars, claimCache, volumeSide, orphaned>>

Create(x) ==
    pvs' = IF pvs[cw[x].key] # NoPV THEN pvs
           ELSE [pvs EXCEPT ![cw[x].key] =
                   [node |-> x[1], phase |-> "Available", deleting |-> FALSE,
                    finalizer |-> AddFinalizer]]

(* Faulty variant: one attempt too many. *)
TriesLeftOffByOne(x) == cw[x].tries < CreateProvisionedPVRetryCount

TriesLeft(x) == cw[x].tries + 1 < CreateProvisionedPVRetryCount
TryAgain(x) == cw' = [cw EXCEPT ![x].tries = @ + 1] /\ UNCHANGED claimQueue


(* backoffStore.StoreVolume: an object that exists already is reused.  The
   reply to a request that was carried out may be lost. *)
SaveVolume(x) ==
    /\ cw[x].pc = "save"
    /\ \/ Create(x) /\ ClaimDone(x) /\ UNCHANGED faults
       \/ /\ \/ MayFail("create") /\ UNCHANGED pvs
             \/ MayFail("lostCreate") /\ Create(x)
          /\ IF TriesLeft(x) THEN TryAgain(x) ELSE ClaimGoto(x, "clean")
    /\ UNCHANGED <<claims, dirs, claimCache, volumeSide, orphaned>>

(* The save was given up: delete the asset, or give that up too. *)
CleanAsset(x) ==
    LET d == <<x[1], cw[x].key>>
    IN  /\ cw[x].pc = "clean"
        /\ \/ /\ dirs' = dirs \ {d}
              /\ orphaned' = orphaned \ {d}
              /\ ClaimFailed(x)
              /\ UNCHANGED faults
           \/ /\ MayFail("clean")
              /\ IF TriesLeft(x)
                 THEN TryAgain(x) /\ UNCHANGED orphaned
                 ELSE ClaimFailed(x) /\ orphaned' = orphaned \cup {d}
              /\ UNCHANGED dirs
        /\ UNCHANGED <<apiVars, claimCache, volumeSide>>

-----------------------------------------------------------------------------
(* Volume workers: processNextVolumeWorkItem, syncVolume and
   deleteVolumeOperation *)

(* Faulty variant: the phase that only Kubernetes 1.4 sets. *)
ShouldDeleteFailed(v) == v # NoPV /\ v.phase = "Failed" /\ ~v.deleting

(* A volume with a deletion timestamp is skipped, with or without finalizer. *)
ShouldDelete(v) == v # NoPV /\ v.phase = "Released" /\ ~v.deleting

StartVolume(x, c) ==
    LET n == x[1]
        e == Get(volumeQueue[n][c])
    IN  /\ vw[x].pc = "idle"
        /\ CanGet(volumeQueue[n][c])
        /\ IF ShouldDelete(pvCache[n][c])
           THEN /\ VolumeEntry(n, c, e)
                /\ vw' = [vw EXCEPT ![x] = [pc |-> "check", key |-> c, tries |-> 0,
                                           vol |-> pvCache[n][c]]]
           ELSE VolumeEntry(n, c, Succeed(e)) /\ UNCHANGED vw
        /\ UNCHANGED <<apiVars, dirs, claimSide, pvCache, faults, orphaned>>


(* Reads the volume again; when that fails the work item ends as done. *)
RecheckVolume(x) ==
    /\ vw[x].pc = "check"
    /\ \/ ShouldDelete(pvs[vw[x].key]) /\ VolumeGoto(x, "asset") /\ UNCHANGED faults
       \/ ~ShouldDelete(pvs[vw[x].key]) /\ VolumeDone(x) /\ UNCHANGED faults
       \/ MayFail("getPV") /\ VolumeDone(x)
    /\ UNCHANGED <<apiVars, dirs, claimSide, pvCache, orphaned>>

(* Faulty variant: the volume of another node is taken for deleted. *)
DeleteAssetOfAnyNode(x) ==
    LET d == <<vw[x].vol.node, vw[x].key>>
    IN  /\ vw[x].pc = "asset"
        /\ dirs' = IF d[1] = x[1] THEN dirs \ {d} ELSE dirs
        /\ orphaned' = IF d[1] = x[1] THEN orphaned \ {d} ELSE orphaned
        /\ VolumeGoto(x, "delete")
        /\ UNCHANGED <<apiVars, claimSide, pvCache, faults>>

(* hostPathProvisioner.Delete of the volume as the informer knew it: another
   node's volume is ignored. *)
DeleteAsset(x) ==
    LET d == <<vw[x].vol.node, vw[x].key>>
    IN  /\ vw[x].pc = "asset"
        /\ \/ /\ d[1] # x[1]
              /\ VolumeDone(x)
              /\ UNCHANGED <<dirs, orphaned, faults>>
           \/ /\ d[1] = x[1]
              /\ dirs' = dirs \ {d}
              /\ orphaned' = orphaned \ {d}
              /\ VolumeGoto(x, "delete")
              /\ UNCHANGED faults
           \/ /\ d[1] = x[1]
              /\ MayFail("deleteAsset")
              /\ VolumeFailed(x)
              /\ UNCHANGED <<dirs, orphaned>>
        /\ UNCHANGED <<apiVars, claimSide, pvCache>>

(* The API server marks the object; "not found" is an error like another. *)
DeletePV(x) ==
    LET c == vw[x].key
        marked == [pvs EXCEPT ![c].deleting = TRUE]
    IN  /\ vw[x].pc = "delete"
        /\ \/ /\ pvs[c] # NoPV
              /\ pvs' = marked
              /\ IF AddFinalizer THEN VolumeGoto(x, "getPV") ELSE VolumeDone(x)
              /\ UNCHANGED faults
           \/ /\ IF pvs[c] = NoPV THEN UNCHANGED faults ELSE MayFail("deletePV")
              /\ VolumeFailed(x)
              /\ UNCHANGED pvs
           \/ /\ pvs[c] # NoPV
              /\ MayFail("lostDelete")
              /\ pvs' = marked
              /\ VolumeFailed(x)
        /\ UNCHANGED <<claims, dirs, claimSide, pvCache, orphaned>>

(* Gets the object with its deletion timestamp, for its finalizers. *)
GetFinalizers(x) ==
    LET v == pvs[vw[x].key]
    IN  /\ vw[x].pc = "getPV"
        /\ \/ v # NoPV /\ v.finalizer /\ VolumeGoto(x, "update") /\ UNCHANGED faults
           \/ ~(v # NoPV /\ v.finalizer) /\ VolumeDone(x) /\ UNCHANGED faults
           \/ MayFail("getFinalizers") /\ VolumeFailed(x)
        /\ UNCHANGED <<apiVars, dirs, claimSide, pvCache, orphaned>>

RemoveFinalizer(x) ==
    LET c == vw[x].key
    IN  /\ vw[x].pc = "update"
        /\ \/ /\ pvs' = IF pvs[c] = NoPV THEN pvs
                       ELSE [pvs EXCEPT ![c].finalizer = FALSE]
              /\ VolumeDone(x)
              /\ UNCHANGED faults
           \/ MayFail("update") /\ VolumeFailed(x) /\ UNCHANGED pvs
        /\ UNCHANGED <<claims, dirs, claimSide, pvCache, orphaned>>

-----------------------------------------------------------------------------
(* Informers, timers and crashes *)

(* The claim handler ignores deletions. *)
InformClaim(n, c) ==
    /\ claimCache[n][c] # claims[c]
    /\ claimCache' = [claimCache EXCEPT ![n][c] = claims[c]]
    /\ IF claims[c].live
       THEN ClaimEntry(n, c, Enqueue(claimQueue[n][c]))
       ELSE UNCHANGED claimQueue
    /\ UNCHANGED <<apiVars, dirs, cw, volumeSide, faults, orphaned>>

(* forgetVolume calls Done although no worker of its own has the key. *)
ForgetVolume(e) == Done(Forget(e))

InformVolume(n, c) ==
    /\ pvCache[n][c] # pvs[c]
    /\ volumeQueue[n][c].queued < MaxQueued
    /\ pvCache' = [pvCache EXCEPT ![n][c] = pvs[c]]
    /\ VolumeEntry(n, c, IF pvs[c] = NoPV THEN ForgetVolume(volumeQueue[n][c])
                         ELSE Enqueue(volumeQueue[n][c]))
    /\ UNCHANGED <<apiVars, dirs, claimSide, vw, faults, orphaned>>

(* Every resyncPeriod the handlers are called for everything in the cache. *)
ResyncClaim(n, c) ==
    /\ claimCache[n][c].live
    /\ ClaimEntry(n, c, Enqueue(claimQueue[n][c]))
    /\ UNCHANGED <<apiVars, dirs, claimCache, cw, volumeSide, faults, orphaned>>

ResyncVolume(n, c) ==
    /\ pvCache[n][c] # NoPV
    /\ volumeQueue[n][c].queued < MaxQueued
    /\ VolumeEntry(n, c, Enqueue(volumeQueue[n][c]))
    /\ UNCHANGED <<apiVars, dirs, claimSide, pvCache, vw, faults, orphaned>>

ClaimDelayOver(n, c) ==
    /\ claimQueue[n][c].delayed
    /\ ClaimEntry(n, c, DelayOver(claimQueue[n][c]))
    /\ UNCHANGED <<apiVars, dirs, claimCache, cw, volumeSide, faults, orphaned>>

VolumeDelayOver(n, c) ==
    /\ volumeQueue[n][c].delayed
    /\ VolumeEntry(n, c, DelayOver(volumeQueue[n][c]))
    /\ UNCHANGED <<apiVars, dirs, claimSide, pvCache, vw, faults, orphaned>>

(* The provisioner of a node dies and starts again with empty caches. *)
Crash(n) ==
    /\ MayFail("crash")
    /\ claimCache' = [claimCache EXCEPT ![n] = [c \in Claims |-> NoClaim]]
    /\ pvCache' = [pvCache EXCEPT ![n] = [c \in Claims |-> NoPV]]
    /\ claimQueue' = [claimQueue EXCEPT ![n] = [c \in Claims |-> NewEntry]]
    /\ volumeQueue' = [volumeQueue EXCEPT ![n] = [c \in Claims |-> NewEntry]]
    /\ cw' = [x \in DOMAIN cw |-> IF x[1] = n THEN IdleWorker ELSE cw[x]]
    /\ vw' = [x \in DOMAIN vw |-> IF x[1] = n THEN IdleWorker ELSE vw[x]]
    /\ orphaned' = orphaned \cup {<<n, c>> : c \in
            {cw[<<n, w>>].key : w \in {t \in ClaimWorkers :
                                        cw[<<n, t>>].pc \in {"save", "clean"}}}}
    /\ UNCHANGED <<apiVars, dirs>>

-----------------------------------------------------------------------------
(* Kubernetes: users, the scheduler and the PersistentVolume controller *)

CreateClaim(c, n) ==
    /\ claims[c] = NoClaim
    /\ claims' = [claims EXCEPT ![c].live = TRUE, ![c].provisionOn = n]
    /\ UNCHANGED <<pvs, dirs, claimSide, volumeSide, faults, orphaned>>

SelectNode(c, n) ==
    /\ WaitForFirstConsumer
    /\ claims[c].live /\ ~claims[c].bound
    /\ claims[c].selected = None
    /\ claims' = [claims EXCEPT ![c].selected = n]
    /\ UNCHANGED <<pvs, dirs, claimSide, volumeSide, faults, orphaned>>

DeleteClaim(c) ==
    /\ claims[c].live
    /\ claims' = [claims EXCEPT ![c].live = FALSE]
    /\ UNCHANGED <<pvs, dirs, claimSide, volumeSide, faults, orphaned>>

Bind(c) ==
    /\ claims[c].live /\ ~claims[c].bound
    /\ pvs[c] # NoPV /\ pvs[c].phase = "Available"
    /\ claims' = [claims EXCEPT ![c].bound = TRUE]
    /\ pvs' = [pvs EXCEPT ![c].phase = "Bound"]
    /\ UNCHANGED <<dirs, claimSide, volumeSide, faults, orphaned>>

Release(c) ==
    /\ ~claims[c].live
    /\ pvs[c] # NoPV /\ pvs[c].phase # "Released"
    /\ pvs' = [pvs EXCEPT ![c].phase = "Released"]
    /\ UNCHANGED <<claims, dirs, claimSide, volumeSide, faults, orphaned>>

(* An object with a deletion timestamp goes when its finalizers have gone. *)
Finalize(c) ==
    /\ pvs[c] # NoPV /\ pvs[c].deleting /\ ~pvs[c].finalizer
    /\ pvs' = [pvs EXCEPT ![c] = NoPV]
    /\ UNCHANGED <<claims, dirs, claimSide, volumeSide, faults, orphaned>>

-----------------------------------------------------------------------------
ClaimStep(x) ==
    \/ \E c \in Claims : StartClaim(x, c)
    \/ CheckVolume(x) \/ Provision(x) \/ SaveVolume(x) \/ CleanAsset(x)

VolumeStep(x) ==
    \/ \E c \in Claims : StartVolume(x, c)
    \/ RecheckVolume(x) \/ DeleteAsset(x) \/ DeletePV(x) \/ GetFinalizers(x)
    \/ RemoveFinalizer(x)

Background(n, c) ==
    \/ InformClaim(n, c) \/ InformVolume(n, c)
    \/ ClaimDelayOver(n, c) \/ VolumeDelayOver(n, c)

Next ==
    \/ \E x \in Nodes \X ClaimWorkers : ClaimStep(x)
    \/ \E x \in Nodes \X VolumeWorkers : VolumeStep(x)
    \/ \E n \in Nodes, c \in Claims :
         Background(n, c) \/ ResyncClaim(n, c) \/ ResyncVolume(n, c)
    \/ \E n \in Nodes : Crash(n)
    \/ \E c \in Claims :
         \/ \E n \in Nodes \cup {None} : CreateClaim(c, n)
         \/ \E n \in Nodes : SelectNode(c, n)
         \/ DeleteClaim(c) \/ Bind(c) \/ Release(c) \/ Finalize(c)

Spec == Init /\ [][Next]_vars

(* Threads, informers and timers keep running, the informers resync, and the
   API server and the PersistentVolume controller do their part.  Fairness of
   InformVolume is strong because MaxQueued may disable it now and then. *)
FairSpec ==
    /\ Spec
    /\ \A x \in Nodes \X ClaimWorkers : WF_vars(ClaimStep(x))
    /\ \A x \in Nodes \X VolumeWorkers : WF_vars(VolumeStep(x))
    /\ \A n \in Nodes, c \in Claims :
         /\ WF_vars(InformClaim(n, c)) /\ SF_vars(InformVolume(n, c))
         /\ WF_vars(ClaimDelayOver(n, c)) /\ WF_vars(VolumeDelayOver(n, c))
         /\ WF_vars(ResyncClaim(n, c)) /\ WF_vars(ResyncVolume(n, c))
    /\ \A c \in Claims : WF_vars(Bind(c)) /\ WF_vars(Release(c)) /\ WF_vars(Finalize(c))

-----------------------------------------------------------------------------
(* Properties *)

TypeOK ==
    /\ claims \in [Claims -> Claim]
    /\ pvs \in [Claims -> Volume \cup {NoPV}]
    /\ dirs \subseteq Nodes \X Claims
    /\ claimCache \in [Nodes -> [Claims -> Claim]]
    /\ pvCache \in [Nodes -> [Claims -> Volume \cup {NoPV}]]
    /\ \A n \in Nodes, c \in Claims :
         {claimQueue[n][c], volumeQueue[n][c]} \subseteq Entry
    /\ \A x \in Nodes \X ClaimWorkers :
         /\ cw[x].pc \in {"idle", "check", "provision", "save", "clean"}
         /\ cw[x].pc = "idle" <=> cw[x].key = None
         /\ cw[x].tries < CreateProvisionedPVRetryCount
    /\ \A x \in Nodes \X VolumeWorkers :
         /\ vw[x].pc \in {"idle", "check", "asset", "delete", "getPV", "update"}
         /\ vw[x].pc = "idle" <=> vw[x].key = None
         /\ vw[x].pc = "idle" <=> vw[x].vol = NoPV
    /\ faults \in 0..MaxFaults
    /\ orphaned \subseteq Nodes \X Claims

(* Two threads of a controller never work on the same claim, so that no two
   StoreVolume calls for one volume overlap (the claimQueue's promise that
   provisionClaimOperation relies on, controller.go:846-891). *)
OneWorkerPerClaim ==
    \A n \in Nodes : \A v, w \in ClaimWorkers :
        cw[<<n, v>>].key = cw[<<n, w>>].key /\ cw[<<n, v>>].key # None => v = w

(* The same for the threads that delete volumes. *)
OneWorkerPerVolume ==
    \A n \in Nodes : \A v, w \in VolumeWorkers :
        vw[<<n, v>>].key = vw[<<n, w>>].key /\ vw[<<n, v>>].key # None => v = w


(* A store that gives the save up has saved nothing: StoreVolume may return its
   error, and the claim is provisioned again (volume_store.go:206-241). *)
FailedSaveSavedNothing ==
    \A x \in Nodes \X ClaimWorkers : cw[x].pc = "clean" => pvs[cw[x].key] = NoPV

(* No directory is left without a PersistentVolume through which it will be
   deleted, except by a crash or when cleaning up has failed as well
   (volume_store.go:232-239 asks for manual deletion). *)
NoOrphan ==
    \A d \in dirs \ orphaned :
        \/ pvs[d[2]] # NoPV /\ pvs[d[2]].node = d[1]
        \/ \E w \in ClaimWorkers : /\ cw[<<d[1], w>>].key = d[2]
                                   /\ cw[<<d[1], w>>].pc \in {"save", "clean"}

Wanted(c) == \E n \in Nodes : claims[c].live /\ ~claims[c].bound /\ CorrectNode(n, claims[c])

(* A claim that a node should provision gets its volume, or is deleted: no
   event, retry or restart loses it as long as failures stay below the
   threshold. *)
ClaimProvisioned == \A c \in Claims : Wanted(c) ~> ~Wanted(c)

(* A released volume and its directory go away, or a stale claim has made the
   volume anew. *)
VolumeReclaimed ==
    \A c \in Claims : (pvs[c] # NoPV /\ pvs[c].phase = "Released")
                        ~> (pvs[c] = NoPV \/ pvs[c].phase # "Released")

=============================================================================
