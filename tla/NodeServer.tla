------------------------------ MODULE NodeServer ------------------------------
(***************************************************************************)
(* The CSI node service (pkg/hostpath/nodeserver.go): NodePublishVolume    *)
(* bind-mounts a volume directory on the target path of a pod,             *)
(* NodeUnpublishVolume unmounts it and removes the target path; a volume   *)
(* that lives as long as its pod is created by the first and removed by    *)
(* the second.  The service takes no lock.  Calls run concurrently, one    *)
(* system call or mount command at a time; the plugin may crash, and the   *)
(* node reboot, between any two of them.                                   *)
(***************************************************************************)
EXTENDS Naturals, Sequences, SequencesExt

CONSTANTS
    Targets,      \* target paths, each made by kubelet for one pod and volume
    Pools,        \* the storage pools of the configuration
    PoolRank,     \* position of a pool's path in sort.Strings order
    DefaultPool,  \* cfg.DefaultStoragePoolName
    Volumes,      \* volume ids
    CsiPrefixed,  \* those that start with "csi"
    Files,        \* the files a pod may write
    Handlers,     \* concurrent gRPC calls
    Requests,     \* the calls kubelet may make
    Home,         \* the pool that holds a provisioned volume
    Serialized,   \* TRUE: kubelet has one call per target path at a time
    Faults,       \* TRUE: system calls fail, the plugin crashes, the node reboots
    None, Gone    \* no value; a directory that was removed while mounted

Publish == "NodePublishVolume"
Unpublish == "NodeUnpublishVolume"

(* pool is the storagePool of the volume context; it need not be configured. *)
Request == [op : {Publish, Unpublish}, vol : Volumes, target : Targets,
            pool : Pools \cup {None}, ephemeral : BOOLEAN, readonly : BOOLEAN]

Ephemeral == {r.vol : r \in {q \in Requests : q.op = Publish /\ q.ephemeral}}

ASSUME ConstantsAssumption ==
    /\ Requests \subseteq Request
    /\ PoolRank \in [Pools -> Nat]
    /\ \A p, q \in Pools : PoolRank[p] = PoolRank[q] => p = q
    /\ DefaultPool \in Pools
    /\ Home \in [Volumes \ Ephemeral -> Pools]
    /\ None \notin Pools
    /\ Serialized \in BOOLEAN
    /\ Faults \in BOOLEAN

VARIABLES
    dirs,       \* target paths that exist
    mounts,     \* target path -> bind mounts stacked on it, the last on top
    vols,       \* <<pool, volume>> -> the volume directory
    pc,         \* handler -> next step of its call
    req,        \* handler -> the call
    at,         \* handler -> volume directory os.RemoveAll is inside of
    published   \* <<target, volume>> reported published, not asked back since

callVars == <<pc, req, at>>
vars == <<dirs, mounts, vols, pc, req, at, published>>

VolumeDir == [dir : BOOLEAN, files : SUBSET Files]
NoVolume == [dir |-> FALSE, files |-> {}]
Mount == [src : (Pools \X Volumes) \cup {Gone}, ro : BOOLEAN]
NoRequest == [op |-> "none"]

Init ==
    /\ dirs = {}
    /\ mounts = [t \in Targets |-> <<>>]
    /\ \E F \in SUBSET Files :
         vols = [x \in Pools \X Volumes |->
                   IF x[2] \notin Ephemeral /\ Home[x[2]] = x[1]
                   THEN [dir |-> TRUE, files |-> F] ELSE NoVolume]
    /\ pc = [h \in Handlers |-> "idle"]
    /\ req = [h \in Handlers |-> NoRequest]
    /\ at = [h \in Handlers |-> None]
    /\ published = {}

Idle(h) == pc[h] \in {"idle", "ok", "err"}
Goto(h, step) == pc' = [pc EXCEPT ![h] = step]

Return(h, outcome) ==
    /\ Goto(h, outcome)
    /\ req' = [req EXCEPT ![h] = NoRequest]
    /\ at' = [at EXCEPT ![h] = None]

Calling(t, ops) == \E h \in Handlers : ~Idle(h) /\ req[h].target = t /\ req[h].op \in ops

(* kubelet learns that the volume is published, unless it has given the call
   up and is taking the volume back. *)
ReturnPublished(h) ==
    /\ Return(h, "ok")
    /\ published' = IF Calling(req[h].target, {Unpublish}) THEN published
                    ELSE published \cup {<<req[h].target, req[h].vol>>}

Mounted(t) == mounts[t] # <<>>

(* The directory to mount; only for an ephemeral volume is a pool that is not
   configured replaced by the default one. *)
Source(r) == <<IF r.ephemeral /\ r.pool \notin Pools THEN DefaultPool ELSE r.pool,
               r.vol>>
SourceExists(r) == Source(r) \in Pools \X Volumes /\ vols[Source(r)].dir

(* A removed directory stays behind the mounts made from it. *)
Detached(x) == [t \in Targets |-> [i \in DOMAIN mounts[t] |->
                  IF mounts[t][i].src = x THEN [mounts[t][i] EXCEPT !.src = Gone]
                  ELSE mounts[t][i]]]

-----------------------------------------------------------------------------
(* kubelet and the pods *)

Invoke(h, r) ==
    /\ Idle(h)
    /\ Serialized => ~Calling(r.target, {Publish, Unpublish})
    /\ Goto(h, "check")
    /\ req' = [req EXCEPT ![h] = r]
    /\ published' = IF r.op = Unpublish
                    THEN published \ {<<r.target, r.vol>>} ELSE published
    /\ UNCHANGED <<dirs, mounts, vols, at>>

PodWrite(t, f) ==
    /\ \E v \in Volumes : <<t, v>> \in published
    /\ Mounted(t)
    /\ LET m == Last(mounts[t])
       IN  /\ ~m.ro
           /\ m.src # Gone
           /\ vols' = [vols EXCEPT ![m.src].files = @ \cup {f}]
    /\ UNCHANGED <<dirs, mounts, callVars, published>>

-----------------------------------------------------------------------------
(* NodePublishVolume *)

(* Faulty variants: IsLikelyNotMountPoint, which does not see bind mounts; a
   directory that exists is taken for a mount. *)
CanMountVolumeLikely(h) ==
    /\ pc[h] = "check"
    /\ req[h].op = Publish
    /\ Goto(h, IF req[h].target \in dirs THEN "prepare" ELSE "mkdir")
    /\ UNCHANGED <<req, at, published, dirs, mounts, vols>>
CanMountVolumeIfAbsent(h) ==
    /\ pc[h] = "check"
    /\ req[h].op = Publish
    /\ IF req[h].target \in dirs
       THEN ReturnPublished(h)
       ELSE Goto(h, "mkdir") /\ UNCHANGED <<req, at, published>>
    /\ UNCHANGED <<dirs, mounts, vols>>

(* canMountVolume: anything mounted on the target counts as the volume. *)
CanMountVolume(h) ==
    /\ pc[h] = "check"
    /\ req[h].op = Publish
    /\ IF req[h].target \in dirs /\ Mounted(req[h].target)
       THEN ReturnPublished(h)
       ELSE /\ Goto(h, IF req[h].target \in dirs THEN "prepare" ELSE "mkdir")
            /\ UNCHANGED <<req, at, published>>
    /\ UNCHANGED <<dirs, mounts, vols>>

(* os.Mkdir fails when another call has made the target since the check. *)
MakeTarget(h) ==
    /\ pc[h] = "mkdir"
    /\ IF req[h].target \in dirs
       THEN Return(h, "err") /\ UNCHANGED dirs
       ELSE /\ dirs' = dirs \cup {req[h].target}
            /\ Goto(h, "prepare")
            /\ UNCHANGED <<req, at>>
    /\ UNCHANGED <<mounts, vols, published>>

(* CreateVolumeDirectory, for an ephemeral volume only. *)
PrepareSource(h) ==
    /\ pc[h] = "prepare"
    /\ vols' = IF req[h].ephemeral
               THEN [vols EXCEPT ![Source(req[h])].dir = TRUE] ELSE vols
    /\ Goto(h, "bind")
    /\ UNCHANGED <<dirs, mounts, req, at, published>>

(* The plugin dies, by itself or by a panic of one handler: every call is
   lost, directories and mounts stay. *)
PluginDies ==
    /\ pc' = [h \in Handlers |-> "idle"]
    /\ req' = [h \in Handlers |-> NoRequest]
    /\ at' = [h \in Handlers |-> None]
    /\ UNCHANGED <<dirs, mounts, vols, published>>

(* A failed mount: os.Stat of the target fills in the message, and a nil
   FileInfo panics when the target is gone; the directory of an ephemeral
   volume is removed. *)
MountFails(h) ==
    \/ /\ req[h].target \notin dirs
       /\ PluginDies
    \/ /\ req[h].target \in dirs
       /\ IF req[h].ephemeral
          THEN /\ Goto(h, "cleanup")
               /\ at' = [at EXCEPT ![h] = Source(req[h])]
               /\ UNCHANGED req
          ELSE Return(h, "err")
       /\ UNCHANGED <<dirs, mounts, vols, published>>

(* mount --bind; on a path that is a mount already the new one covers it. *)
Bind(h) ==
    /\ pc[h] = "bind"
    /\ \/ /\ req[h].target \in dirs
          /\ SourceExists(req[h])
          /\ mounts' = [mounts EXCEPT ![req[h].target] =
                          Append(@, [src |-> Source(req[h]), ro |-> FALSE])]
          /\ Goto(h, "remount")
          /\ UNCHANGED <<dirs, vols, req, at, published>>
       \/ /\ req[h].target \notin dirs \/ ~SourceExists(req[h])
          /\ MountFails(h)

(* mount -o remount,bind[,ro] sets the options of the mount on top. *)
Remount(h) ==
    /\ pc[h] = "remount"
    /\ \/ /\ Mounted(req[h].target)
          /\ LET t == req[h].target
             IN  mounts' = [mounts EXCEPT ![t][Len(mounts[t])].ro = req[h].readonly]
          /\ ReturnPublished(h)
          /\ UNCHANGED <<dirs, vols>>
       \/ /\ ~Mounted(req[h].target)
          /\ MountFails(h)

-----------------------------------------------------------------------------
(* NodeUnpublishVolume *)

(* Faulty variants: the mount is not recognised; nothing mounted, nothing done. *)
CheckTargetBlind(h) ==
    /\ pc[h] = "check"
    /\ req[h].op = Unpublish
    /\ Goto(h, "rmTarget")
    /\ UNCHANGED <<dirs, mounts, vols, req, at, published>>

CheckTargetStopsEarly(h) ==
    /\ pc[h] = "check"
    /\ req[h].op = Unpublish
    /\ IF req[h].target \in dirs /\ Mounted(req[h].target)
       THEN Goto(h, "unmount") /\ UNCHANGED <<req, at>>
       ELSE Return(h, "ok")
    /\ UNCHANGED <<dirs, mounts, vols, published>>

CheckTarget(h) ==
    /\ pc[h] = "check"
    /\ req[h].op = Unpublish
    /\ Goto(h, IF req[h].target \in dirs /\ Mounted(req[h].target)
               THEN "unmount" ELSE "rmTarget")
    /\ UNCHANGED <<dirs, mounts, vols, req, at, published>>

(* Takes away the mount on top only. *)
Unmount(h) ==
    /\ pc[h] = "unmount"
    /\ IF Mounted(req[h].target)
       THEN /\ mounts' = [mounts EXCEPT ![req[h].target] = Front(@)]
            /\ Goto(h, "rmTarget")
            /\ UNCHANGED <<req, at>>
       ELSE Return(h, "err") /\ UNCHANGED mounts
    /\ UNCHANGED <<dirs, vols, published>>

AfterTarget(h) ==
    IF req[h].vol \in CsiPrefixed
    THEN Goto(h, "find") /\ UNCHANGED <<req, at>>
    ELSE Return(h, "ok")

(* os.RemoveAll of the target: rmdir, and when that fails because something
   is still mounted there, down into the mounted directory. *)
RemoveTarget(h) ==
    /\ pc[h] = "rmTarget"
    /\ IF Mounted(req[h].target)
       THEN /\ Goto(h, "wipe")
            /\ at' = [at EXCEPT ![h] = Last(mounts[req[h].target]).src]
            /\ UNCHANGED <<dirs, req>>
       ELSE dirs' = dirs \ {req[h].target} /\ AfterTarget(h)
    /\ UNCHANGED <<mounts, vols, published>>

(* RemoveAll unlinks the files of the directory it is in one by one. *)
RemoveFile(h, f) ==
    /\ pc[h] \in {"wipe", "rmVolume", "cleanup"}
    /\ at[h] # Gone
    /\ f \in vols[at[h]].files
    /\ vols' = [vols EXCEPT ![at[h]].files = @ \ {f}]
    /\ UNCHANGED <<dirs, mounts, callVars, published>>

Emptied(h) == at[h] = Gone \/ vols[at[h]].files = {}

WipeEnds(h) ==
    /\ pc[h] = "wipe"
    /\ Emptied(h)
    /\ IF Mounted(req[h].target)
       THEN Return(h, "err") /\ UNCHANGED dirs
       ELSE dirs' = dirs \ {req[h].target} /\ AfterTarget(h)
    /\ UNCHANGED <<mounts, vols, published>>

(* Faulty variants: the volumePath # "" test is dropped; the default pool only. *)
FindEphemeralUnchecked(h) ==
    LET found == {p \in Pools : vols[<<p, req[h].vol>>].dir}
    IN  /\ pc[h] = "find"
        /\ at' = [at EXCEPT ![h] = IF found = {} THEN <<None, req[h].vol>>
                                   ELSE <<CHOOSE p \in found : TRUE, req[h].vol>>]
        /\ Goto(h, "rmVolume")
        /\ UNCHANGED <<req, dirs, mounts, vols, published>>
FindEphemeralInDefault(h) ==
    /\ pc[h] = "find"
    /\ IF vols[<<DefaultPool, req[h].vol>>].dir
       THEN /\ at' = [at EXCEPT ![h] = <<DefaultPool, req[h].vol>>]
            /\ Goto(h, "rmVolume")
            /\ UNCHANGED req
       ELSE Return(h, "ok")
    /\ UNCHANGED <<dirs, mounts, vols, published>>

(* removeEphemeralPath keeps the last match in path order over all pools. *)
FindEphemeral(h) ==
    LET found == {p \in Pools : vols[<<p, req[h].vol>>].dir}
    IN  /\ pc[h] = "find"
        /\ \/ /\ found = {}
              /\ Return(h, "ok")
           \/ \E p \in found :
                /\ \A q \in found : PoolRank[q] <= PoolRank[p]
                /\ at' = [at EXCEPT ![h] = <<p, req[h].vol>>]
                /\ Goto(h, "rmVolume")
                /\ UNCHANGED req
        /\ UNCHANGED <<dirs, mounts, vols, published>>

(* The end of RemoveAll on a volume: of an unpublished ephemeral one, or of
   one whose mount failed. *)
RemoveVolume(h) ==
    /\ pc[h] \in {"rmVolume", "cleanup"}
    /\ Emptied(h)
    /\ vols' = [vols EXCEPT ![at[h]] = NoVolume]
    /\ mounts' = Detached(at[h])
    /\ Return(h, IF pc[h] = "rmVolume" THEN "ok" ELSE "err")
    /\ UNCHANGED <<dirs, published>>

-----------------------------------------------------------------------------
(* Faults *)

(* Any system call or mount command may fail. *)
IoError(h) ==
    /\ Faults
    /\ ~Idle(h)
    /\ IF pc[h] \in {"bind", "remount"}
       THEN MountFails(h)
       ELSE Return(h, "err") /\ UNCHANGED <<dirs, mounts, vols, published>>

Crash == Faults /\ (\E h \in Handlers : ~Idle(h)) /\ PluginDies

(* Mounts do not survive a reboot; kubelet publishes again. *)
Reboot ==
    /\ Faults
    /\ \E t \in Targets : Mounted(t)
    /\ mounts' = [t \in Targets |-> <<>>]
    /\ pc' = [h \in Handlers |-> "idle"]
    /\ req' = [h \in Handlers |-> NoRequest]
    /\ at' = [h \in Handlers |-> None]
    /\ published' = {}
    /\ UNCHANGED <<dirs, vols>>

Step(h) ==
    \/ CanMountVolume(h) \/ MakeTarget(h) \/ PrepareSource(h)
    \/ Bind(h) \/ Remount(h)
    \/ CheckTarget(h) \/ Unmount(h) \/ RemoveTarget(h) \/ WipeEnds(h)
    \/ \E f \in Files : RemoveFile(h, f)
    \/ FindEphemeral(h) \/ RemoveVolume(h)

Next ==
    \/ \E h \in Handlers :
         \/ \E r \in Requests : Invoke(h, r)
         \/ Step(h)
         \/ IoError(h)
    \/ \E t \in Targets, f \in Files : PodWrite(t, f)
    \/ Crash
    \/ Reboot

Spec == Init /\ [][Next]_vars

TakeBack(t) == \E h \in Handlers, r \in Requests :
                  r.op = Unpublish /\ r.target = t /\ Invoke(h, r)

(* Handlers keep running; kubelet's reconciler takes a target of a pod that is
   gone back again and again. *)
FairSpec ==
    /\ Spec
    /\ \A h \in Handlers : WF_vars(Step(h))
    /\ \A t \in Targets : SF_vars(t \in dirs /\ TakeBack(t))

-----------------------------------------------------------------------------
(* Properties *)

TypeOK ==
    /\ dirs \subseteq Targets
    /\ DOMAIN mounts = Targets
    /\ \A t \in Targets : \A i \in DOMAIN mounts[t] : mounts[t][i] \in Mount
    /\ vols \in [Pools \X Volumes -> VolumeDir]
    /\ pc \in [Handlers -> {"idle", "ok", "err", "check", "mkdir", "prepare", "bind",
                            "remount", "unmount", "rmTarget", "wipe", "find",
                            "rmVolume", "cleanup"}]
    /\ req \in [Handlers -> Requests \cup {NoRequest}]
    /\ at \in [Handlers -> (Pools \X Volumes) \cup {Gone, None}]
    /\ published \subseteq Targets \X Volumes

(* Publishing again, after an error, a crash or a reboot, never stacks a second
   mount on a target (the IsNotMountPoint test of canMountVolume,
   nodeserver.go:106): unmounting once is enough. *)
OneMountPerTarget == \A t \in Targets : Len(mounts[t]) <= 1

(* A target that was reported published, and not asked back since, has its own
   volume mounted, whatever failed and was retried before; an ephemeral volume
   may have been removed under its mount by a failed remount
   (nodeserver.go:91-96, 152-166). *)
PublishedIsMounted ==
    \A w \in published :
        /\ Mounted(w[1])
        /\ LET src == Last(mounts[w[1]]).src
           IN  \/ src # Gone /\ src[2] = w[2]
               \/ src = Gone /\ w[2] \in Ephemeral

(* No step takes a file or the directory of a provisioned volume away:
   NodeUnpublishVolume removes "the mount point" (nodeserver.go:222), never
   what was mounted on it. *)
PersistentKept ==
    [][\A x \in Pools \X (Volumes \ Ephemeral) :
         /\ vols[x].dir => vols'[x].dir
         /\ vols[x].files \subseteq vols'[x].files]_vars

(* A NodeUnpublishVolume that succeeds leaves no target path, no mount and, of
   an ephemeral volume, no directory in any storage pool, although the request
   does not name the pool (nodeserver.go:198-254). *)
UnpublishCleans ==
    [][\A h \in Handlers :
         ~Idle(h) /\ req[h].op = Unpublish /\ pc'[h] = "ok" =>
           /\ req[h].target \notin dirs'
           /\ mounts'[req[h].target] = <<>>
           /\ req[h].vol \in Ephemeral
                => \A p \in Pools : ~vols'[<<p, req[h].vol>>].dir]_vars

(* A volume that was published with readonly set is mounted read-only
   (nodeserver.go:135-138). *)
PublishedReadonly ==
    [][\A h \in Handlers :
         ~Idle(h) /\ req[h].op = Publish /\ req[h].readonly /\ pc'[h] = "ok"
           => Last(mounts'[req[h].target]).ro]_vars

(* Whatever calls raced, and however many mounts they left on a target, once
   kubelet only takes targets back every target path goes away: an unpublish
   that fails on a covered mount has taken one mount off
   (nodeserver.go:209-226). *)
TargetsDrain ==
    <>[](\A h \in Handlers : Idle(h) \/ req[h].op = Unpublish)
      => <>[](dirs = {} /\ \A t \in Targets : ~Mounted(t))

=============================================================================
