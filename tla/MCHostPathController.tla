------------------------ MODULE MCHostPathController ------------------------
(* Small instances of HostPathController for TLC. *)
EXTENDS HostPathController, TLC

CONSTANTS p1, p2, v1, v2, v3, s1

Call(op, v, s, p) == [op |-> op, vol |-> v, snap |-> s, pool |-> p]

(* Two volumes and the calls on one snapshot name, of either volume. *)
SnapshotCalls ==
    { Call("CreateVolume", v1, None, p1), Call("CreateVolume", v2, None, p1),
      Call("DeleteVolume", v1, None, None),
      Call("CreateSnapshot", v1, s1, p1), Call("CreateSnapshot", v2, s1, p1),
      Call("DeleteSnapshot", None, s1, None),
      Call("ListSnapshots", None, None, None), Call("ListSnapshots", v1, None, None),
      Call("ListSnapshots", None, s1, None), Call("CreateSnapshot", v1, s1, None) }

(* Two pools, one of them with snapshots: v1 is snapshotted and restored into
   v2 in its own pool; restoring v3 into the other pool finds no provider. *)
RestoreCalls ==
    { Call("CreateVolume", v1, None, p1), Call("CreateVolume", v2, s1, p1),
      Call("CreateVolume", v3, s1, p2), Call("CreateVolume", v3, s1, None),
      Call("DeleteVolume", v2, None, None), Call("DeleteVolume", v3, None, None),
      Call("CreateSnapshot", v1, s1, p1), Call("DeleteSnapshot", None, s1, None) }

(* The calls that wait for snapMutex, and a volume to snapshot. *)
LockingCalls ==
    { Call("CreateVolume", v1, None, p1), Call("CreateVolume", v2, s1, p1),
      Call("CreateSnapshot", v1, s1, p1), Call("DeleteSnapshot", None, s1, None) }

HandlerSymmetry == Permutations(Handlers)
Rank1 == [p \in {p1} |-> 1]
Rank2 == (p1 :> 1) @@ (p2 :> 2)
=============================================================================
