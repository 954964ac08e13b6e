---------------------------- MODULE MCNodeServer ----------------------------
(* Small instances of NodeServer for TLC. *)
EXTENDS NodeServer, TLC

CONSTANTS p1, p2, pvc1, csi1, t1, t2, t3

Pub(v, t, p, e, ro) == [op |-> Publish, vol |-> v, target |-> t, pool |-> p,
                        ephemeral |-> e, readonly |-> ro]
Unpub(v, t) == [op |-> Unpublish, vol |-> v, target |-> t, pool |-> None,
                ephemeral |-> FALSE, readonly |-> FALSE]

(* A provisioned volume used by two pods, by one of them read-only and perhaps
   after its pool has left the configuration; the ephemeral volume of a third
   pod, not in the default pool. *)
PodCalls ==
    { Pub(pvc1, t1, p1, FALSE, FALSE), Pub(pvc1, t2, p1, FALSE, TRUE),
      Pub(pvc1, t2, None, FALSE, TRUE), Pub(csi1, t3, p2, TRUE, FALSE),
      Unpub(pvc1, t1), Unpub(pvc1, t2), Unpub(csi1, t3) }

(* A provisioned volume, and an ephemeral one that names no storage pool. *)
DrainCalls ==
    { Pub(pvc1, t1, p1, FALSE, FALSE), Pub(csi1, t2, None, TRUE, FALSE),
      Unpub(pvc1, t1), Unpub(csi1, t2) }

(* One pod. *)
OnePodCalls == { Pub(pvc1, t1, p1, FALSE, FALSE), Unpub(pvc1, t1) }
ReadonlyCalls == { Pub(pvc1, t1, p1, FALSE, TRUE), Unpub(pvc1, t1) }

HandlerSymmetry == Permutations(Handlers)
Rank1 == [p \in {p1} |-> 1]
Rank2 == (p1 :> 1) @@ (p2 :> 2)
Home1 == pvc1 :> p1
=============================================================================
