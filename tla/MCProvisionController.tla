------------------------ MODULE MCProvisionController ------------------------
(* Small instances of ProvisionController for TLC. *)
EXTENDS ProvisionController, TLC

NodeSymmetry == Permutations(Nodes)
ThreadSymmetry == Permutations(ClaimWorkers)
=============================================================================
