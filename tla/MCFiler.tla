------------------------------ MODULE MCFiler ------------------------------
(***************************************************************************)
(* IssueFiler on small instances for TLC.  Replicas are interchangeable.   *)
(***************************************************************************)
EXTENDS FilerRequirements, TLC

ReplicaSymmetry == Permutations(Replica)
=============================================================================
