----------------------- MODULE MCReplicaSetController -----------------------
(* Instances of ReplicaSetController for TLC; the .cfg files choose the     *)
(* bounds, the edits and the faults.                                        *)
EXTENDS ReplicaSetController, TLC

\* Versions are only compared for equality.
VersionSymmetry == Permutations(Versions)
=============================================================================
