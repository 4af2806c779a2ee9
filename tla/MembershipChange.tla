-------------------------- MODULE MembershipChange --------------------------
(***************************************************************************)
(* What the operator promises about the size of a deployment, whatever the *)
(* order of its API calls: a replica set of `cfg` voting processes in the  *)
(* automation config on `reps` StatefulSet replicas.                       *)
(*                                                                         *)
(* A new deployment is configured, then provisioned, at its full size.     *)
(* After that a replica is added before its member is, a member is removed *)
(* before its replica is, and the two never drift more than one apart.     *)
(***************************************************************************)
EXTENDS Integers

CONSTANTS Smallest, Largest   \* sizes a user may ask for

VARIABLES
  cfg,    \* members of the automation config; 0: no config yet
  reps    \* replicas of the StatefulSet; 0: no StatefulSet yet

members == <<cfg, reps>>

Configure == cfg = 0 /\ reps = 0 /\ cfg' \in Smallest..Largest /\ UNCHANGED reps

Provision == cfg # 0 /\ reps = 0 /\ reps' = cfg /\ UNCHANGED cfg

AddReplica ==
  reps = cfg /\ reps \in Smallest..(Largest - 1) /\ reps' = reps + 1 /\ UNCHANGED cfg

AddMember == reps # 0 /\ cfg < reps /\ cfg' = cfg + 1 /\ UNCHANGED reps

RemoveMember ==
  reps = cfg /\ cfg \in (Smallest + 1)..Largest /\ cfg' = cfg - 1 /\ UNCHANGED reps

RemoveReplica == reps # 0 /\ cfg < reps /\ reps' = reps - 1 /\ UNCHANGED cfg

MInit == cfg = 0 /\ reps = 0

MNext ==
  \/ Configure \/ Provision
  \/ AddReplica \/ AddMember
  \/ RemoveMember \/ RemoveReplica

MSpec == MInit /\ [][MNext]_members

-----------------------------------------------------------------------------
\* Once provisioned, the replica set has between Smallest and Largest replicas
\* and all of them, or all but the last, are members: the config never names a
\* member without a pod, nor leaves more than one pod idle.
InStep ==
  reps # 0 => /\ reps \in Smallest..Largest
              /\ cfg \in {reps - 1, reps} \ {0}
=============================================================================
