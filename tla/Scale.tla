------------------------------- MODULE Scale -------------------------------
(***************************************************************************)
(* pkg/util/scale: how many replicas a reconciliation configures, given    *)
(* the number recorded in the status (current; 0 for a new deployment) and *)
(* the number in the spec (desired).                                       *)
(***************************************************************************)
EXTENDS Integers

IsScalingDown(current, desired) == desired < current

IsScalingUp(current, desired) == desired > current /\ current # 0

\* Deliberately wrong: jumps to the desired size instead of moving by one.
Faulty_ReplicasJump(current, desired) == desired

\* Deliberately wrong: does not stop at the desired size.
Faulty_PastDesired(current, desired) ==
  IF current = 0 THEN desired
  ELSE IF IsScalingDown(current, desired) THEN current - 1
  ELSE current + 1

\* A new deployment goes straight to the desired size; an existing one moves
\* towards it by one.
ReplicasThisReconciliation(current, desired) ==
  IF current = 0 \/ current = desired THEN desired
  ELSE IF IsScalingDown(current, desired) THEN current - 1
  ELSE current + 1

IsStillScaling(current, desired) ==
  ReplicasThisReconciliation(current, desired) # desired
=============================================================================
