----------------------------- MODULE Rollout_proofs -----------------------------
(***************************************************************************)
(* Proofs of what ReplicaSetController promises about the order in which   *)
(* templates, configs and pods change: the action properties               *)
(* TemplateBeforeConfig, NoNativeUpgrade, RemovedFromConfigFirst and       *)
(* GoalBeforeRunning.  Each theorem names the edits and faults it needs to *)
(* exclude.                                                                *)
(***************************************************************************)
EXTENDS ReplicaSetController_proofs

USE Zenon

-----------------------------------------------------------------------------
(* The template and the config *)

\* The edits and faults for which the pod template is never behind the config:
\* one edit at a time, of one thing, read back at once; no lost annotation while
\* versions change and no failed lookup while TLS is turned on.
TemplateFollows ==
  /\ ~InFlightEdits /\ ~StaleReads
  /\ "both" \notin EditKinds
  /\ "version" \in EditKinds => "annotate" \notin FaultKinds
  /\ "tls" \in EditKinds => "lookup" \notin FaultKinds

\* What a reconciliation knows of the resource, and what the resource records.
FetchedInv ==
  /\ DeployedInv
  /\ queued => pc = "idle"
  /\ pc \notin {"idle", "annotate"} => snap = mdb
  /\ pc = "annotate" => snap.version = mdb.version /\ snap.tls = mdb.tls
  /\ pc \notin {"idle", "failed"} => ValidSpec(snap)
  /\ pc = "annotate" \/ (pc = "idle" /\ ~queued) => mdb.currentMembers = mdb.members
  /\ mdb.currentMembers \in Sizes \cup {0}
  /\ mdb.lastVersion # NoVersion => mdb.currentMembers # 0
  /\ mdb.currentMembers # 0 \/ sts.replicas # 0 \/ StatefulSetDeployed => sts.exists
  /\ "annotate" \notin FaultKinds /\ pc = "idle" /\ ~queued =>
       mdb.lastVersion = mdb.version /\ mdb.lastTLS = mdb.tls

\* A template that is behind the spec is one that the version change under way
\* will replace; a config is pushed first only when the template is not behind.
TemplateInv ==
  /\ IsChangingVersion(mdb) => "version" \in EditKinds /\ mdb.currentMembers = mdb.members
  /\ sts.exists => sts.version = mdb.version \/ IsChangingVersion(mdb)
  /\ sts.exists /\ "tls" \notin EditKinds => sts.tls = mdb.tls
  /\ ~sts.exists => ~sts.tls
  /\ inOrder /\ pc \in {"readAC", "ensureAC", "agents", "writeSts", "stsStatus"} =>
       /\ ~IsChangingVersion(mdb)
       /\ mdb.currentMembers = 0 \/ NextSize <= mdb.currentMembers
       /\ sts.exists /\ mdb.tls => sts.tls
       /\ mdb.currentMembers # 0 /\ mdb.tls => "tls" \notin EditKinds
  /\ ~inOrder /\ pc \in {"readAC", "ensureAC", "agents", "writeSts", "stsStatus"} =>
       sts.exists

\* What an edit does, and when.
LEMMA EditEffect ==
  ASSUME ~InFlightEdits, ~StaleReads, TypeOK, EditSpec
  PROVE  /\ pc = "idle" /\ pc' = "idle" /\ ~queued /\ queued' = TRUE
         /\ mdb.phase = "Running"
         /\ UNCHANGED <<ac, sts, pods, inOrder, snap, curAC, target, stsFound>>
         /\ mdb'.currentMembers = mdb.currentMembers
         /\ mdb'.currentReplicas = mdb.currentReplicas
         /\ mdb'.lastVersion = mdb.lastVersion /\ mdb'.lastTLS = mdb.lastTLS
         /\ mdb'.members \in Sizes /\ mdb'.version \in Versions
         /\ Edits(mdb'.members, mdb'.version, mdb'.tls)
<1>1. PICK m \in Sizes, v \in Versions, t \in BOOLEAN :
        /\ Edits(m, v, t)
        /\ mdb' = [mdb EXCEPT !.members = m, !.version = v, !.tls = t,
                              !.gen = mdb.gen + 1]
  BY DEF EditSpec
<1>2. /\ mdb'.members = m /\ mdb'.version = v /\ mdb'.tls = t
      /\ mdb'.currentMembers = mdb.currentMembers
      /\ mdb'.currentReplicas = mdb.currentReplicas
      /\ mdb'.lastVersion = mdb.lastVersion /\ mdb'.lastTLS = mdb.lastTLS
  BY <1>1 DEF TypeOK, Resource
<1>3. Settled /\ queued' = TRUE
  BY DEF EditSpec
<1>4. UNCHANGED <<ac, sts, pods, pc, inOrder, snap, curAC, target, stsFound>>
  BY DEF EditSpec, locals
<1>5. pc = "idle" /\ ~queued /\ mdb.phase = "Running"
  BY <1>3 DEF Settled
<1>6. QED
  BY <1>1, <1>2, <1>3, <1>4, <1>5

\* A reconciliation that ends in an error leaves all objects alone.
LEMMA AbortStep ==
  ASSUME StatusError \/ AnnotateError \/ Crash
  PROVE  /\ UNCHANGED <<mdb, ac, sts, pods>> /\ Return
         /\ ~AnnotateError => queued' = TRUE
         /\ AnnotateError => "annotate" \in FaultKinds /\ pc = "annotate" /\ queued' = queued
BY DEF StatusError, AnnotateError, Crash, k8s

\* FetchedInv is inductive.
LEMMA FetchedStep ==
  ASSUME ~InFlightEdits, ~StaleReads, FetchedInv, [Next]_vars
  PROVE  FetchedInv'
<1>1. DeployedInv /\ DeployedInv' /\ TypeOK /\ TypeOK'
  BY DeployedStep, TypeStep DEF FetchedInv, DeployedInv, ConfigInv
<1> USE <1>1
<1>2. CASE Dequeue
  BY <1>2 DEF FetchedInv, Dequeue, SeenMdb, StatefulSetDeployed, k8s
<1>3. CASE Prepare \/ LookupError
  <2>1. /\ UNCHANGED <<mdb, ac, sts, pods, snap, queued>>
        /\ pc \notin {"idle", "annotate", "failed"} /\ pc' \in {"readAC", "writeSts"}
        /\ pc' = "readAC" => inOrder'
    BY <1>3 DEF Prepare, LookupError, k8s
  <2>2. QED
    BY <2>1 DEF FetchedInv, StatefulSetDeployed
<1>4. CASE ReadAutomationConfig \/ WaitForAgents \/ ApiError \/ TLSConfigNotValid
  <2>1. /\ UNCHANGED <<mdb, ac, sts, pods, snap, queued>>
        /\ pc \notin {"idle", "annotate", "failed"} /\ pc' \notin {"idle", "annotate"}
        /\ StatefulSetDeployed' => StatefulSetDeployed
    <3>1. CASE WaitForAgents
      <4>1. /\ UNCHANGED <<mdb, ac, sts, pods, snap, queued, inOrder>> /\ pc = "agents"
            /\ pc' \in {"agents", IF inOrder THEN "writeSts" ELSE "reset", "pending"}
        BY <3>1, AgentsEffect
      <4>2. CASE inOrder
        BY <4>1, <4>2 DEF StatefulSetDeployed
      <4>3. CASE ~inOrder
        BY <4>1, <4>3 DEF StatefulSetDeployed
      <4>4. QED
        BY <4>2, <4>3
    <3>2. CASE ~WaitForAgents
      BY SMT, <1>4, <3>2 DEF ReadAutomationConfig, ApiError, TLSConfigNotValid,
                             StatefulSetDeployed, k8s, locals
    <3>3. QED
      BY <3>1, <3>2
  <2>2. QED
    BY <2>1 DEF FetchedInv
<1>5. CASE CheckStatefulSet
  <2>1. /\ UNCHANGED <<mdb, ac, sts, pods, snap, queued>>
        /\ pc = "stsStatus" /\ pc' \notin {"idle", "annotate"}
    BY <1>5 DEF CheckStatefulSet, AfterStatefulSet, k8s, locals
  <2>2. StatefulSetDeployed
    BY <2>1 DEF StatefulSetDeployed
  <2>3. QED
    BY <2>1, <2>2 DEF FetchedInv
<1>6. CASE EnsureSecret
  <2>1. /\ UNCHANGED <<mdb, sts, pods, snap, queued, inOrder>>
        /\ pc = "ensureAC" /\ pc' \in {"agents", "failed"}
    BY <1>6 DEF EnsureSecret
  <2>2. QED
    BY <2>1 DEF FetchedInv, StatefulSetDeployed
<1>7. CASE CreateOrUpdateStatefulSet
  <2>1. /\ UNCHANGED <<mdb, ac, pods, snap, queued, inOrder>>
        /\ pc = "writeSts" /\ pc' = "stsStatus"
        /\ sts' = buildStatefulSet(sts, snap)
    BY <1>7 DEF CreateOrUpdateStatefulSet, SeenSts, locals
  <2>2. sts'.exists
    BY <2>1, BuiltStatefulSetType DEF TypeOK
  <2>3. QED
    BY <2>1, <2>2 DEF FetchedInv
<1>8. CASE ResetUpdateStrategy
  <2>1. /\ UNCHANGED <<mdb, ac, pods, snap, queued, inOrder>>
        /\ pc = "reset" /\ pc' \in {"status", "failed"}
    BY <1>8 DEF ResetUpdateStrategy, locals
  <2>2. sts'.exists = sts.exists
    BY <1>8 DEF ResetUpdateStrategy, TypeOK, StatefulSet
  <2>3. QED
    BY <2>1, <2>2 DEF FetchedInv, StatefulSetDeployed
<1>9. CASE UpdateStatus
  <2>1. snap = mdb /\ mdb \in Resource /\ pc = "status" /\ sts.exists
    BY <1>9 DEF UpdateStatus, FetchedInv, TypeOK, StatefulSetDeployed
  <2>2. PICK ph \in {"Pending", "Running"} :
          /\ mdb' = Scaled(mdb, ph)
          /\ ph = "Pending" => Return /\ queued' = TRUE
          /\ ph = "Running" => /\ StatefulSetReplicasThisReconciliation(mdb) = mdb.members
                               /\ pc' = "annotate" /\ snap' = snap /\ queued' = queued
          /\ sts' = sts
    BY <1>9, <2>1 DEF UpdateStatus, IsStillScaling, locals,
                      StatefulSetReplicasThisReconciliation
  <2>3. /\ mdb'.members = mdb.members /\ mdb'.version = mdb.version /\ mdb'.tls = mdb.tls
        /\ mdb'.currentMembers = AutomationConfigMembersThisReconciliation(mdb)
        /\ mdb'.currentReplicas = StatefulSetReplicasThisReconciliation(mdb)
    BY <2>1, <2>2, ScaledType
  <2>4. mdb'.lastVersion = mdb.lastVersion /\ mdb'.lastTLS = mdb.lastTLS
    BY <2>1, <2>2 DEF Scaled, Resource
  <2>5. mdb'.currentMembers # 0 /\ mdb'.currentMembers \in Sizes
    <3>1. mdb.members \in Sizes /\ mdb.currentMembers \in Sizes \cup {0}
      BY <2>1 DEF FetchedInv, Resource
    <3>2. QED
      BY SMT, <2>3, <3>1, NextSizeIs DEF AutomationConfigMembersThisReconciliation
  <2>6. mdb'.currentReplicas = mdb'.currentMembers
    BY DEF DeployedInv
  <2>7. CASE ph = "Pending"
    BY <2>1, <2>2, <2>3, <2>4, <2>5, <2>7 DEF FetchedInv, Return, StatefulSetDeployed
  <2>8. CASE ph = "Running"
    BY <2>1, <2>2, <2>3, <2>4, <2>5, <2>6, <2>8 DEF FetchedInv, StatefulSetDeployed
  <2>9. QED
    BY <2>2, <2>7, <2>8
<1>10. CASE GiveUp
  <2>1. /\ mdb'.members = mdb.members /\ mdb'.version = mdb.version /\ mdb'.tls = mdb.tls
        /\ mdb'.currentMembers = mdb.currentMembers
        /\ mdb'.lastVersion = mdb.lastVersion /\ mdb'.lastTLS = mdb.lastTLS
    BY <1>10 DEF TypeOK, GiveUp, Resource
  <2>2. pc' = "idle" /\ queued' = TRUE /\ sts' = sts
    BY <1>10 DEF GiveUp, Return
  <2>3. QED
    BY <2>1, <2>2 DEF FetchedInv, StatefulSetDeployed
<1>11. CASE Annotate
  <2>1. /\ mdb'.members = mdb.members /\ mdb'.version = mdb.version /\ mdb'.tls = mdb.tls
        /\ mdb'.currentMembers = mdb.currentMembers
        /\ mdb'.lastVersion = snap.version /\ mdb'.lastTLS = snap.tls
    BY <1>11 DEF TypeOK, Annotate, Resource
  <2>2. pc = "annotate" /\ pc' = "idle" /\ queued' = queued /\ sts' = sts
    BY <1>11 DEF Annotate, Return
  <2>3. mdb.currentMembers # 0
    <3>1. mdb.currentMembers = mdb.members
      BY <2>2 DEF FetchedInv
    <3>2. mdb.members \in Sizes
      BY DEF TypeOK, Resource
    <3>3. QED
      BY SMT, <3>1, <3>2, SizesAssumption DEF Sizes
  <2>4. QED
    BY <2>1, <2>2, <2>3 DEF FetchedInv, StatefulSetDeployed
<1>12. CASE StatusError \/ AnnotateError \/ Crash
  BY <1>12, AbortStep DEF FetchedInv, Return, StatefulSetDeployed
<1>13. CASE EditSpec
  BY <1>13, EditEffect DEF FetchedInv, StatefulSetDeployed
<1>14. CASE Informers \/ StatefulSetController \/ Agents \/ UNCHANGED vars
  BY SMT, <1>14, EnvironmentFrame DEF FetchedInv, StatefulSetDeployed
<1>15. QED
  BY <1>2, <1>3, <1>4, <1>5, <1>6, <1>7, <1>8, <1>9, <1>10, <1>11, <1>12, <1>13, <1>14
  DEF Next, Reconcile, Faults

\* The size this reconciliation moves to.
LEMMA NextSizeMoves ==
  ASSUME TypeOK, mdb.currentReplicas = mdb.currentMembers
  PROVE  /\ StatefulSetReplicasThisReconciliation(mdb) = NextSize
         /\ AutomationConfigMembersThisReconciliation(mdb) = NextSize
         /\ NextSize \in Nat /\ NextSize # 0 /\ NextSize <= MaxMembers
         /\ mdb.currentMembers \in Nat /\ mdb.members \in Nat /\ mdb.members # 0
         /\ mdb.currentMembers = 0 \/ mdb.currentMembers = mdb.members =>
              NextSize = mdb.members
         /\ mdb.currentMembers # 0 =>
              /\ NextSize \in {mdb.currentMembers - 1, mdb.currentMembers,
                               mdb.currentMembers + 1}
              /\ mdb.members < mdb.currentMembers => NextSize = mdb.currentMembers - 1
              /\ mdb.members > mdb.currentMembers => NextSize = mdb.currentMembers + 1
<1>1. mdb.members \in Sizes /\ mdb.currentMembers \in 0..MaxMembers
  BY DEF TypeOK, Resource
<1>2. /\ NextSize = ReplicasThisReconciliation(mdb.currentMembers, mdb.members)
      /\ StatefulSetReplicasThisReconciliation(mdb) = NextSize
  BY DEF NextSize, AutomationConfigMembersThisReconciliation,
         StatefulSetReplicasThisReconciliation
<1>3. QED
  BY SMT, <1>1, <1>2, SizesAssumption
  DEF NextSize, ReplicasThisReconciliation, IsScalingDown, Sizes

\* A step that leaves the spec, the status and the template alone.
LEMMA TemplateFrame ==
  ASSUME TemplateInv,
         mdb'.members = mdb.members, mdb'.version = mdb.version, mdb'.tls = mdb.tls,
         mdb'.currentMembers = mdb.currentMembers, mdb'.lastVersion = mdb.lastVersion,
         sts'.exists = sts.exists, sts'.version = sts.version, sts'.tls = sts.tls,
         \/ pc' \notin {"readAC", "ensureAC", "agents", "writeSts", "stsStatus"}
         \/ UNCHANGED <<pc, inOrder>>
         \/ /\ pc \in {"readAC", "ensureAC", "agents", "writeSts", "stsStatus"}
            /\ inOrder' = inOrder
  PROVE  TemplateInv'
<1>1. NextSize' = NextSize /\ (IsChangingVersion(mdb)' <=> IsChangingVersion(mdb))
  BY DEF NextSize, AutomationConfigMembersThisReconciliation, IsChangingVersion
<1>2. QED
  BY SMT, <1>1 DEF TemplateInv

\* TemplateInv is inductive.
LEMMA TemplateStep ==
  ASSUME TemplateFollows, FetchedInv, TemplateInv, [Next]_vars
  PROVE  TemplateInv'
<1>1. /\ ~InFlightEdits /\ ~StaleReads /\ DeployedInv /\ FetchedInv' /\ TypeOK /\ TypeOK'
      /\ mdb.currentReplicas = mdb.currentMembers
  BY FetchedStep, TypeStep DEF FetchedInv, DeployedInv, ConfigInv, TemplateFollows
<1> USE <1>1
<1>2. CASE Dequeue \/ ApiError \/ TLSConfigNotValid \/ AnnotateError \/ StatusError \/ Crash
  <2>1. UNCHANGED k8s /\ pc' \in {"idle", "prepare", "failed", "pending"}
    BY <1>2 DEF Dequeue, ApiError, TLSConfigNotValid, AnnotateError, StatusError, Crash, Return
  <2>2. QED
    BY <2>1, TemplateFrame DEF k8s
<1>3. CASE Prepare \/ LookupError
  <2>1. PICK found \in BOOLEAN :
          /\ found => sts.exists
          /\ ~found => ~sts.exists \/ "lookup" \in FaultKinds
          /\ mdb' = mdb /\ sts' = sts
          /\ inOrder' = shouldRunInOrder(mdb, found)
          /\ pc' = IF inOrder' THEN "readAC" ELSE "writeSts"
    <3>1. CASE Prepare
      BY <3>1 DEF Prepare, SeenSts, k8s, TypeOK, StatefulSet, FetchedInv
    <3>2. CASE LookupError
      BY <3>2 DEF LookupError, k8s, FetchedInv
    <3>3. QED
      BY <1>3, <3>1, <3>2
  <2>2. NextSize' = NextSize /\ (IsChangingVersion(mdb)' <=> IsChangingVersion(mdb))
    BY <2>1 DEF NextSize, AutomationConfigMembersThisReconciliation
  <2>3. ASSUME inOrder'
        PROVE  /\ ~IsChangingVersion(mdb)
               /\ mdb.currentMembers = 0 \/ NextSize <= mdb.currentMembers
               /\ sts.exists /\ mdb.tls => sts.tls
               /\ mdb.currentMembers # 0 /\ mdb.tls => "tls" \notin EditKinds
    <3>1. /\ ~(found /\ mdb.tls)
          /\ ~IsScalingUp(mdb.currentReplicas, mdb.members)
          /\ IsScalingDown(mdb.currentReplicas, mdb.members) \/ ~IsChangingVersion(mdb)
      BY <2>1, <2>3 DEF shouldRunInOrder
    <3>2. ~IsChangingVersion(mdb)
      BY SMT, <3>1, NextSizeMoves DEF TemplateInv, IsScalingDown
    <3>3. mdb.currentMembers = 0 \/ NextSize <= mdb.currentMembers
      BY SMT, <3>1, NextSizeMoves DEF IsScalingUp
    <3>4. sts.exists /\ mdb.tls => sts.tls
      BY <2>1, <3>1 DEF TemplateInv, TemplateFollows
    <3>5. mdb.currentMembers # 0 /\ mdb.tls => "tls" \notin EditKinds
      BY <2>1, <3>1 DEF FetchedInv, TemplateFollows
    <3>6. QED
      BY <3>2, <3>3, <3>4, <3>5
  <2>4. ASSUME ~inOrder'
        PROVE  sts.exists
    <3>1. \/ found /\ mdb.tls
          \/ IsScalingUp(mdb.currentReplicas, mdb.members)
          \/ IsChangingVersion(mdb)
      BY <2>1, <2>4 DEF shouldRunInOrder
    <3>2. QED
      BY <2>1, <3>1 DEF FetchedInv, IsScalingUp, IsChangingVersion
  <2>5. QED
    BY <2>1, <2>2, <2>3, <2>4 DEF TemplateInv
<1>4. CASE ReadAutomationConfig \/ WaitForAgents \/ CheckStatefulSet
  <2>1. /\ UNCHANGED <<mdb, sts, inOrder>> /\ pc \in {"readAC", "agents", "stsStatus"}
    BY <1>4 DEF ReadAutomationConfig, WaitForAgents, CheckStatefulSet, k8s, locals
  <2>2. QED
    BY <2>1, TemplateFrame
<1>5. CASE EnsureSecret
  <2>1. UNCHANGED <<mdb, sts, inOrder>> /\ pc = "ensureAC"
    BY <1>5 DEF EnsureSecret
  <2>2. QED
    BY <2>1, TemplateFrame
<1>6. CASE CreateOrUpdateStatefulSet
  <2>1. /\ mdb' = mdb /\ inOrder' = inOrder /\ pc = "writeSts" /\ pc' = "stsStatus"
        /\ sts' = buildStatefulSet(sts, mdb)
    BY <1>6 DEF CreateOrUpdateStatefulSet, SeenSts, locals, FetchedInv
  <2>2. sts'.exists /\ sts'.version = mdb.version /\ sts'.tls = (sts.tls \/ mdb.tls)
    BY <2>1, BuiltStatefulSetType DEF TypeOK
  <2>3. NextSize' = NextSize /\ (IsChangingVersion(mdb)' <=> IsChangingVersion(mdb))
    BY <2>1 DEF NextSize, AutomationConfigMembersThisReconciliation
  <2>4. "tls" \notin EditKinds => sts'.tls = mdb.tls
    <3>1. sts.tls \in BOOLEAN /\ mdb.tls \in BOOLEAN
      BY DEF TypeOK, StatefulSet, Resource
    <3>2. "tls" \notin EditKinds /\ sts.tls => mdb.tls
      BY DEF TemplateInv
    <3>3. QED
      BY <2>2, <3>1, <3>2
  <2>5. QED
    BY <2>1, <2>2, <2>3, <2>4 DEF TemplateInv
<1>7. CASE ResetUpdateStrategy
  <2>1. mdb' = mdb /\ pc' \in {"status", "failed"}
    BY <1>7 DEF ResetUpdateStrategy
  <2>2. sts'.exists = sts.exists /\ sts'.version = sts.version /\ sts'.tls = sts.tls
    BY <1>7 DEF ResetUpdateStrategy, TypeOK, StatefulSet
  <2>3. QED
    BY <2>1, <2>2, TemplateFrame
<1>8. CASE UpdateStatus
  <2>1. snap = mdb /\ mdb \in Resource /\ pc = "status"
    BY <1>8 DEF UpdateStatus, FetchedInv, TypeOK
  <2>2. PICK ph \in {"Pending", "Running"} :
          mdb' = Scaled(mdb, ph) /\ sts' = sts /\ pc' \in {"idle", "annotate"}
    BY <1>8, <2>1 DEF UpdateStatus, Return
  <2>3. /\ mdb'.members = mdb.members /\ mdb'.version = mdb.version /\ mdb'.tls = mdb.tls
        /\ mdb'.currentMembers = NextSize
    BY <2>1, <2>2, ScaledType DEF NextSize
  <2>4. mdb'.lastVersion = mdb.lastVersion
    BY <2>1, <2>2 DEF Scaled, Resource
  <2>5. sts.version = mdb.version
    BY <2>1 DEF DeployedInv, StatefulSetDeployed, StatefulSetMatches
  <2>6. IsChangingVersion(mdb') <=> IsChangingVersion(mdb)
    BY <2>3, <2>4 DEF IsChangingVersion
  <2>7. IsChangingVersion(mdb) => "version" \in EditKinds /\ NextSize = mdb.members
    BY NextSizeMoves DEF TemplateInv
  <2>8. QED
    BY <2>2, <2>3, <2>5, <2>6, <2>7 DEF TemplateInv
<1>9. CASE GiveUp
  <2>1. /\ mdb'.members = mdb.members /\ mdb'.version = mdb.version /\ mdb'.tls = mdb.tls
        /\ mdb'.currentMembers = mdb.currentMembers
        /\ mdb'.lastVersion = mdb.lastVersion
    BY <1>9 DEF TypeOK, GiveUp, Resource
  <2>2. sts' = sts /\ pc' = "idle"
    BY <1>9 DEF GiveUp, Return
  <2>3. QED
    BY <2>1, <2>2, TemplateFrame
<1>10. CASE Annotate
  <2>1. /\ mdb'.members = mdb.members /\ mdb'.version = mdb.version /\ mdb'.tls = mdb.tls
        /\ mdb'.lastVersion = snap.version
    BY <1>10 DEF TypeOK, Annotate, Resource
  <2>2. pc = "annotate" /\ pc' = "idle" /\ sts' = sts
    BY <1>10 DEF Annotate, Return
  <2>3. sts.version = mdb.version /\ snap.version = mdb.version
    BY <2>2 DEF DeployedInv, FetchedInv, Matches
  <2>4. ~IsChangingVersion(mdb')
    BY <2>1, <2>3 DEF IsChangingVersion
  <2>5. QED
    BY <2>1, <2>2, <2>3, <2>4 DEF TemplateInv
<1>11. CASE EditSpec
  <2>1. /\ pc = "idle" /\ pc' = "idle" /\ ~queued /\ sts' = sts
        /\ mdb'.currentMembers = mdb.currentMembers
        /\ mdb'.lastVersion = mdb.lastVersion /\ mdb'.version \in Versions
        /\ Edits(mdb'.members, mdb'.version, mdb'.tls)
    BY <1>11, EditEffect
  <2>2. /\ sts.version = mdb.version /\ mdb.currentMembers = mdb.members
        /\ mdb.version # NoVersion
    BY <2>1, ConstantsAssumption DEF DeployedInv, FetchedInv, Matches, TypeOK, Resource
  <2>3. "version" \in EditKinds => mdb.lastVersion = mdb.version
    BY <2>1 DEF FetchedInv, TemplateFollows
  <2>4. CASE mdb'.version = mdb.version
    <3>1. IsChangingVersion(mdb') <=> IsChangingVersion(mdb)
      BY <2>1, <2>4 DEF IsChangingVersion
    <3>2. ~IsChangingVersion(mdb)
      BY <2>3 DEF IsChangingVersion, TemplateInv
    <3>3. "tls" \notin EditKinds => mdb'.tls = mdb.tls
      BY <2>1 DEF Edits
    <3>4. QED
      BY <2>1, <2>2, <2>4, <3>1, <3>2, <3>3 DEF TemplateInv
  <2>5. CASE mdb'.version # mdb.version
    <3>1. "version" \in EditKinds /\ mdb'.members = mdb.members /\ mdb'.tls = mdb.tls
      BY <2>1, <2>5 DEF Edits, TemplateFollows
    <3>2. IsChangingVersion(mdb')
      BY <2>1, <2>2, <2>3, <2>5, <3>1 DEF IsChangingVersion
    <3>3. QED
      BY <2>1, <2>2, <3>1, <3>2 DEF TemplateInv
  <2>6. QED
    BY <2>4, <2>5
<1>12. CASE Informers \/ StatefulSetController \/ Agents \/ UNCHANGED vars
  <2>1. /\ UNCHANGED <<mdb, pc, inOrder>>
        /\ sts'.exists = sts.exists /\ sts'.version = sts.version /\ sts'.tls = sts.tls
    BY <1>12, EnvironmentFrame
  <2>2. QED
    BY <2>1, TemplateFrame
<1>13. QED
  BY <1>2, <1>3, <1>4, <1>5, <1>6, <1>7, <1>8, <1>9, <1>10, <1>11, <1>12
  DEF Next, Reconcile, Faults

\* A new resource.
LEMMA NewResource ==
  ASSUME Init
  PROVE  /\ mdb.currentMembers = 0 /\ mdb.lastVersion = NoVersion /\ mdb.lastTLS = FALSE
         /\ ac = NoAC /\ sts = NoSts /\ pc = "idle" /\ queued
         /\ pods = [i \in Ordinals |-> NoPod]
<1>1. PICK m \in Sizes, v \in InitVersions, t \in InitTLS :
        mdb = [members |-> m, version |-> v, tls |-> t, gen |-> 0,
               currentMembers |-> 0, currentReplicas |-> 0, phase |-> "",
               lastVersion |-> NoVersion, lastTLS |-> FALSE]
  BY DEF Init
<1>2. QED
  BY <1>1 DEF Init

LEMMA TemplateInit ==
  ASSUME Init
  PROVE  FetchedInv /\ TemplateInv
BY SMT, NewResource, DeployedInit
DEF FetchedInv, TemplateInv, NoSts, IsChangingVersion, StatefulSetDeployed

\* The config that EnsureSecret writes fits the template.
LEMMA ConfigFitsTemplate ==
  ASSUME ~StaleReads, FetchedInv, TemplateInv, [Next]_vars, ac' # ac, sts.exists
  PROVE  sts.version = ac'.mongodb /\ (ac'.tls => sts.tls)
<1>1. EnsureSecret
  <2>1. CASE EditSpec
    BY <2>1 DEF EditSpec
  <2>2. CASE Informers \/ StatefulSetController \/ Agents \/ UNCHANGED vars
    BY <2>2, EnvironmentFrame DEF FetchedInv, DeployedInv, ConfigInv
  <2>3. CASE Faults
    BY <2>3 DEF Faults, ApiError, LookupError, TLSConfigNotValid, StatusError,
                AnnotateError, Crash, k8s
  <2>4. CASE Reconcile
    BY <2>4 DEF Reconcile, Dequeue, Prepare, ReadAutomationConfig, WaitForAgents,
                CreateOrUpdateStatefulSet, CheckStatefulSet, ResetUpdateStrategy,
                UpdateStatus, GiveUp, Annotate, k8s
  <2>5. QED
    BY <2>1, <2>2, <2>3, <2>4 DEF Next
<1>2. /\ pc = "ensureAC" /\ snap = mdb /\ curAC = ac
      /\ mdb \in Resource /\ ac \in AutomationConfig
  BY <1>1 DEF EnsureSecret, FetchedInv, DeployedInv, ConfigInv, TypeOK
<1>3. ac' = buildAutomationConfig(ac, mdb)
  BY <1>1, <1>2 DEF EnsureSecret
<1>4. ac'.mongodb = mdb.version /\ ac'.tls = mdb.tls
  BY <1>2, <1>3, BuiltConfigType
<1>5. CASE inOrder
  BY <1>2, <1>4, <1>5 DEF TemplateInv
<1>6. CASE ~inOrder
  BY <1>2, <1>4, <1>6 DEF FetchedInv, DeployedInv, StatefulSetDeployed, StatefulSetMatches
<1>7. QED
  BY <1>5, <1>6

\* TemplateBeforeConfig: with edits made one at a time, of one thing each, no
\* config is published that the existing template's pods could not apply,
\* whatever else fails and whenever the operator restarts.
THEOREM TemplateFirst == TemplateFollows => (Spec => TemplateBeforeConfig)
<1>1. SUFFICES ASSUME TemplateFollows
               PROVE  Spec => TemplateBeforeConfig
  OBVIOUS
<1>2. Init => FetchedInv /\ TemplateInv
  BY TemplateInit
<1>3. FetchedInv /\ TemplateInv /\ [Next]_vars => (FetchedInv /\ TemplateInv)'
  BY <1>1, FetchedStep, TemplateStep DEF TemplateFollows
<1>4. FetchedInv /\ TemplateInv /\ [Next]_vars =>
        [ac' # ac /\ sts.exists =>
           /\ sts.version = ac'.mongodb
           /\ ac'.tls => sts.tls]_vars
  BY <1>1, ConfigFitsTemplate DEF TemplateFollows
<1>5. QED
  BY <1>2, <1>3, <1>4, PTL DEF Spec, TemplateBeforeConfig

-----------------------------------------------------------------------------
(* The config, the template and the sizes *)

\* The same, and TLS is never turned off: the annotation that forbids it is
\* not lost.
RolloutFollows ==
  /\ TemplateFollows
  /\ "tls" \in EditKinds => "annotate" \notin FaultKinds

\* How the config, the template and the sizes relate.
RolloutInv ==
  /\ mdb.currentMembers # 0 =>
       /\ sts.replicas \in {mdb.currentMembers, NextSize}
       /\ ac.members \in {mdb.currentMembers, NextSize}
  /\ IsChangingVersion(mdb) =>
       /\ sts.replicas = mdb.members /\ ac.members = mdb.members
       /\ sts.tls = mdb.tls /\ ac.tls = mdb.tls
  /\ sts.exists /\ sts.tls /\ ~mdb.tls => ~ValidSpec(mdb)
  /\ ac.members # 0 /\ ac.tls /\ ~mdb.tls => ~ValidSpec(mdb)
  /\ ac.members # 0 /\ sts.exists /\ ac.tls => sts.tls
  /\ ac.members # 0 /\ "tls" \notin EditKinds => ac.tls = mdb.tls
  /\ ac.members # 0 => ac.mongodb = mdb.version \/ IsChangingVersion(mdb)
  /\ sts.strategy = "OnDelete" => IsChangingVersion(mdb)
  /\ sts.exists /\ ac.members # 0 /\ sts.strategy = "RollingUpdate" =>
       sts.version = ac.mongodb
  /\ pc = "ensureAC" => stsFound = sts.exists
  /\ pc = "agents" => (sts.exists => stsFound) /\ target = ac.version
  /\ pc = "annotate" => ValidSpec(mdb)

\* A step that leaves the spec, the status, the config and the spec of the
\* StatefulSet alone.
LEMMA RolloutFrame ==
  ASSUME RolloutInv,
         mdb'.members = mdb.members, mdb'.version = mdb.version, mdb'.tls = mdb.tls,
         mdb'.currentMembers = mdb.currentMembers,
         mdb'.lastVersion = mdb.lastVersion, mdb'.lastTLS = mdb.lastTLS, ac' = ac,
         sts'.exists = sts.exists, sts'.replicas = sts.replicas,
         sts'.version = sts.version, sts'.tls = sts.tls, sts'.strategy = sts.strategy,
         pc' \notin {"ensureAC", "agents", "annotate"} \/ UNCHANGED <<pc, stsFound, target>>
  PROVE  RolloutInv'
<1>1. /\ NextSize' = NextSize
      /\ IsChangingVersion(mdb)' <=> IsChangingVersion(mdb)
      /\ ValidSpec(mdb)' <=> ValidSpec(mdb)
  BY DEF NextSize, AutomationConfigMembersThisReconciliation, IsChangingVersion, ValidSpec
<1>2. QED
  BY SMT, <1>1 DEF RolloutInv

\* The TLS settings stay in the StatefulSet, but a validated spec still has TLS.
LEMMA SameAsValid ==
  ASSUME TypeOK, TemplateInv, RolloutInv, ValidSpec(mdb)
  PROVE  sts.tls => mdb.tls
BY DEF TemplateInv, RolloutInv

\* Between edits the StatefulSet has TLS exactly when the spec has.
LEMMA SettledTLS ==
  ASSUME RolloutFollows, FetchedInv, TemplateInv, RolloutInv,
         pc = "idle", ~queued, sts.exists
  PROVE  sts.tls = mdb.tls
<1>1. CASE "tls" \notin EditKinds
  BY <1>1 DEF TemplateInv
<1>2. CASE "tls" \in EditKinds
  <2>1. mdb.lastTLS = mdb.tls /\ Matches /\ TypeOK
    BY <1>2 DEF FetchedInv, RolloutFollows, DeployedInv, ConfigInv
  <2>2. ValidSpec(mdb)
    BY <2>1 DEF ValidSpec
  <2>3. sts.tls \in BOOLEAN /\ mdb.tls \in BOOLEAN
    BY <2>1 DEF TypeOK, StatefulSet, Resource
  <2>4. QED
    BY <2>1, <2>2, <2>3, SameAsValid DEF Matches
<1>3. QED
  BY <1>1, <1>2

LEMMA BuiltFromValid ==
  ASSUME TypeOK, TemplateInv, RolloutInv, ValidSpec(mdb)
  PROVE  /\ buildStatefulSet(sts, mdb).exists
         /\ buildStatefulSet(sts, mdb).version = mdb.version
         /\ buildStatefulSet(sts, mdb).tls = mdb.tls
         /\ buildStatefulSet(sts, mdb).replicas = StatefulSetReplicasThisReconciliation(mdb)
         /\ buildStatefulSet(sts, mdb).strategy = GetUpdateStrategyType(mdb)
<1>1. /\ buildStatefulSet(sts, mdb).exists
      /\ buildStatefulSet(sts, mdb).version = mdb.version
      /\ buildStatefulSet(sts, mdb).tls = (sts.tls \/ mdb.tls)
      /\ buildStatefulSet(sts, mdb).replicas = StatefulSetReplicasThisReconciliation(mdb)
      /\ buildStatefulSet(sts, mdb).strategy = GetUpdateStrategyType(mdb)
  BY BuiltStatefulSetType DEF TypeOK
<1>2. (sts.tls \/ mdb.tls) = mdb.tls
  <2>1. sts.tls \in BOOLEAN /\ mdb.tls \in BOOLEAN
    BY DEF TypeOK, StatefulSet, Resource
  <2>2. QED
    BY <2>1, SameAsValid
<1>3. QED
  BY <1>1, <1>2

\* RolloutInv is inductive.
LEMMA RolloutStep ==
  ASSUME RolloutFollows, FetchedInv, TemplateInv, RolloutInv, [Next]_vars
  PROVE  RolloutInv'
<1>1. /\ TemplateFollows /\ ~InFlightEdits /\ ~StaleReads
      /\ DeployedInv /\ DeployedInv' /\ FetchedInv' /\ TypeOK /\ TypeOK'
      /\ mdb.currentReplicas = mdb.currentMembers
  BY FetchedStep, TypeStep
  DEF FetchedInv, DeployedInv, ConfigInv, TemplateFollows, RolloutFollows
<1>2. TemplateInv'
  BY <1>1, TemplateStep
<1> USE <1>1
<1>14. CASE WaitForAgents
  <2>1. UNCHANGED <<mdb, ac, sts>>
    BY <1>14, AgentsEffect
  <2>2. pc' \notin {"ensureAC", "agents", "annotate"} \/ UNCHANGED <<pc, stsFound, target>>
    BY <1>14 DEF WaitForAgents, AllReachedGoalState, AfterAutomationConfig
  <2>3. QED
    BY <2>1, <2>2, RolloutFrame
<1>3. CASE \/ Dequeue \/ Prepare \/ LookupError \/ CheckStatefulSet
           \/ ApiError \/ TLSConfigNotValid \/ AnnotateError \/ StatusError \/ Crash
  <2>1. UNCHANGED k8s /\ pc' \notin {"ensureAC", "agents", "annotate"}
    BY <1>3 DEF Dequeue, Prepare, LookupError, CheckStatefulSet, ApiError,
                TLSConfigNotValid, AnnotateError, StatusError, Crash, Return,
                AfterStatefulSet
  <2>2. QED
    BY <2>1, RolloutFrame DEF k8s
<1>4. CASE ReadAutomationConfig
  <2>1. UNCHANGED <<mdb, ac, sts>> /\ pc' = "ensureAC" /\ stsFound' = sts.exists
    BY <1>4 DEF ReadAutomationConfig, SeenSts, k8s
  <2>2. /\ NextSize' = NextSize
        /\ IsChangingVersion(mdb)' <=> IsChangingVersion(mdb)
        /\ ValidSpec(mdb)' <=> ValidSpec(mdb)
    BY <2>1 DEF NextSize, AutomationConfigMembersThisReconciliation
  <2>3. QED
    BY <2>1, <2>2 DEF RolloutInv
<1>5. CASE EnsureSecret
  <2>1. /\ UNCHANGED <<mdb, sts, stsFound>>
        /\ pc = "ensureAC" /\ pc' = "agents" /\ target' = ac'.version
        /\ snap = mdb /\ snap' = mdb
    BY <1>5 DEF EnsureSecret, SeenAC, FetchedInv, DeployedInv, ConfigInv
  <2>2. /\ NextSize' = NextSize
        /\ IsChangingVersion(mdb)' <=> IsChangingVersion(mdb)
        /\ ValidSpec(mdb)' <=> ValidSpec(mdb)
    BY <2>1 DEF NextSize, AutomationConfigMembersThisReconciliation
  <2>3. ac'.members = NextSize /\ ac'.mongodb = mdb.version /\ ac'.tls = mdb.tls
    BY <2>1, <2>2 DEF DeployedInv, ConfigDeployed, ConfigMatches, NextSize
  <2>4. NextSize # 0 /\ (IsChangingVersion(mdb) => NextSize = mdb.members)
    BY NextSizeMoves DEF TemplateInv
  <2>5. sts.exists /\ ac' # ac => sts.version = ac'.mongodb /\ (ac'.tls => sts.tls)
    BY ConfigFitsTemplate
  <2>6. sts.exists /\ ac'.tls => sts.tls
    BY <2>3, <2>4, <2>5 DEF RolloutInv
  <2>7. sts.exists /\ sts.strategy = "RollingUpdate" => sts.version = ac'.mongodb
    BY <2>3, <2>4, <2>5 DEF RolloutInv
  <2>8. (sts.exists => stsFound)'
    BY <2>1 DEF RolloutInv
  <2>9. QED
    BY <2>1, <2>2, <2>3, <2>4, <2>6, <2>7, <2>8 DEF RolloutInv
<1>6. CASE CreateOrUpdateStatefulSet
  <2>1. /\ mdb' = mdb /\ ac' = ac /\ pc = "writeSts" /\ pc' = "stsStatus"
        /\ sts' = buildStatefulSet(sts, mdb) /\ ValidSpec(mdb)
    BY <1>6 DEF CreateOrUpdateStatefulSet, SeenSts, FetchedInv
  <2>2. /\ sts'.exists /\ sts'.version = mdb.version /\ sts'.tls = mdb.tls
        /\ sts'.replicas = NextSize /\ sts'.strategy = GetUpdateStrategyType(mdb)
    BY <2>1, BuiltFromValid, NextSizeMoves
  <2>3. /\ NextSize' = NextSize
        /\ IsChangingVersion(mdb)' <=> IsChangingVersion(mdb)
        /\ ValidSpec(mdb)' <=> ValidSpec(mdb)
    BY <2>1 DEF NextSize, AutomationConfigMembersThisReconciliation
  <2>4. IsChangingVersion(mdb) => NextSize = mdb.members
    BY NextSizeMoves DEF TemplateInv
  <2>5. sts'.strategy = "OnDelete" <=> IsChangingVersion(mdb)
    BY <2>2 DEF GetUpdateStrategyType
  <2>6. sts'.strategy = "RollingUpdate" <=> ~IsChangingVersion(mdb)
    BY <2>2 DEF GetUpdateStrategyType
  <2>7. QED
    BY <2>1, <2>2, <2>3, <2>4, <2>5, <2>6 DEF RolloutInv
<1>7. CASE ResetUpdateStrategy
  <2>1. mdb' = mdb /\ ac' = ac /\ pc = "reset" /\ pc' \in {"status", "failed"} /\ snap = mdb
    BY <1>7 DEF ResetUpdateStrategy, FetchedInv
  <2>2. /\ sts'.exists = sts.exists /\ sts'.version = sts.version /\ sts'.tls = sts.tls
        /\ sts'.replicas = sts.replicas /\ sts'.strategy \in {"RollingUpdate", sts.strategy}
    BY <1>7 DEF ResetUpdateStrategy, TypeOK, StatefulSet
  <2>3. sts.version = ac.mongodb
    BY <2>1 DEF DeployedInv, ConfigDeployed, StatefulSetDeployed, ConfigMatches,
                StatefulSetMatches
  <2>4. /\ NextSize' = NextSize
        /\ IsChangingVersion(mdb)' <=> IsChangingVersion(mdb)
        /\ ValidSpec(mdb)' <=> ValidSpec(mdb)
    BY <2>1 DEF NextSize, AutomationConfigMembersThisReconciliation
  <2>5. QED
    BY <2>1, <2>2, <2>3, <2>4 DEF RolloutInv
<1>8. CASE UpdateStatus
  <2>1. snap = mdb /\ mdb \in Resource /\ pc = "status"
    BY ZenonT(30), <1>8 DEF UpdateStatus, FetchedInv, TypeOK
  <2>2. PICK ph \in {"Pending", "Running"} :
          mdb' = Scaled(mdb, ph) /\ ac' = ac /\ sts' = sts /\ pc' \in {"idle", "annotate"}
    BY <1>8, <2>1 DEF UpdateStatus, Return
  <2>3. /\ mdb'.members = mdb.members /\ mdb'.version = mdb.version /\ mdb'.tls = mdb.tls
        /\ mdb'.currentMembers = NextSize
    BY <2>1, <2>2, ScaledType DEF NextSize
  <2>4. mdb'.lastVersion = mdb.lastVersion /\ mdb'.lastTLS = mdb.lastTLS
    BY <2>1, <2>2 DEF Scaled, Resource
  <2>9. /\ sts.version = mdb.version /\ (mdb.tls => sts.tls) /\ sts.replicas = NextSize
        /\ ac.mongodb = mdb.version /\ ac.tls = mdb.tls /\ ac.members = NextSize
        /\ sts.strategy = "RollingUpdate" /\ ValidSpec(mdb)
    BY <2>1, NextSizeMoves DEF DeployedInv, ConfigDeployed, StatefulSetDeployed,
                               ConfigMatches, StatefulSetMatches, FetchedInv
  <2>5. /\ sts.version = mdb.version /\ sts.tls = mdb.tls /\ sts.replicas = NextSize
        /\ ac.mongodb = mdb.version /\ ac.tls = mdb.tls /\ ac.members = NextSize
        /\ sts.strategy = "RollingUpdate" /\ ValidSpec(mdb)
    <3>1. sts.tls \in BOOLEAN /\ mdb.tls \in BOOLEAN
      BY DEF TypeOK, StatefulSet, Resource
    <3>2. QED
      BY <2>9, <3>1, SameAsValid
  <2>6. /\ IsChangingVersion(mdb)' <=> IsChangingVersion(mdb)
        /\ ValidSpec(mdb)' <=> ValidSpec(mdb)
    BY <2>3, <2>4 DEF IsChangingVersion, ValidSpec
  <2>7. IsChangingVersion(mdb) => NextSize = mdb.members
    BY NextSizeMoves DEF TemplateInv
  <2>8. QED
    BY ZenonT(30), <2>2, <2>3, <2>5, <2>6, <2>7 DEF RolloutInv
<1>9. CASE GiveUp
  <2>1. /\ mdb'.members = mdb.members /\ mdb'.version = mdb.version /\ mdb'.tls = mdb.tls
        /\ mdb'.currentMembers = mdb.currentMembers
        /\ mdb'.lastVersion = mdb.lastVersion /\ mdb'.lastTLS = mdb.lastTLS
    BY <1>9 DEF TypeOK, GiveUp, Resource
  <2>2. ac' = ac /\ sts' = sts /\ pc' = "idle"
    BY <1>9 DEF GiveUp, Return
  <2>3. QED
    BY <2>1, <2>2, RolloutFrame
<1>10. CASE Annotate
  <2>1. /\ mdb'.members = mdb.members /\ mdb'.version = mdb.version /\ mdb'.tls = mdb.tls
        /\ mdb'.currentMembers = mdb.currentMembers /\ mdb'.lastVersion = snap.version
    BY <1>10 DEF TypeOK, Annotate, Resource
  <2>2. pc = "annotate" /\ pc' = "idle" /\ ac' = ac /\ sts' = sts
    BY <1>10 DEF Annotate, Return
  <2>3. Matches /\ snap.version = mdb.version
    BY <2>2 DEF DeployedInv, FetchedInv
  <2>4. ~IsChangingVersion(mdb')
    BY <2>1, <2>3 DEF IsChangingVersion
  <2>5. NextSize' = NextSize
    BY <2>1 DEF NextSize, AutomationConfigMembersThisReconciliation
  <2>6. sts.tls => mdb.tls
    BY <2>2, SameAsValid DEF RolloutInv
  <2>7. QED
    BY <2>1, <2>2, <2>3, <2>4, <2>5, <2>6 DEF RolloutInv, Matches
<1>11. CASE EditSpec
  <2>1. /\ pc = "idle" /\ pc' = "idle" /\ ~queued /\ sts' = sts /\ ac' = ac
        /\ mdb'.currentMembers = mdb.currentMembers
        /\ mdb'.lastVersion = mdb.lastVersion /\ mdb'.lastTLS = mdb.lastTLS
        /\ Edits(mdb'.members, mdb'.version, mdb'.tls)
    BY <1>11, EditEffect
  <2>2. /\ Matches /\ mdb.currentMembers = mdb.members /\ mdb.version # NoVersion
        /\ mdb.tls \in BOOLEAN
    BY <2>1, ConstantsAssumption DEF DeployedInv, FetchedInv, TypeOK, Resource
  <2>3. mdb.members # 0 /\ sts.exists
    BY <2>2, NextSizeMoves DEF FetchedInv
  <2>4. IsChangingVersion(mdb') => mdb'.members = mdb.members /\ mdb'.tls = mdb.tls
    <3>1. IsChangingVersion(mdb') =>
            /\ "version" \in EditKinds /\ mdb.lastVersion = mdb.version
            /\ mdb'.version # mdb.version
      BY <1>2, <2>1 DEF TemplateInv, FetchedInv, TemplateFollows, IsChangingVersion
    <3>2. QED
      BY <2>1, <3>1 DEF Edits, TemplateFollows
  <2>9. sts.tls = mdb.tls
    BY <2>1, <2>3, SettledTLS
  <2>5. mdb.tls /\ ~mdb'.tls => ~ValidSpec(mdb')
    <3>1. mdb.tls /\ ~mdb'.tls => "tls" \in EditKinds
      BY <2>1 DEF Edits
    <3>2. "tls" \in EditKinds => mdb.lastVersion = mdb.version /\ mdb.lastTLS = mdb.tls
      BY <2>1 DEF FetchedInv, RolloutFollows
    <3>3. QED
      BY <2>1, <2>2, <3>1, <3>2 DEF ValidSpec
  <2>6. "tls" \notin EditKinds => mdb'.tls = mdb.tls
    BY <2>1 DEF Edits
  <2>7. mdb.version = mdb'.version \/ IsChangingVersion(mdb')
    BY <1>2, <2>1, <2>2, <2>3 DEF TemplateInv, Matches
  <2>8. QED
    BY <2>1, <2>2, <2>4, <2>5, <2>6, <2>7, <2>9 DEF RolloutInv, Matches
<1>12. CASE Informers \/ StatefulSetController \/ Agents \/ UNCHANGED vars
  <2>1. /\ UNCHANGED <<mdb, ac, pc, stsFound, target>>
        /\ sts'.exists = sts.exists /\ sts'.version = sts.version /\ sts'.tls = sts.tls
        /\ sts'.replicas = sts.replicas /\ sts'.strategy = sts.strategy
    BY <1>12, EnvironmentFrame
  <2>2. QED
    BY <2>1, RolloutFrame
<1>13. QED
  BY <1>3, <1>4, <1>5, <1>6, <1>7, <1>8, <1>9, <1>10, <1>11, <1>12, <1>14
  DEF Next, Reconcile, Faults

-----------------------------------------------------------------------------
(* The pods *)

\* The pods the StatefulSet controller counts as updated, and whether all are.
Updated == {i \in Expected : pods[i].up /\ FromTemplate(pods[i])}
Rolled  == \A i \in Expected : pods[i].up /\ FromTemplate(pods[i])

\* Of the first n pods none is of another template, and only the last one may be
\* missing: all that is known once the agents' check has found every pod missing,
\* each when its turn came.
AlmostRolled(n) ==
  \A i \in Expected : i < n =>
    /\ pods[i].up => FromTemplate(pods[i])
    /\ i < n - 1 => pods[i].up

\* The deployment was recorded as deployed before.
Existing == mdb.currentMembers # 0

\* What the pods run and report: a report is of a config the pod could apply;
\* the count in the StatefulSet's status is of pods that are still there; and
\* the pods are those of the template, except while a version or TLS rolls out.
PodsInv ==
  /\ \A i \in Ordinals : pods[i].goal <= ac.version
  /\ \A i \in Ordinals :
       i < ac.members /\ pods[i].up /\ pods[i].goal = ac.version =>
         pods[i].version = ac.mongodb
  /\ sts.observed /\ sts.strategy = "RollingUpdate" => sts.updated <= Cardinality(Updated)
  /\ Existing /\ ~IsChangingVersion(mdb) /\ ac.tls = sts.tls =>
       AlmostRolled(mdb.currentMembers)
  /\ Existing /\ IsChangingVersion(mdb) =>
       /\ \A i \in Expected : pods[i].up => pods[i].tls = sts.tls
       /\ \A i, j \in Expected : i # j => pods[i].up \/ pods[j].up

\* What a reconciliation has waited for stays true until it ends.  While it
\* checks the agents, the pods it has read are up and at goal unless one was
\* missing, and none of them comes back with another version.
WaitedInv ==
  /\ (StatefulSetDeployed /\ pc # "stsStatus") \/ pc = "annotate" =>
       /\ ~IsChangingVersion(mdb) => Rolled
       /\ Existing /\ pc \in {"reset", "status", "annotate"} => AlmostRolled(sts.replicas)
  /\ ConfigDeployed /\ Existing /\ podsNotFound = 0 =>
       \A i \in Ordinals : i < NextSize /\ (pc = "agents" => i < podsRead) =>
         pods[i].up /\ pods[i].goal = ac.version
  /\ ConfigDeployed /\ inOrder /\ NextSize < mdb.currentMembers => podsNotFound = 0
  /\ pc = "agents" =>
       /\ podsNotFound <= podsRead /\ podsRead < NextSize
       /\ \A i \in Ordinals : i < podsRead /\ pods[i].up => pods[i].version = ac.mongodb

RolloutInvs == FetchedInv /\ TemplateInv /\ RolloutInv /\ PodsInv /\ WaitedInv

\* A pod that nothing takes down: it is one of the template, and the template
\* fits the config.
Held(i) ==
  /\ i \in Expected /\ pods[i].up /\ FromTemplate(pods[i])
  /\ ac.members # 0 => sts.version = ac.mongodb

\* When the template fits the config.
LEMMA TemplateFits ==
  ASSUME FetchedInv, TemplateInv, RolloutInv
  PROVE  /\ Existing => sts.exists /\ ac.members # 0 /\ mdb.currentMembers # 0
         /\ pc \in {"reset", "status", "annotate"} =>
              sts.exists /\ sts.version = ac.mongodb /\ sts.replicas = NextSize
         /\ StatefulSetDeployed => sts.exists /\ sts.replicas = NextSize
         /\ sts.exists /\ ac.members # 0 /\ sts.strategy = "RollingUpdate" =>
              sts.version = ac.mongodb
         /\ ~IsChangingVersion(mdb) => sts.strategy = "RollingUpdate"
<1>1. /\ DeployedInv /\ TypeOK /\ mdb.currentReplicas = mdb.currentMembers
      /\ pc \notin {"idle", "annotate"} => snap = mdb
  BY DEF FetchedInv, DeployedInv, ConfigInv
<1>2. Existing => sts.exists /\ ac.members # 0 /\ mdb.currentMembers # 0
  <2>1. Existing => mdb.currentMembers # 0
    BY DEF Existing
  <2>2. QED
    BY <1>1, <2>1, NextSizeMoves DEF FetchedInv, RolloutInv
<1>3. StatefulSetDeployed => sts.exists /\ sts.replicas = NextSize
  BY <1>1, NextSizeMoves DEF FetchedInv, DeployedInv, StatefulSetDeployed, StatefulSetMatches
<1>4. pc \in {"reset", "status"} => sts.version = ac.mongodb
  BY <1>1 DEF DeployedInv, ConfigDeployed, StatefulSetDeployed, ConfigMatches,
              StatefulSetMatches
<1>5. pc = "annotate" => sts.exists /\ sts.version = ac.mongodb /\ sts.replicas = NextSize
  <2>1. pc = "annotate" => Matches /\ mdb.currentMembers = mdb.members
    BY <1>1 DEF FetchedInv, DeployedInv
  <2>2. QED
    BY <1>1, <2>1, NextSizeMoves DEF FetchedInv, Matches
<1>6. ~IsChangingVersion(mdb) => sts.strategy = "RollingUpdate"
  BY <1>1 DEF RolloutInv, TypeOK, StatefulSet
<1>7. QED
  BY <1>2, <1>3, <1>4, <1>5, <1>6 DEF RolloutInv, StatefulSetDeployed

\* While a config goes first, TLS is the same in the config and the template.
LEMMA SameTLS ==
  ASSUME FetchedInv, TemplateInv, RolloutInv, inOrder, mdb.currentMembers # 0,
         pc \in {"readAC", "ensureAC", "agents", "writeSts", "stsStatus"}
  PROVE  ac.tls = sts.tls /\ sts.tls = mdb.tls
<1>1. /\ TypeOK /\ mdb.currentReplicas = mdb.currentMembers
      /\ snap = mdb /\ ValidSpec(mdb) /\ sts.exists
  BY DEF FetchedInv, DeployedInv, ConfigInv
<1>2. ac.members # 0
  BY <1>1, NextSizeMoves DEF RolloutInv
<1>3. mdb.tls \in BOOLEAN /\ ac.tls \in BOOLEAN /\ sts.tls \in BOOLEAN
  BY ZenonT(30), <1>1 DEF TypeOK, Resource, AutomationConfig, StatefulSet
<1>4. CASE mdb.tls
  BY ZenonT(30), <1>1, <1>2, <1>3, <1>4 DEF TemplateInv, RolloutInv
<1>5. CASE ~mdb.tls
  BY <1>1, <1>2, <1>3, <1>5 DEF RolloutInv
<1>6. QED
  BY <1>4, <1>5

\* While the agents are checked, the template is the config's.
LEMMA AgentsTemplate ==
  ASSUME FetchedInv, TemplateInv, RolloutInv, pc = "agents"
  PROVE  ac.members = NextSize /\ (sts.exists => sts.version = ac.mongodb)
<1>1. /\ DeployedInv /\ TypeOK /\ snap = mdb /\ mdb.currentReplicas = mdb.currentMembers
  BY DEF FetchedInv, DeployedInv, ConfigInv
<1>2. ac.members = NextSize /\ ac.mongodb = mdb.version
  BY <1>1 DEF DeployedInv, ConfigDeployed, ConfigMatches, NextSize
<1>3. CASE inOrder
  BY <1>2, <1>3 DEF TemplateInv
<1>4. CASE ~inOrder
  BY <1>1, <1>2, <1>4 DEF DeployedInv, StatefulSetDeployed, StatefulSetMatches
<1>5. QED
  BY <1>2, <1>3, <1>4

\* The pods whose reports the reconciliation has waited for stay.
LEMMA WaitedPods ==
  ASSUME RolloutInvs, ConfigDeployed, Existing, podsNotFound = 0,
         NEW i \in Ordinals, i < NextSize, pc = "agents" => i < podsRead
  PROVE  Held(i)
<1>1. /\ FetchedInv /\ TemplateInv /\ RolloutInv /\ PodsInv /\ WaitedInv
      /\ TypeOK /\ mdb.currentReplicas = mdb.currentMembers
  BY DEF RolloutInvs, FetchedInv, DeployedInv, ConfigInv
<1>2. pods[i].up
  BY <1>1 DEF WaitedInv
<1> USE <1>1, <1>2
<1>3. CASE pc \in {"reset", "status"}
  <2>1. /\ sts.version = ac.mongodb /\ sts.replicas = NextSize
        /\ AlmostRolled(sts.replicas)
    BY <1>3, TemplateFits DEF WaitedInv, StatefulSetDeployed
  <2>2. QED
    BY <2>1 DEF Held, AlmostRolled, Expected
<1>4. CASE inOrder /\ pc \in {"agents", "writeSts", "stsStatus"}
  <2>1. /\ ~IsChangingVersion(mdb) /\ mdb.currentMembers # 0
        /\ NextSize <= mdb.currentMembers
    BY <1>4, TemplateFits DEF TemplateInv
  <2>2. ac.tls = sts.tls
    BY <1>4, <2>1, SameTLS
  <2>3. i < mdb.currentMembers /\ i < sts.replicas
    BY SMT, <2>1, NextSizeMoves, SizesAssumption DEF RolloutInv, Ordinals
  <2>4. FromTemplate(pods[i]) /\ i \in Expected
    BY <2>1, <2>2, <2>3 DEF PodsInv, Expected, AlmostRolled
  <2>5. QED
    BY <2>1, <2>4, TemplateFits DEF Held
<1>5. CASE ~inOrder /\ pc = "agents"
  <2>1. sts.exists /\ sts.replicas = NextSize /\ StatefulSetDeployed
    BY <1>5, TemplateFits DEF StatefulSetDeployed
  <2>2. i \in Expected /\ sts.version = ac.mongodb
    BY <1>5, <2>1, AgentsTemplate DEF Expected
  <2>3. CASE ~IsChangingVersion(mdb)
    BY <1>5, <2>1, <2>2, <2>3 DEF WaitedInv, Rolled, Held
  <2>4. CASE IsChangingVersion(mdb)
    <3>1. pods[i].tls = sts.tls
      BY <2>2, <2>4 DEF PodsInv
    <3>2. pods[i].version = ac.mongodb
      BY <1>5 DEF WaitedInv
    <3>3. QED
      BY <2>2, <3>1, <3>2 DEF Held, FromTemplate
  <2>5. QED
    BY <2>3, <2>4
<1>6. QED
  BY <1>3, <1>4, <1>5 DEF ConfigDeployed

\* A pod action changes one pod and nothing else.
LEMMA OnePod ==
  ASSUME RolloutInvs, NEW i \in Ordinals, NEW p \in Pod,
         pods' = [pods EXCEPT ![i] = p], UNCHANGED podEnv
  PROVE  /\ pods'[i] = p /\ \A j \in Ordinals : j # i => pods'[j] = pods[j]
         /\ UNCHANGED <<mdb, ac, sts, pc, inOrder, podsRead, podsNotFound>>
         /\ Expected' = Expected /\ NextSize' = NextSize
         /\ IsChangingVersion(mdb)' <=> IsChangingVersion(mdb)
         /\ Existing' <=> Existing
         /\ ConfigDeployed' <=> ConfigDeployed
         /\ StatefulSetDeployed' <=> StatefulSetDeployed
<1>1. UNCHANGED <<mdb, ac, sts, pc, inOrder, podsRead, podsNotFound>>
  BY DEF podEnv, locals
<1>2. pods \in [Ordinals -> Pod]
  BY DEF RolloutInvs, FetchedInv, DeployedInv, ConfigInv, TypeOK
<1>3. QED
  BY <1>1, <1>2 DEF Expected, NextSize, AutomationConfigMembersThisReconciliation,
                    IsChangingVersion, Existing, ConfigDeployed, StatefulSetDeployed

\* A pod that stays up, or comes up from the template, disturbs nothing.
LEMMA PodStays ==
  ASSUME RolloutInvs, NEW i \in Ordinals, NEW p \in Pod,
         pods' = [pods EXCEPT ![i] = p], UNCHANGED podEnv,
         p.goal <= ac.version,
         i < ac.members /\ p.up /\ p.goal = ac.version => p.version = ac.mongodb,
         \/ /\ p.up = pods[i].up /\ p.version = pods[i].version /\ p.tls = pods[i].tls
            /\ p.goal \in {pods[i].goal, ac.version}
         \/ p.up /\ ~pods[i].up /\ FromTemplate(p) /\ sts.exists
  PROVE  PodsInv' /\ WaitedInv'
<1>1. PodsInv /\ WaitedInv /\ FetchedInv /\ TemplateInv /\ RolloutInv
  BY DEF RolloutInvs
<1> DEFINE unchanged ==
      /\ pods'[i] = p /\ \A j \in Ordinals : j # i => pods'[j] = pods[j]
      /\ UNCHANGED <<mdb, ac, sts, pc, inOrder, podsRead, podsNotFound>>
      /\ Expected' = Expected /\ NextSize' = NextSize
      /\ IsChangingVersion(mdb)' <=> IsChangingVersion(mdb)
      /\ Existing' <=> Existing
      /\ ConfigDeployed' <=> ConfigDeployed
      /\ StatefulSetDeployed' <=> StatefulSetDeployed
<1>2. unchanged
  BY OnePod
<1>3. \A j \in Ordinals : pods[j].up /\ FromTemplate(pods[j]) =>
        pods'[j].up /\ FromTemplate(pods'[j])
  BY <1>2 DEF FromTemplate
<1>4. \A j \in Ordinals : pods[j].up => pods'[j].up
  BY <1>2
<1>5. Expected \subseteq Ordinals
  BY DEF Expected
<1>17. /\ AlmostRolled(mdb.currentMembers) => AlmostRolled(mdb.currentMembers)'
       /\ AlmostRolled(sts.replicas) => AlmostRolled(sts.replicas)'
  <2>2. ASSUME AlmostRolled(mdb.currentMembers)
        PROVE  AlmostRolled(mdb.currentMembers)'
    <3>1. \A j \in Expected : j < mdb.currentMembers =>
            /\ pods'[j].up => pods'[j].version = sts.version /\ pods'[j].tls = sts.tls
            /\ j < mdb.currentMembers - 1 => pods'[j].up
      BY SMT, <1>2, <1>5, <2>2 DEF AlmostRolled, FromTemplate
    <3>2. QED
      BY <1>2, <3>1 DEF AlmostRolled, FromTemplate
  <2>3. ASSUME AlmostRolled(sts.replicas)
        PROVE  AlmostRolled(sts.replicas)'
    <3>1. \A j \in Expected : j < sts.replicas =>
            /\ pods'[j].up => pods'[j].version = sts.version /\ pods'[j].tls = sts.tls
            /\ j < sts.replicas - 1 => pods'[j].up
      BY SMT, <1>2, <1>5, <2>3 DEF AlmostRolled, FromTemplate
    <3>2. QED
      BY <1>2, <3>1 DEF AlmostRolled, FromTemplate
  <2>4. QED
    BY <2>2, <2>3
<1>6. Cardinality(Updated) <= Cardinality(Updated')
  <2>1. Updated \subseteq Updated'
    BY <1>2, <1>3, <1>5 DEF Updated, FromTemplate
  <2>2. Updated' \subseteq Ordinals
    BY <1>2, <1>5 DEF Updated
  <2>3. IsFiniteSet(Updated')
    BY <2>2, OrdinalsFinite, FS_Subset
  <2>4. QED
    BY <2>1, <2>3, FS_Subset
<1>7. sts.observed /\ sts.strategy = "RollingUpdate" => sts.updated <= Cardinality(Updated')
  <2>1. sts.updated \in Nat /\ Cardinality(Updated) \in Nat /\ Cardinality(Updated') \in Nat
    <3>1. sts.updated \in 0..MaxMembers
      BY DEF RolloutInvs, FetchedInv, DeployedInv, ConfigInv, TypeOK, StatefulSet
    <3>2. Updated \in SUBSET Ordinals /\ Updated' \in SUBSET Ordinals
      BY <1>2, <1>5 DEF Updated
    <3>3. QED
      BY SMT, <3>1, <3>2, CountsType
  <2>2. QED
    BY SMT, <1>1, <1>6, <2>1 DEF PodsInv
<1>8. (\A j \in Ordinals : pods[j].goal <= ac.version)'
  BY <1>1, <1>2 DEF PodsInv
<1>9. (\A j \in Ordinals :
         j < ac.members /\ pods[j].up /\ pods[j].goal = ac.version =>
           pods[j].version = ac.mongodb)'
  BY SMT, <1>1, <1>2 DEF PodsInv
<1>10. (Existing /\ ~IsChangingVersion(mdb) /\ ac.tls = sts.tls =>
         AlmostRolled(mdb.currentMembers))'
  BY <1>1, <1>2, <1>17 DEF PodsInv
<1>11. (Existing /\ IsChangingVersion(mdb) =>
         /\ \A j \in Expected : pods[j].up => pods[j].tls = sts.tls
         /\ \A j, k \in Expected : j # k => pods[j].up \/ pods[k].up)'
  <2>1. Existing /\ IsChangingVersion(mdb) =>
          \A j \in Expected : pods'[j].up => pods'[j].tls = sts.tls
    BY SMT, <1>1, <1>2, <1>5 DEF PodsInv, FromTemplate
  <2>2. Existing /\ IsChangingVersion(mdb) =>
          \A j, k \in Expected : j # k => pods'[j].up \/ pods'[k].up
    BY <1>1, <1>4, <1>5 DEF PodsInv
  <2>3. QED
    BY <1>2, <2>1, <2>2
<1>12. PodsInv'
  BY <1>2, <1>7, <1>8, <1>9, <1>10, <1>11 DEF PodsInv
<1>13. Rolled => Rolled'
  BY <1>2, <1>3, <1>5 DEF Rolled, FromTemplate
<1>14. \A j \in Ordinals : pods[j].up /\ pods[j].goal = ac.version =>
         pods'[j].up /\ pods'[j].goal = ac.version
  BY <1>2
<1>18. pc = "agents" =>
         \A j \in Ordinals : j < podsRead /\ pods'[j].up => pods'[j].version = ac.mongodb
  BY SMT, <1>1, <1>2, AgentsTemplate DEF WaitedInv, FromTemplate
<1>15. WaitedInv'
  BY <1>1, <1>2, <1>13, <1>14, <1>17, <1>18 DEF WaitedInv
<1>16. QED
  BY <1>12, <1>15

\* A pod that goes and was not held disturbs nothing either, if it is the only
\* one down while the version changes.
LEMMA PodGoes ==
  ASSUME RolloutInvs, NEW i \in Ordinals, pods' = [pods EXCEPT ![i] = NoPod],
         UNCHANGED podEnv, ~Held(i), pods[i].up,
         i \in Expected /\ IsChangingVersion(mdb) /\ Existing =>
           \A j \in Expected : j # i => pods[j].up
  PROVE  PodsInv' /\ WaitedInv'
<1>1. /\ FetchedInv /\ TemplateInv /\ RolloutInv /\ PodsInv /\ WaitedInv
      /\ TypeOK /\ mdb.currentReplicas = mdb.currentMembers
  BY DEF RolloutInvs, FetchedInv, DeployedInv, ConfigInv
<1> DEFINE unchanged ==
      /\ pods'[i] = NoPod /\ \A j \in Ordinals : j # i => pods'[j] = pods[j]
      /\ UNCHANGED <<mdb, ac, sts, pc, inOrder, podsRead, podsNotFound>>
      /\ Expected' = Expected /\ NextSize' = NextSize
      /\ IsChangingVersion(mdb)' <=> IsChangingVersion(mdb)
      /\ Existing' <=> Existing
      /\ ConfigDeployed' <=> ConfigDeployed
      /\ StatefulSetDeployed' <=> StatefulSetDeployed
<1>2. unchanged
  <2>1. NoPod \in Pod
    BY DEF NoPod, Pod, Version
  <2>2. QED
    BY <2>1, OnePod
<1>3. ~NoPod.up /\ NoPod.goal = 0
  BY DEF NoPod
<1>4. Expected \subseteq Ordinals /\ ac.version \in Nat /\ sts.replicas \in Nat
  BY SMT, <1>1 DEF Expected, TypeOK, AutomationConfig, StatefulSet
<1>5. i \in Expected => sts.exists
  BY SMT, <1>1, <1>4, SizesAssumption DEF FetchedInv, Expected, Ordinals
<1>6. sts.strategy = "RollingUpdate" => i \notin Updated
  BY <1>1, <1>5, TemplateFits DEF Updated, Held
<1>7. sts.observed /\ sts.strategy = "RollingUpdate" => sts.updated <= Cardinality(Updated')
  <2>1. sts.strategy = "RollingUpdate" => Updated = Updated'
    BY SMT, <1>2, <1>3, <1>4, <1>6 DEF Updated, FromTemplate
  <2>2. QED
    BY <1>1, <2>1 DEF PodsInv
<1>8. (\A j \in Ordinals : pods[j].goal <= ac.version)'
  BY SMT, <1>1, <1>2, <1>3, <1>4 DEF PodsInv
<1>9. (\A j \in Ordinals :
         j < ac.members /\ pods[j].up /\ pods[j].goal = ac.version =>
           pods[j].version = ac.mongodb)'
  BY <1>1, <1>2, <1>3 DEF PodsInv
<1>10. (Existing /\ ~IsChangingVersion(mdb) /\ ac.tls = sts.tls =>
         AlmostRolled(mdb.currentMembers))'
  <2>1. SUFFICES ASSUME Existing, ~IsChangingVersion(mdb), ac.tls = sts.tls
                 PROVE  AlmostRolled(mdb.currentMembers)'
    BY <1>2
  <2>2. ac.members # 0 => sts.version = ac.mongodb
    BY <1>1, <2>1, TemplateFits
  <2>3. AlmostRolled(mdb.currentMembers)
    BY <1>1, <2>1 DEF PodsInv
  <2>4. ~(i \in Expected /\ i < mdb.currentMembers)
    BY <2>2, <2>3 DEF AlmostRolled, Held
  <2>5. QED
    BY <1>2, <1>4, <2>3, <2>4 DEF AlmostRolled, FromTemplate
<1>11. (Existing /\ IsChangingVersion(mdb) =>
         /\ \A j \in Expected : pods[j].up => pods[j].tls = sts.tls
         /\ \A j, k \in Expected : j # k => pods[j].up \/ pods[k].up)'
  <2>1. Existing /\ IsChangingVersion(mdb) =>
          \A j \in Expected : pods'[j].up => pods'[j].tls = sts.tls
    BY <1>1, <1>2, <1>3, <1>4 DEF PodsInv
  <2>2. Existing /\ IsChangingVersion(mdb) =>
          \A j, k \in Expected : j # k => pods'[j].up \/ pods'[k].up
    BY SMT, <1>1, <1>2, <1>4 DEF PodsInv
  <2>3. QED
    BY ZenonT(30), <1>2, <2>1, <2>2
<1>12. PodsInv'
  BY <1>2, <1>7, <1>8, <1>9, <1>10, <1>11 DEF PodsInv
<1>13. /\ (StatefulSetDeployed /\ pc # "stsStatus") \/ pc = "annotate"
       /\ ~IsChangingVersion(mdb)
       => Rolled'
  <2>1. SUFFICES ASSUME (StatefulSetDeployed /\ pc # "stsStatus") \/ pc = "annotate",
                        ~IsChangingVersion(mdb)
                 PROVE  Rolled'
    OBVIOUS
  <2>2. Rolled
    BY <1>1, <2>1 DEF WaitedInv
  <2>3. ac.members # 0 => sts.version = ac.mongodb
    BY <1>1, <2>1, TemplateFits
  <2>4. i \notin Expected
    BY <2>2, <2>3 DEF Rolled, Held
  <2>5. QED
    BY <1>2, <1>4, <2>2, <2>4 DEF Rolled, FromTemplate
<1>17. Existing /\ pc \in {"reset", "status", "annotate"} => AlmostRolled(sts.replicas)'
  <2>1. SUFFICES ASSUME Existing, pc \in {"reset", "status", "annotate"}
                 PROVE  AlmostRolled(sts.replicas)'
    OBVIOUS
  <2>2. AlmostRolled(sts.replicas)
    BY <1>1, <2>1 DEF WaitedInv, StatefulSetDeployed
  <2>3. ac.members # 0 => sts.version = ac.mongodb
    BY <1>1, <2>1, TemplateFits
  <2>4. i \notin Expected
    BY <2>2, <2>3 DEF AlmostRolled, Held, Expected
  <2>5. QED
    BY <1>2, <1>4, <2>2, <2>4 DEF AlmostRolled, FromTemplate
<1>14. ConfigDeployed /\ Existing /\ podsNotFound = 0 =>
         \A j \in Ordinals : j < NextSize /\ (pc = "agents" => j < podsRead) =>
           pods'[j].up /\ pods'[j].goal = ac.version
  <2>1. ConfigDeployed /\ Existing /\ podsNotFound = 0 =>
          ~(i < NextSize /\ (pc = "agents" => i < podsRead))
    BY WaitedPods
  <2>2. QED
    BY <1>1, <1>2, <2>1 DEF WaitedInv
<1>18. pc = "agents" =>
         \A j \in Ordinals : j < podsRead /\ pods'[j].up => pods'[j].version = ac.mongodb
  BY <1>1, <1>2, <1>3 DEF WaitedInv
<1>15. WaitedInv'
  BY <1>1, <1>2, <1>13, <1>14, <1>17, <1>18 DEF WaitedInv
<1>16. QED
  BY <1>12, <1>15

\* The StatefulSet controller and the agents preserve PodsInv and WaitedInv.
LEMMA PodActions ==
  ASSUME RolloutInvs, NEW i \in Ordinals,
         \/ CreatePod(i) \/ RemovePod(i) \/ RollPod(i) \/ HookDeletesPod(i)
         \/ ReachGoal(i) \/ ReadyWhenDeadlocked(i) \/ LoseReadiness(i)
  PROVE  PodsInv' /\ WaitedInv'
<1>1. /\ FetchedInv /\ TemplateInv /\ RolloutInv /\ PodsInv /\ TypeOK /\ ConfigInv
      /\ mdb.currentReplicas = mdb.currentMembers
  BY DEF RolloutInvs, FetchedInv, DeployedInv, ConfigInv
<1>2. /\ pods[i] \in Pod /\ pods[i].goal <= ac.version /\ ac.version \in Nat
      /\ ac.members \in Nat /\ i \in Nat /\ pods[i].goal \in Nat
  BY SMT, <1>1, SizesAssumption DEF TypeOK, PodsInv, AutomationConfig, Ordinals, Pod
<1>3. CASE CreatePod(i)
  <2> DEFINE p == [NoPod EXCEPT !.up = TRUE, !.version = sts.version, !.tls = sts.tls]
  <2>1. /\ p \in Pod /\ p.up /\ p.version = sts.version /\ p.tls = sts.tls /\ p.goal = 0
    BY <1>1 DEF TypeOK, StatefulSet, NoPod, Pod
  <2>2. pods' = [pods EXCEPT ![i] = p] /\ UNCHANGED podEnv /\ ~pods[i].up
    BY <1>3 DEF CreatePod
  <2> HIDE DEF p
  <2>3. ac.version = 0 => ac.members = 0
    BY SMT, <1>1 DEF ConfigInv, NoAC
  <2>4. i < ac.members /\ p.up /\ p.goal = ac.version => p.version = ac.mongodb
    BY SMT, <1>2, <2>1, <2>3
  <2>5. FromTemplate(p) /\ p.goal <= ac.version
    BY SMT, <1>2, <2>1 DEF FromTemplate
  <2>6. sts.exists
    <3>1. i < sts.replicas
      BY <1>3 DEF CreatePod, Expected
    <3>2. sts.replicas # 0
      BY SMT, <1>2, <3>1
    <3>3. QED
      BY <1>1, <3>2 DEF FetchedInv
  <2>7. QED
    BY <2>1, <2>2, <2>4, <2>5, <2>6, PodStays
<1>4. CASE ReachGoal(i)
  <2> DEFINE p == [pods[i] EXCEPT !.goal = ac.version, !.ready = TRUE]
  <2>1. /\ p \in Pod /\ p.up = pods[i].up /\ p.version = pods[i].version
        /\ p.tls = pods[i].tls /\ p.goal = ac.version
    BY <1>2 DEF Pod
  <2>2. pods' = [pods EXCEPT ![i] = p] /\ UNCHANGED podEnv /\ CanReachGoal(i)
    BY <1>1, <1>4 DEF ReachGoal, TypeOK
  <2> HIDE DEF p
  <2>3. i < ac.members => p.version = ac.mongodb
    BY <2>1, <2>2 DEF CanReachGoal, IsMember
  <2>a. ac.version \in Nat
    BY <1>2
  <2>4. p.goal <= ac.version /\ p.goal \in {pods[i].goal, ac.version}
    BY SMT, <2>a, <2>1
  <2>5. QED
    BY <2>1, <2>2, <2>3, <2>4, PodStays
<1>5. CASE ReadyWhenDeadlocked(i) \/ LoseReadiness(i)
  <2>1. PICK b \in BOOLEAN :
          pods' = [pods EXCEPT ![i] = [pods[i] EXCEPT !.ready = b]] /\ UNCHANGED podEnv
    BY <1>1, <1>5 DEF ReadyWhenDeadlocked, LoseReadiness, TypeOK
  <2> DEFINE p == [pods[i] EXCEPT !.ready = b]
  <2>2. /\ p \in Pod /\ p.up = pods[i].up /\ p.version = pods[i].version
        /\ p.tls = pods[i].tls /\ p.goal = pods[i].goal
    BY <1>2 DEF Pod
  <2>3. pods' = [pods EXCEPT ![i] = p] /\ UNCHANGED podEnv
    BY <2>1
  <2> HIDE DEF p
  <2>4. i < ac.members /\ p.up /\ p.goal = ac.version => p.version = ac.mongodb
    BY <1>1, <2>2 DEF PodsInv
  <2>5. p.goal <= ac.version /\ p.goal \in {pods[i].goal, ac.version}
    BY <1>2, <2>2
  <2>6. QED
    BY <2>2, <2>3, <2>4, <2>5, PodStays
<1>6. CASE RemovePod(i)
  <2>1. /\ pods' = [pods EXCEPT ![i] = NoPod] /\ UNCHANGED podEnv
        /\ i \notin Expected /\ pods[i].up
    BY <1>6 DEF RemovePod
  <2>2. QED
    BY <2>1, PodGoes DEF Held
<1>7. CASE RollPod(i)
  <2>1. /\ pods' = [pods EXCEPT ![i] = NoPod] /\ UNCHANGED podEnv
        /\ i \in Expected /\ ~FromTemplate(pods[i])
        /\ \A j \in Expected : pods[j].up
    BY <1>7 DEF RollPod, AllReady
  <2>2. QED
    BY <2>1, PodGoes DEF Held
<1>8. CASE HookDeletesPod(i)
  <2>1. /\ pods' = [pods EXCEPT ![i] = NoPod] /\ UNCHANGED podEnv
        /\ pods[i].up /\ i < ac.members /\ pods[i].version # ac.mongodb
        /\ \A j \in Ordinals : j < ac.members /\ j # i => pods[j].up
    BY <1>8 DEF HookDeletesPod, IsMember
  <2>2. ~Held(i)
    BY SMT, <1>2, <2>1 DEF Held, FromTemplate
  <2>3. IsChangingVersion(mdb) => \A j \in Expected : j # i => pods[j].up
    BY <1>1, <2>1 DEF RolloutInv, Expected
  <2>4. QED
    BY <2>1, <2>2, <2>3, PodGoes
<1>9. QED
  BY <1>3, <1>4, <1>5, <1>6, <1>7, <1>8

\* The controller's status write counts the pods that are there.
LEMMA StatusCounts ==
  ASSUME RolloutInvs, SyncStatefulSetStatus
  PROVE  PodsInv' /\ WaitedInv'
<1>1. TypeOK /\ PodsInv /\ WaitedInv
  BY DEF RolloutInvs, FetchedInv, DeployedInv, ConfigInv
<1>2. /\ UNCHANGED <<mdb, ac, pods, pc, inOrder, podsRead, podsNotFound>>
      /\ sts'.replicas = sts.replicas /\ sts'.version = sts.version /\ sts'.tls = sts.tls
      /\ sts'.updated = Cardinality(Updated)
  BY <1>1 DEF SyncStatefulSetStatus, TypeOK, StatefulSet, locals, Updated
<1>3. /\ Expected' = Expected /\ NextSize' = NextSize
      /\ IsChangingVersion(mdb)' <=> IsChangingVersion(mdb)
      /\ Existing' <=> Existing
      /\ ConfigDeployed' <=> ConfigDeployed
      /\ StatefulSetDeployed' <=> StatefulSetDeployed
  BY <1>2 DEF Expected, NextSize, AutomationConfigMembersThisReconciliation,
              IsChangingVersion, Existing, ConfigDeployed, StatefulSetDeployed
<1>4. /\ Updated' = Updated /\ Rolled' = Rolled
      /\ AlmostRolled(sts.replicas)' <=> AlmostRolled(sts.replicas)
      /\ AlmostRolled(mdb.currentMembers)' <=> AlmostRolled(mdb.currentMembers)
  BY <1>2, <1>3 DEF Updated, Rolled, AlmostRolled, FromTemplate
<1>5. Cardinality(Updated) \in Nat
  <2>1. Updated \in SUBSET Ordinals
    BY DEF Updated, Expected
  <2>2. QED
    BY SMT, <2>1, CountsType
<1>6. PodsInv'
  <2>1. sts'.updated <= Cardinality(Updated)'
    BY SMT, <1>2, <1>4, <1>5
  <2>2. QED
    BY <1>1, <1>2, <1>3, <1>4, <2>1 DEF PodsInv
<1>7. WaitedInv'
  BY <1>1, <1>2, <1>3, <1>4 DEF WaitedInv
<1>8. QED
  BY <1>6, <1>7

\* A step that leaves the objects alone and begins or ends a reconciliation.
LEMMA PodsFrame ==
  ASSUME PodsInv, mdb'.members = mdb.members, mdb'.version = mdb.version,
         mdb'.currentMembers = mdb.currentMembers, mdb'.lastVersion = mdb.lastVersion,
         ac' = ac, sts' = sts, pods' = pods
  PROVE  /\ PodsInv' /\ NextSize' = NextSize /\ Rolled' = Rolled
         /\ AlmostRolled(sts.replicas)' <=> AlmostRolled(sts.replicas)
         /\ IsChangingVersion(mdb)' <=> IsChangingVersion(mdb)
         /\ Existing' <=> Existing
<1>1. /\ Expected' = Expected /\ NextSize' = NextSize
      /\ IsChangingVersion(mdb)' <=> IsChangingVersion(mdb)
      /\ Existing' <=> Existing
  BY DEF Expected, NextSize, AutomationConfigMembersThisReconciliation,
         IsChangingVersion, Existing
<1>2. /\ Updated' = Updated /\ Rolled' = Rolled
      /\ AlmostRolled(sts.replicas)' <=> AlmostRolled(sts.replicas)
      /\ AlmostRolled(mdb.currentMembers)' <=> AlmostRolled(mdb.currentMembers)
  BY <1>1 DEF Updated, Rolled, AlmostRolled, FromTemplate
<1>3. QED
  BY <1>1, <1>2 DEF PodsInv

\* All of a StatefulSet's pods are there and updated when its status says so.
LEMMA ReadyMeansRolled ==
  ASSUME RolloutInvs, pc = "stsStatus", ~IsChangingVersion(mdb), IsReady(sts, NextSize)
  PROVE  Rolled
<1>1. /\ FetchedInv /\ TemplateInv /\ RolloutInv /\ PodsInv /\ TypeOK
      /\ mdb.currentReplicas = mdb.currentMembers
  BY DEF RolloutInvs, FetchedInv, DeployedInv, ConfigInv
<1>2. /\ NextSize \in Nat /\ NextSize <= MaxMembers /\ sts.replicas = NextSize
      /\ sts.strategy = "RollingUpdate"
  BY <1>1, NextSizeMoves, TemplateFits DEF StatefulSetDeployed
<1>3. Expected = 0..(NextSize - 1)
  BY SMT, <1>2, SizesAssumption DEF Expected, Ordinals
<1>4. IsFiniteSet(Expected) /\ Cardinality(Expected) = NextSize
  BY SMT, <1>2, <1>3, FS_Interval
<1>5. Updated \subseteq Expected /\ Cardinality(Updated) >= NextSize
  BY <1>1, <1>2 DEF Updated, PodsInv, IsReady
<1>6. Updated = Expected
  <2>1. Cardinality(Updated) \in Nat /\ Cardinality(Updated) <= NextSize
    BY <1>4, <1>5, FS_Subset, FS_CardinalityType
  <2>2. Cardinality(Updated) = Cardinality(Expected)
    BY SMT, <1>2, <1>4, <1>5, <2>1
  <2>3. QED
    BY <1>4, <1>5, <2>2, FS_Subset
<1>7. QED
  BY <1>6 DEF Updated, Rolled

\* Reading one pod: what is known of the pods read before is known of one more,
\* and a deployment that shrinks has no pod missing.
LEMMA PodRead ==
  ASSUME RolloutInvs, WaitForAgents, stsFound
  PROVE  /\ podsRead \in Ordinals /\ podsRead < NextSize /\ podsNotFound' \in Nat
         /\ podsNotFound' <= podsRead + 1
         /\ podsNotFound' = podsRead + 1 => ~pods[podsRead].up
         /\ inOrder /\ NextSize < mdb.currentMembers => podsNotFound' = 0
         /\ pc' # "pending" =>
              /\ \A i \in Ordinals : i < podsRead + 1 /\ pods[i].up =>
                   pods[i].version = ac.mongodb
              /\ Existing /\ podsNotFound' = 0 =>
                   \A i \in Ordinals : i < podsRead + 1 =>
                     pods[i].up /\ pods[i].goal = ac.version
<1>1. /\ FetchedInv /\ TemplateInv /\ RolloutInv /\ PodsInv /\ WaitedInv /\ TypeOK
      /\ pc = "agents" /\ snap = mdb /\ mdb.currentReplicas = mdb.currentMembers
      /\ target = ac.version
  BY DEF RolloutInvs, FetchedInv, DeployedInv, ConfigInv, WaitForAgents, RolloutInv
<1>2. AllReachedGoalState(NextSize, ac.version)
  BY <1>1, NextSizeMoves DEF WaitForAgents
<1>3. /\ podsNotFound' = IF pods[podsRead].up THEN podsNotFound ELSE podsNotFound + 1
      /\ pc' # "pending" => ~(pods[podsRead].up /\ pods[podsRead].goal # ac.version)
  BY <1>1, <1>2 DEF AllReachedGoalState, NotFound
<1>4. /\ podsRead \in Nat /\ podsNotFound \in Nat
      /\ podsNotFound <= podsRead /\ podsRead < NextSize
      /\ \A i \in Ordinals : i < podsRead /\ pods[i].up => pods[i].version = ac.mongodb
  BY <1>1 DEF WaitedInv, TypeOK, PodLoopType
<1>5. /\ podsRead \in Ordinals /\ podsNotFound' \in Nat /\ podsNotFound' <= podsRead + 1
      /\ podsNotFound' = podsRead + 1 => ~pods[podsRead].up
      /\ podsNotFound' = 0 => podsNotFound = 0 /\ pods[podsRead].up
  <2>1. NextSize \in Nat /\ NextSize <= MaxMembers
    BY <1>1, NextSizeMoves
  <2>2. podsRead \in Ordinals
    BY SMT, <1>4, <2>1, SizesAssumption DEF Ordinals
  <2>3. QED
    BY SMT, <1>3, <1>4, <2>2
<1>6. ASSUME inOrder, NextSize < mdb.currentMembers
      PROVE  podsNotFound' = 0
  <2>1. podsNotFound = 0 /\ ~IsChangingVersion(mdb)
    BY <1>1, <1>6 DEF WaitedInv, ConfigDeployed, TemplateInv
  <2>2. /\ mdb.currentMembers \in Nat /\ mdb.currentMembers # 0
        /\ podsRead < mdb.currentMembers /\ podsRead < mdb.currentMembers - 1
        /\ NextSize \in Nat
    BY SMT, <1>1, <1>4, <1>6, NextSizeMoves
  <2>3. ac.tls = sts.tls
    BY <1>1, <1>6, <2>2, SameTLS
  <2>4. podsRead \in Expected
    BY SMT, <1>1, <1>4, <1>5, <2>2 DEF RolloutInv, Expected
  <2>5. pods[podsRead].up
    BY <1>1, <2>1, <2>2, <2>3, <2>4 DEF PodsInv, AlmostRolled, Existing
  <2>6. QED
    BY <1>3, <2>1, <2>5
<1>7. ASSUME pc' # "pending"
      PROVE  \A i \in Ordinals : i < podsRead + 1 /\ pods[i].up => pods[i].version = ac.mongodb
  <2>1. pods[podsRead].up => pods[podsRead].version = ac.mongodb
    <3>1. podsRead < ac.members
      BY <1>1, <1>4, AgentsTemplate
    <3>2. QED
      BY <1>1, <1>3, <1>5, <1>7, <3>1 DEF PodsInv
  <2>2. \A i \in Ordinals : i < podsRead + 1 => i < podsRead \/ i = podsRead
    BY SMT, <1>4, SizesAssumption DEF Ordinals
  <2>3. QED
    BY <1>4, <2>1, <2>2
<1>8. ASSUME pc' # "pending", Existing, podsNotFound' = 0
      PROVE  \A i \in Ordinals : i < podsRead + 1 => pods[i].up /\ pods[i].goal = ac.version
  <2>1. pods[podsRead].up /\ pods[podsRead].goal = ac.version /\ podsNotFound = 0
    BY <1>3, <1>5, <1>8
  <2>2. \A i \in Ordinals : i < podsRead + 1 =>
          i = podsRead \/ (i < podsRead /\ i < NextSize)
    BY SMT, <1>4, <1>1, NextSizeMoves, SizesAssumption DEF Ordinals
  <2>3. QED
    BY <1>1, <1>8, <2>1, <2>2 DEF WaitedInv, ConfigDeployed
<1>9. QED
  BY <1>4, <1>5, <1>6, <1>7, <1>8

\* The check of the agents preserves what is known of the pods.  When it ends
\* with every pod missing, the last one still is, so the others are back.
LEMMA AgentsStep ==
  ASSUME RolloutInvs, WaitForAgents
  PROVE  PodsInv' /\ WaitedInv'
<1>1. /\ FetchedInv /\ TemplateInv /\ RolloutInv /\ PodsInv /\ WaitedInv /\ TypeOK
      /\ snap = mdb /\ mdb.currentReplicas = mdb.currentMembers
  BY DEF RolloutInvs, FetchedInv, DeployedInv, ConfigInv, WaitForAgents
<1>2. /\ UNCHANGED <<mdb, ac, sts, pods, inOrder>> /\ pc = "agents"
      /\ pc' \in {"agents", IF inOrder THEN "writeSts" ELSE "reset", "pending"}
  BY AgentsEffect
<1>3. /\ PodsInv' /\ NextSize' = NextSize /\ Rolled' = Rolled
      /\ AlmostRolled(sts.replicas)' <=> AlmostRolled(sts.replicas)
      /\ IsChangingVersion(mdb)' <=> IsChangingVersion(mdb)
      /\ Existing' <=> Existing
  BY <1>1, <1>2, PodsFrame
<1>4. NextSize \in Nat /\ NextSize # 0 /\ mdb.currentMembers \in Nat
  BY <1>1, NextSizeMoves
<1>5. ~inOrder /\ ~IsChangingVersion(mdb) => Rolled
  BY <1>1, <1>2 DEF WaitedInv, StatefulSetDeployed
<1>6. CASE pc' = "pending"
  BY <1>3, <1>6 DEF WaitedInv, StatefulSetDeployed, ConfigDeployed
<1>7. CASE ~stsFound
  <2>1. ~sts.exists
    BY <1>1, <1>2, <1>7 DEF RolloutInv
  <2>2. ~Existing /\ inOrder /\ pc' = "writeSts"
    BY <1>1, <1>2, <1>7, <2>1, TemplateFits DEF TemplateInv, WaitForAgents,
                                               AfterAutomationConfig
  <2>3. ~(NextSize < mdb.currentMembers)
    BY SMT, <1>4, <2>2 DEF Existing
  <2>4. QED
    BY <1>2, <1>3, <2>2, <2>3 DEF WaitedInv, StatefulSetDeployed
<1>8. CASE stsFound /\ pc' = "agents"
  <2>1. AllReachedGoalState(NextSize, target)
    BY <1>1, <1>8, NextSizeMoves DEF WaitForAgents
  <2>2. podsRead' = podsRead + 1 /\ ~(podsRead + 1 >= NextSize)
    BY <1>8, <2>1 DEF AllReachedGoalState, AfterAutomationConfig
  <2>3. podsRead' \in Nat /\ podsRead' < NextSize
    BY SMT, <1>1, <1>4, <2>2 DEF TypeOK, PodLoopType
  <2>4. /\ podsNotFound' <= podsRead'
        /\ inOrder /\ NextSize < mdb.currentMembers => podsNotFound' = 0
        /\ \A i \in Ordinals : i < podsRead' /\ pods[i].up => pods[i].version = ac.mongodb
        /\ Existing /\ podsNotFound' = 0 =>
             \A i \in Ordinals : i < podsRead' => pods[i].up /\ pods[i].goal = ac.version
    BY <1>8, <2>2, PodRead
  <2>5. QED
    BY <1>2, <1>3, <1>5, <1>8, <2>3, <2>4 DEF WaitedInv, StatefulSetDeployed
<1>9. CASE stsFound /\ pc' \notin {"pending", "agents"}
  <2>1. AllReachedGoalState(NextSize, target)
    BY <1>1, <1>9, NextSizeMoves DEF WaitForAgents
  <2>2. podsRead + 1 >= NextSize /\ podsNotFound' \in {0, NextSize}
    BY <1>2, <1>9, <2>1 DEF AllReachedGoalState
  <2>3. /\ podsRead \in Ordinals /\ podsRead < NextSize /\ podsNotFound' \in Nat
        /\ podsNotFound' = podsRead + 1 => ~pods[podsRead].up
        /\ inOrder /\ NextSize < mdb.currentMembers => podsNotFound' = 0
        /\ \A i \in Ordinals : i < podsRead + 1 /\ pods[i].up => pods[i].version = ac.mongodb
        /\ Existing /\ podsNotFound' = 0 =>
             \A i \in Ordinals : i < podsRead + 1 => pods[i].up /\ pods[i].goal = ac.version
    BY <1>9, PodRead
  <2>4. podsRead + 1 = NextSize /\ podsRead \in Nat /\ Ordinals \subseteq Nat
    BY SMT, <1>1, <1>4, <2>2, <2>3, SizesAssumption DEF TypeOK, PodLoopType, Ordinals
  <2>5. ASSUME ~inOrder, Existing, IsChangingVersion(mdb)
        PROVE  AlmostRolled(sts.replicas)
    <3>1. sts.replicas = NextSize /\ sts.exists
      BY <1>1, <1>2, <2>5, TemplateFits DEF StatefulSetDeployed
    <3>2. Expected \subseteq Ordinals /\ \A i \in Expected : i < NextSize
      BY <3>1 DEF Expected
    <3>3. \A i \in Expected : pods[i].up => FromTemplate(pods[i])
      <4>1. \A i \in Expected : pods[i].up => pods[i].tls = sts.tls
        BY <1>1, <2>5 DEF PodsInv
      <4>2. sts.version = ac.mongodb
        BY <1>1, <1>2, <3>1, AgentsTemplate
      <4>3. \A i \in Expected : pods[i].up => pods[i].version = sts.version
        BY <2>3, <2>4, <3>2, <4>2
      <4>4. QED
        BY <4>1, <4>3 DEF FromTemplate
    <3>4. \A i \in Expected : i < NextSize - 1 => pods[i].up
      <4>1. CASE podsNotFound' = 0
        BY <2>3, <2>4, <2>5, <3>2, <4>1
      <4>2. CASE podsNotFound' = NextSize
        <5>1. ~pods[podsRead].up /\ podsRead \in Expected
          BY <2>3, <2>4, <3>1, <4>2 DEF Expected
        <5>2. \A i \in Expected : i < NextSize - 1 => i # podsRead
          BY SMT, <2>4, <3>2
        <5>3. QED
          BY <1>1, <2>5, <5>1, <5>2 DEF PodsInv
      <4>3. QED
        BY <2>2, <4>1, <4>2
    <3>5. QED
      BY <3>1, <3>3, <3>4 DEF AlmostRolled
  <2>6. ~inOrder /\ Existing => AlmostRolled(sts.replicas)
    BY <1>5, <2>5 DEF Rolled, AlmostRolled
  <2>7. CASE inOrder
    <3>1. pc' = "writeSts"
      BY <1>2, <1>9, <2>7
    <3>2. QED
      BY <1>2, <1>3, <2>3, <2>4, <2>7, <3>1 DEF WaitedInv, StatefulSetDeployed
  <2>8. CASE ~inOrder
    <3>1. pc' = "reset"
      BY <1>2, <1>9, <2>8
    <3>2. QED
      BY <1>2, <1>3, <1>5, <2>3, <2>4, <2>6, <2>8, <3>1 DEF WaitedInv
  <2>9. QED
    BY <2>7, <2>8
<1>10. QED
  BY <1>6, <1>7, <1>8, <1>9

\* A new config: the reports of the old one are behind it.
LEMMA ConfigChangesPods ==
  ASSUME ~StaleReads, RolloutInvs, [Next]_vars, EnsureSecret
  PROVE  PodsInv' /\ WaitedInv'
<1>1. /\ FetchedInv /\ TemplateInv /\ RolloutInv /\ PodsInv /\ WaitedInv /\ TypeOK
      /\ DeployedInv /\ DeployedInv' /\ ConfigInv
      /\ mdb.currentReplicas = mdb.currentMembers
  BY DeployedStep DEF RolloutInvs, FetchedInv, DeployedInv, ConfigInv
<1>2. /\ UNCHANGED <<mdb, sts, pods, inOrder>> /\ pc = "ensureAC" /\ pc' = "agents"
      /\ snap = mdb /\ snap' = mdb
  BY <1>1 DEF EnsureSecret, SeenAC, FetchedInv, ConfigInv
<1>3. ac'.tls = mdb.tls
  BY <1>1, <1>2 DEF DeployedInv, ConfigDeployed, ConfigMatches
<1>4. ac' # ac => ac'.version = ac.version + 1
  BY <1>1, ConfigStep
<1>5. /\ Expected' = Expected /\ NextSize' = NextSize
      /\ IsChangingVersion(mdb)' <=> IsChangingVersion(mdb)
      /\ Existing' <=> Existing
  BY <1>2 DEF Expected, NextSize, AutomationConfigMembersThisReconciliation, Existing
<1>6. Updated' = Updated /\ Rolled' = Rolled
  BY <1>2, <1>5 DEF Updated, Rolled, FromTemplate
<1>7. ac.version \in Nat /\ \A i \in Ordinals : pods[i].goal \in Nat
  BY <1>1 DEF TypeOK, AutomationConfig, Pod
<1>8. (\A i \in Ordinals : pods[i].goal <= ac.version)'
  <2>1. \A i \in Ordinals : pods[i].goal <= ac.version
    BY <1>1 DEF PodsInv
  <2>2. QED
    BY SMT, <1>2, <1>4, <1>7, <2>1
<1>9. (\A i \in Ordinals :
         i < ac.members /\ pods[i].up /\ pods[i].goal = ac.version =>
           pods[i].version = ac.mongodb)'
  <2>1. CASE ac' = ac
    BY ZenonT(30), <1>1, <1>2, <2>1 DEF PodsInv
  <2>2. CASE ac' # ac
    <3>1. \A i \in Ordinals : pods[i].goal # ac'.version
      BY SMT, <1>1, <1>4, <1>7, <2>2 DEF PodsInv
    <3>2. QED
      BY ZenonT(30), <1>2, <3>1
  <2>3. QED
    BY <2>1, <2>2
<1>10. Existing /\ ~IsChangingVersion(mdb) => ac.tls = sts.tls \/ Rolled
  <2>1. CASE inOrder
    BY ZenonT(30), <1>1, <1>2, <2>1, SameTLS, TemplateFits
  <2>2. CASE ~inOrder
    BY <1>1, <1>2, <2>2 DEF WaitedInv, StatefulSetDeployed
  <2>3. QED
    BY <2>1, <2>2
<1>11. (Existing /\ ~IsChangingVersion(mdb) /\ ac.tls = sts.tls =>
         AlmostRolled(mdb.currentMembers))'
  <2>1. Existing /\ ~IsChangingVersion(mdb) => AlmostRolled(mdb.currentMembers)
    BY <1>1, <1>10 DEF PodsInv, Rolled, AlmostRolled
  <2>2. QED
    BY <1>2, <1>5, <2>1 DEF AlmostRolled, FromTemplate
<1>12. PodsInv'
  BY <1>1, <1>2, <1>5, <1>6, <1>8, <1>9, <1>11 DEF PodsInv
<1>13. WaitedInv'
  <2>1. podsRead' = 0 /\ podsNotFound' = 0
    BY DEF EnsureSecret
  <2>2. podsNotFound' <= podsRead' /\ podsRead' < NextSize /\ \A i \in Ordinals : ~(i < podsRead')
    BY SMT, <1>1, <2>1, NextSizeMoves, SizesAssumption DEF Ordinals
  <2>3. QED
    BY <1>1, <1>2, <1>5, <1>6, <2>1, <2>2 DEF WaitedInv, StatefulSetDeployed
<1>14. QED
  BY <1>12, <1>13

\* A new template: the controller has yet to observe it.
LEMMA TemplateChangesPods ==
  ASSUME ~StaleReads, RolloutInvs, CreateOrUpdateStatefulSet
  PROVE  PodsInv' /\ WaitedInv'
<1>1. /\ FetchedInv /\ TemplateInv /\ RolloutInv /\ PodsInv /\ WaitedInv /\ TypeOK
      /\ mdb.currentReplicas = mdb.currentMembers
  BY DEF RolloutInvs, FetchedInv, DeployedInv, ConfigInv
<1>2. /\ UNCHANGED <<mdb, ac, pods, inOrder, podsNotFound>>
      /\ pc = "writeSts" /\ pc' = "stsStatus"
      /\ ValidSpec(mdb) /\ sts' = buildStatefulSet(sts, mdb)
  BY <1>1 DEF CreateOrUpdateStatefulSet, SeenSts, locals, FetchedInv
<1>3. /\ sts'.exists /\ sts'.version = mdb.version /\ sts'.tls = mdb.tls
      /\ sts'.replicas = NextSize
  BY <1>1, <1>2, BuiltFromValid, NextSizeMoves
<1>4. /\ NextSize' = NextSize
      /\ IsChangingVersion(mdb)' <=> IsChangingVersion(mdb)
      /\ Existing' <=> Existing
  BY <1>2 DEF NextSize, AutomationConfigMembersThisReconciliation, Existing
<1>5. WaitedInv'
  BY <1>1, <1>2, <1>4 DEF WaitedInv, StatefulSetDeployed, ConfigDeployed
<1>6. CASE sts' = sts
  BY <1>1, <1>2, <1>5, <1>6, PodsFrame
<1>7. CASE sts' # sts
  <2>1. ~sts'.observed
    <3> DEFINE new == [sts EXCEPT !.exists = TRUE,
                         !.replicas = StatefulSetReplicasThisReconciliation(mdb),
                         !.version = mdb.version, !.tls = sts.tls \/ mdb.tls,
                         !.strategy = GetUpdateStrategyType(mdb)]
    <3>1. sts' = [new EXCEPT !.observed = FALSE]
      BY <1>2, <1>7 DEF buildStatefulSet
    <3>2. QED
      BY <1>1, <3>1 DEF TypeOK, StatefulSet
  <2>2. ASSUME Existing, ~IsChangingVersion(mdb), ac.tls = mdb.tls,
               NEW i \in Ordinals, i < NextSize, i < mdb.currentMembers
        PROVE  /\ pods[i].up => pods[i].version = mdb.version /\ pods[i].tls = mdb.tls
               /\ i < mdb.currentMembers - 1 => pods[i].up
    <3>1. sts.exists /\ ac.members # 0 /\ mdb.currentMembers # 0
      BY <1>1, <2>2, TemplateFits
    <3>2. sts.version = mdb.version
      BY <1>1, <2>2, <3>1 DEF TemplateInv
    <3>3. sts.tls = mdb.tls
      <4>1. mdb.tls \in BOOLEAN /\ sts.tls \in BOOLEAN
        BY <1>1 DEF TypeOK, Resource, StatefulSet
      <4>2. mdb.tls => sts.tls
        BY <1>1, <2>2, <3>1 DEF RolloutInv
      <4>3. sts.tls => mdb.tls
        BY <1>1, <1>2, <3>1 DEF RolloutInv
      <4>4. QED
        BY SMT, <4>1, <4>2, <4>3
    <3>4. i \in Expected
      BY <1>1, <2>2, <3>1 DEF RolloutInv, Expected
    <3>5. QED
      BY <1>1, <2>2, <3>2, <3>3, <3>4 DEF PodsInv, AlmostRolled, FromTemplate
  <2>3. (Existing /\ ~IsChangingVersion(mdb) /\ ac.tls = sts.tls =>
          AlmostRolled(mdb.currentMembers))'
    BY <1>2, <1>3, <1>4, <2>2 DEF Expected, AlmostRolled, FromTemplate
  <2>4. IsChangingVersion(mdb) => Expected' = Expected /\ sts'.tls = sts.tls
    <3>1. IsChangingVersion(mdb) => sts.replicas = NextSize /\ sts.tls = mdb.tls
      BY <1>1, NextSizeMoves DEF RolloutInv, TemplateInv
    <3>2. QED
      BY <1>3, <3>1 DEF Expected
  <2>5. (Existing /\ IsChangingVersion(mdb) =>
          /\ \A i \in Expected : pods[i].up => pods[i].tls = sts.tls
          /\ \A i, j \in Expected : i # j => pods[i].up \/ pods[j].up)'
    BY <1>1, <1>2, <1>4, <2>4 DEF PodsInv
  <2>6. QED
    BY <1>1, <1>2, <1>5, <2>1, <2>3, <2>5 DEF PodsInv
<1>8. QED
  BY <1>6, <1>7

\* The reset of the strategy changes no pod; the status has yet to be counted.
LEMMA ResetKeepsPods ==
  ASSUME ~StaleReads, RolloutInvs, ResetUpdateStrategy
  PROVE  PodsInv' /\ WaitedInv'
<1>1. TypeOK /\ PodsInv /\ WaitedInv /\ StatefulSetDeployed
  BY DEF RolloutInvs, FetchedInv, DeployedInv, ConfigInv, ResetUpdateStrategy,
         StatefulSetDeployed
<1>2. UNCHANGED <<mdb, ac, pods, inOrder, podsNotFound>> /\ pc = "reset" /\ pc' = "status"
  BY DEF ResetUpdateStrategy, SeenSts, locals
<1>3. /\ sts'.replicas = sts.replicas /\ sts'.version = sts.version /\ sts'.tls = sts.tls
      /\ sts'.updated = sts.updated
      /\ sts'.observed => sts.observed /\ sts'.strategy = sts.strategy
  BY <1>1 DEF ResetUpdateStrategy, TypeOK, StatefulSet
<1>4. /\ Expected' = Expected /\ NextSize' = NextSize
      /\ IsChangingVersion(mdb)' <=> IsChangingVersion(mdb)
      /\ Existing' <=> Existing
  BY <1>2, <1>3 DEF Expected, NextSize, AutomationConfigMembersThisReconciliation,
                    Existing
<1>5. /\ Updated' = Updated /\ Rolled' = Rolled
      /\ AlmostRolled(sts.replicas)' <=> AlmostRolled(sts.replicas)
      /\ AlmostRolled(mdb.currentMembers)' <=> AlmostRolled(mdb.currentMembers)
  BY <1>2, <1>3, <1>4 DEF Updated, Rolled, AlmostRolled, FromTemplate
<1>6. PodsInv'
  BY <1>1, <1>2, <1>3, <1>4, <1>5 DEF PodsInv
<1>7. WaitedInv'
  BY <1>1, <1>2, <1>4, <1>5 DEF WaitedInv, ConfigDeployed
<1>8. QED
  BY <1>6, <1>7

\* Recording the sizes, and then the version, concerns pods that are all there.
LEMMA RecordedPods ==
  ASSUME RolloutInvs, UpdateStatus \/ Annotate
  PROVE  PodsInv' /\ WaitedInv'
<1>1. /\ FetchedInv /\ TemplateInv /\ RolloutInv /\ PodsInv /\ WaitedInv /\ TypeOK
      /\ DeployedInv /\ mdb.currentReplicas = mdb.currentMembers
  BY DEF RolloutInvs, FetchedInv, DeployedInv, ConfigInv
<1>2. UNCHANGED <<ac, sts, pods>>
  BY DEF UpdateStatus, Annotate
<1>3. /\ Expected' = Expected /\ Updated' = Updated /\ Rolled' = Rolled
      /\ AlmostRolled(sts.replicas)' <=> AlmostRolled(sts.replicas)
  BY <1>2 DEF Expected, Updated, Rolled, AlmostRolled, FromTemplate
<1>4. CASE UpdateStatus
  <2>1. snap = mdb /\ mdb \in Resource /\ pc = "status" /\ StatefulSetDeployed
    BY <1>1, <1>4 DEF UpdateStatus, FetchedInv, TypeOK, StatefulSetDeployed
  <2>2. PICK ph \in {"Pending", "Running"} :
          mdb' = Scaled(mdb, ph) /\ pc' \in {"idle", "annotate"}
    BY <1>4, <2>1 DEF UpdateStatus, Return
  <2>3. /\ mdb'.members = mdb.members /\ mdb'.version = mdb.version
        /\ mdb'.currentMembers = NextSize
    BY <2>1, <2>2, ScaledType DEF NextSize
  <2>4. mdb'.lastVersion = mdb.lastVersion
    BY <2>1, <2>2 DEF Scaled, Resource
  <2>5. IsChangingVersion(mdb)' <=> IsChangingVersion(mdb)
    BY <2>3, <2>4 DEF IsChangingVersion
  <2>6. IsChangingVersion(mdb) => (Existing' <=> Existing)
    <3>1. IsChangingVersion(mdb) => mdb'.currentMembers = mdb.currentMembers
      BY <1>1, <2>3, NextSizeMoves DEF TemplateInv
    <3>2. QED
      BY <3>1 DEF Existing
  <2>7. (~IsChangingVersion(mdb) => Rolled) /\ (Existing => AlmostRolled(sts.replicas))
    BY <1>1, <2>1 DEF WaitedInv
  <2>13. AlmostRolled(sts.replicas)
    <3>1. IsChangingVersion(mdb) => Existing
      BY <1>1, NextSizeMoves DEF TemplateInv, Existing
    <3>2. QED
      BY <2>7, <3>1 DEF Rolled, AlmostRolled
  <2>8. (Existing /\ ~IsChangingVersion(mdb) /\ ac.tls = sts.tls =>
          AlmostRolled(mdb.currentMembers))'
    BY <1>2, <1>3, <2>5, <2>7 DEF Rolled, AlmostRolled, FromTemplate
  <2>9. (Existing /\ IsChangingVersion(mdb) =>
          /\ \A i \in Expected : pods[i].up => pods[i].tls = sts.tls
          /\ \A i, j \in Expected : i # j => pods[i].up \/ pods[j].up)'
    BY <1>1, <1>2, <1>3, <2>5, <2>6 DEF PodsInv
  <2>10. PodsInv'
    BY <1>1, <1>2, <1>3, <2>8, <2>9 DEF PodsInv
  <2>11. WaitedInv'
    BY <1>3, <2>2, <2>5, <2>7, <2>13 DEF WaitedInv, StatefulSetDeployed, ConfigDeployed
  <2>12. QED
    BY <2>10, <2>11
<1>5. CASE Annotate
  <2>1. /\ mdb'.version = mdb.version /\ mdb'.currentMembers = mdb.currentMembers
        /\ mdb'.lastVersion = snap.version
    BY ZenonT(30), <1>1, <1>5 DEF TypeOK, Annotate, Resource
  <2>2. pc = "annotate" /\ pc' = "idle" /\ snap.version = mdb.version
    BY <1>1, <1>5 DEF Annotate, Return, FetchedInv
  <2>3. ~IsChangingVersion(mdb') /\ (Existing' <=> Existing)
    BY <2>1, <2>2 DEF IsChangingVersion, Existing
  <2>4. Existing => AlmostRolled(sts.replicas)
    BY <1>1, <2>2 DEF WaitedInv
  <2>9. sts.replicas = mdb.currentMembers
    BY <1>1, <2>2 DEF DeployedInv, FetchedInv, Matches
  <2>5. (Existing /\ ~IsChangingVersion(mdb) /\ ac.tls = sts.tls =>
          AlmostRolled(mdb.currentMembers))'
    BY <1>2, <1>3, <2>1, <2>3, <2>4, <2>9 DEF AlmostRolled, FromTemplate
  <2>6. PodsInv'
    BY <1>1, <1>2, <1>3, <2>3, <2>5 DEF PodsInv
  <2>7. WaitedInv'
    BY <2>2 DEF WaitedInv, StatefulSetDeployed, ConfigDeployed
  <2>8. QED
    BY <2>6, <2>7
<1>6. QED
  BY <1>4, <1>5

\* An edit finds the pods of the last deployment all there.
LEMMA EditedPods ==
  ASSUME RolloutFollows, RolloutInvs, EditSpec
  PROVE  PodsInv' /\ WaitedInv'
<1>1. /\ FetchedInv /\ TemplateInv /\ RolloutInv /\ PodsInv /\ TypeOK /\ DeployedInv
      /\ mdb.currentReplicas = mdb.currentMembers /\ TemplateFollows /\ ~InFlightEdits /\ ~StaleReads
  BY DEF RolloutInvs, FetchedInv, DeployedInv, ConfigInv, RolloutFollows, TemplateFollows
<1>2. /\ pc = "idle" /\ pc' = "idle" /\ ~queued /\ UNCHANGED <<ac, sts, pods>>
      /\ mdb'.currentMembers = mdb.currentMembers
      /\ mdb'.lastVersion = mdb.lastVersion
  BY <1>1, EditEffect
<1>3. Matches /\ mdb.currentMembers = mdb.members
  BY <1>1, <1>2 DEF DeployedInv, FetchedInv
<1>4. ~IsChangingVersion(mdb)
  BY <1>1, <1>2 DEF TemplateInv, FetchedInv, TemplateFollows, IsChangingVersion
<1>5. /\ Expected' = Expected /\ Updated' = Updated
      /\ Existing' <=> Existing
  BY <1>2 DEF Expected, Updated, FromTemplate, Existing
<1>6. Existing => AlmostRolled(mdb.currentMembers)
  <2>1. sts.exists
    BY <1>1, <1>3, NextSizeMoves DEF FetchedInv
  <2>2. ac.tls = sts.tls
    BY <1>1, <1>2, <1>3, <2>1, SettledTLS DEF Matches
  <2>3. QED
    BY <1>1, <1>4, <2>2 DEF PodsInv
<1>7. /\ \A i \in Expected : i < mdb.currentMembers /\ i \in Nat
      /\ mdb.currentMembers \in Nat
  <2>1. \A i \in Expected : i < mdb.currentMembers
    BY <1>3 DEF Matches, Expected
  <2>2. QED
    BY SMT, <1>1, <2>1, NextSizeMoves, SizesAssumption DEF Expected, Ordinals
<1>8. (Existing /\ ~IsChangingVersion(mdb) /\ ac.tls = sts.tls =>
        AlmostRolled(mdb.currentMembers))'
  BY <1>2, <1>5, <1>6 DEF AlmostRolled, FromTemplate
<1>9. (Existing /\ IsChangingVersion(mdb) =>
        /\ \A i \in Expected : pods[i].up => pods[i].tls = sts.tls
        /\ \A i, j \in Expected : i # j => pods[i].up \/ pods[j].up)'
  <2>1. \A i, j \in Expected : i # j =>
          i < mdb.currentMembers - 1 \/ j < mdb.currentMembers - 1
    BY SMT, <1>7
  <2>2. Existing => /\ \A i \in Expected : pods[i].up => pods[i].tls = sts.tls
                    /\ \A i, j \in Expected : i # j => pods[i].up \/ pods[j].up
    BY <1>6, <1>7, <2>1 DEF AlmostRolled, FromTemplate
  <2>3. QED
    BY <1>2, <1>5, <2>2
<1>10. PodsInv'
  BY <1>1, <1>2, <1>5, <1>8, <1>9 DEF PodsInv
<1>11. WaitedInv'
  BY <1>2 DEF WaitedInv, StatefulSetDeployed, ConfigDeployed
<1>12. QED
  BY <1>10, <1>11

\* The invariants are inductive.
LEMMA RolloutInvsStep ==
  ASSUME RolloutFollows, RolloutInvs, [Next]_vars
  PROVE  RolloutInvs'
<1>1. /\ FetchedInv /\ TemplateInv /\ RolloutInv /\ PodsInv /\ WaitedInv /\ TypeOK
      /\ TemplateFollows /\ ~InFlightEdits /\ ~StaleReads
      /\ pc \notin {"idle", "annotate"} => snap = mdb
      /\ mdb.currentReplicas = mdb.currentMembers
  BY DEF RolloutInvs, FetchedInv, DeployedInv, ConfigInv, RolloutFollows, TemplateFollows
<1>2. FetchedInv' /\ TemplateInv' /\ RolloutInv'
  BY <1>1, FetchedStep, TemplateStep, RolloutStep
<1>3. CASE \/ Dequeue \/ Prepare \/ LookupError \/ ApiError \/ TLSConfigNotValid
           \/ AnnotateError \/ StatusError \/ Crash \/ GiveUp
  <2>1. /\ UNCHANGED <<ac, sts, pods>>
        /\ ~StatefulSetDeployed' /\ ~ConfigDeployed' /\ pc' \notin {"annotate", "agents"}
    BY <1>3 DEF Dequeue, Prepare, LookupError, ApiError, TLSConfigNotValid, AnnotateError,
                StatusError, Crash, GiveUp, Return, k8s, locals, StatefulSetDeployed,
                ConfigDeployed
  <2>2. /\ mdb'.members = mdb.members /\ mdb'.version = mdb.version
        /\ mdb'.currentMembers = mdb.currentMembers /\ mdb'.lastVersion = mdb.lastVersion
    <3>1. CASE GiveUp
      BY <1>1, <3>1 DEF GiveUp, TypeOK, Resource
    <3>2. CASE ~GiveUp
      BY <1>3, <3>2 DEF Dequeue, Prepare, LookupError, ApiError, TLSConfigNotValid,
                        AnnotateError, StatusError, Crash, k8s
    <3>3. QED
      BY <3>1, <3>2
  <2>3. PodsInv'
    BY <1>1, <2>1, <2>2, PodsFrame
  <2>4. WaitedInv'
    BY <2>1 DEF WaitedInv
  <2>5. QED
    BY <1>2, <2>3, <2>4 DEF RolloutInvs
<1>4. CASE ReadAutomationConfig
  <2>1. UNCHANGED <<mdb, ac, sts, pods, inOrder>> /\ pc = "readAC" /\ pc' = "ensureAC"
    BY <1>4 DEF ReadAutomationConfig, k8s
  <2>2. /\ PodsInv' /\ Rolled' = Rolled
        /\ IsChangingVersion(mdb)' <=> IsChangingVersion(mdb)
    BY <1>1, <2>1, PodsFrame
  <2>3. WaitedInv'
    BY <1>1, <2>1, <2>2 DEF WaitedInv, StatefulSetDeployed, ConfigDeployed
  <2>4. QED
    BY <1>2, <2>2, <2>3 DEF RolloutInvs
<1>5. CASE EnsureSecret
  BY <1>1, <1>2, <1>5, ConfigChangesPods DEF RolloutInvs
<1>6. CASE WaitForAgents
  BY <1>2, <1>6, AgentsStep DEF RolloutInvs
<1>7. CASE CreateOrUpdateStatefulSet
  BY <1>1, <1>2, <1>7, TemplateChangesPods DEF RolloutInvs
<1>8. CASE CheckStatefulSet
  <2>1. /\ UNCHANGED <<mdb, ac, sts, pods, inOrder, podsNotFound>>
        /\ pc = "stsStatus" /\ snap = mdb
        /\ \/ pc' \in {"pending", "failed"}
           \/ /\ pc' = IF inOrder THEN "reset" ELSE "readAC"
              /\ \/ IsReady(sts, StatefulSetReplicasThisReconciliation(mdb))
                 \/ sts.strategy = "OnDelete"
    BY <1>1, <1>8 DEF CheckStatefulSet, AfterStatefulSet, SeenSts, k8s, locals
  <2>2. /\ PodsInv' /\ NextSize' = NextSize /\ Rolled' = Rolled
        /\ AlmostRolled(sts.replicas)' <=> AlmostRolled(sts.replicas)
        /\ IsChangingVersion(mdb)' <=> IsChangingVersion(mdb)
        /\ Existing' <=> Existing
    BY <1>1, <2>1, PodsFrame
  <2>3. CASE pc' \in {"pending", "failed"}
    BY <1>2, <2>2, <2>3 DEF RolloutInvs, WaitedInv, StatefulSetDeployed, ConfigDeployed
  <2>4. CASE pc' \notin {"pending", "failed"}
    <3>1. ~IsChangingVersion(mdb) => IsReady(sts, NextSize)
      BY <1>1, <2>1, <2>4, NextSizeMoves DEF RolloutInv
    <3>2. ~IsChangingVersion(mdb) => Rolled
      BY <2>1, <3>1, ReadyMeansRolled
    <3>3. inOrder => Rolled /\ AlmostRolled(sts.replicas)
      BY <1>1, <2>1, <3>2 DEF TemplateInv, Rolled, AlmostRolled
    <3>4. CASE inOrder
      BY <1>1, <1>2, <2>1, <2>2, <2>4, <3>3, <3>4
      DEF RolloutInvs, WaitedInv, ConfigDeployed
    <3>5. CASE ~inOrder
      BY <1>1, <1>2, <2>1, <2>2, <2>4, <3>2, <3>5
      DEF RolloutInvs, WaitedInv, ConfigDeployed
    <3>6. QED
      BY <3>4, <3>5
  <2>5. QED
    BY <2>3, <2>4
<1>9. CASE ResetUpdateStrategy
  BY <1>1, <1>2, <1>9, ResetKeepsPods DEF RolloutInvs
<1>10. CASE UpdateStatus \/ Annotate
  BY <1>2, <1>10, RecordedPods DEF RolloutInvs
<1>11. CASE EditSpec
  BY <1>2, <1>11, EditedPods DEF RolloutInvs
<1>12. CASE SyncStatefulSetStatus
  BY <1>2, <1>12, StatusCounts DEF RolloutInvs
<1>13. ASSUME NEW i \in Ordinals,
              \/ CreatePod(i) \/ RemovePod(i) \/ RollPod(i) \/ HookDeletesPod(i)
              \/ ReachGoal(i) \/ ReadyWhenDeadlocked(i) \/ LoseReadiness(i)
       PROVE  RolloutInvs'
  BY <1>2, <1>13, PodActions DEF RolloutInvs
<1>14. CASE Informers \/ UNCHANGED vars
  <2>1. UNCHANGED <<mdb, ac, sts, pods, pc, inOrder, podsRead, podsNotFound>>
    BY <1>1, <1>14 DEF Informers, SyncMdb, SyncAC, SyncSts, vars
  <2>2. /\ PodsInv' /\ NextSize' = NextSize /\ Rolled' = Rolled
        /\ AlmostRolled(sts.replicas)' <=> AlmostRolled(sts.replicas)
        /\ IsChangingVersion(mdb)' <=> IsChangingVersion(mdb)
        /\ Existing' <=> Existing
    BY <1>1, <2>1, PodsFrame
  <2>3. WaitedInv'
    BY <1>1, <2>1, <2>2 DEF WaitedInv, StatefulSetDeployed, ConfigDeployed
  <2>4. QED
    BY <1>2, <2>2, <2>3 DEF RolloutInvs
<1>15. QED
  BY <1>3, <1>4, <1>5, <1>6, <1>7, <1>8, <1>9, <1>10, <1>11, <1>12, <1>13, <1>14
  DEF Next, Reconcile, Faults, StatefulSetController, Agents

LEMMA RolloutInvsInit ==
  ASSUME Init
  PROVE  RolloutInvs
<1>1. FetchedInv /\ TemplateInv
  BY TemplateInit
<1>2. RolloutInv
  <2>1. /\ mdb.currentMembers = 0 /\ ~IsChangingVersion(mdb) /\ ac.members = 0
        /\ ~sts.exists /\ sts.strategy = "RollingUpdate" /\ pc = "idle"
    BY SMT, NewResource DEF NoAC, NoSts, IsChangingVersion
  <2>2. QED
    BY <2>1 DEF RolloutInv
<1>3. \A i \in Ordinals : ~pods[i].up /\ pods[i].goal = 0
  BY SMT, NewResource DEF NoPod
<1>4. ~Existing /\ sts.updated = 0 /\ ac.version = 0
  BY SMT, NewResource DEF Existing, NoSts, NoAC
<1>5. 0 <= Cardinality(Updated)
  <2>1. Updated \in SUBSET Ordinals
    BY DEF Updated, Expected
  <2>2. QED
    BY SMT, <2>1, CountsType
<1>6. PodsInv
  BY SMT, <1>3, <1>4, <1>5 DEF PodsInv
<1>7. WaitedInv
  BY NewResource DEF WaitedInv, StatefulSetDeployed, ConfigDeployed
<1>8. QED
  BY <1>1, <1>2, <1>6, <1>7 DEF RolloutInvs

\* A change of the StatefulSet's size is a step of CreateOrUpdateStatefulSet.
LEMMA WhoResizes ==
  ASSUME TypeOK, ~StaleReads, [Next]_vars, sts'.replicas # sts.replicas
  PROVE  CreateOrUpdateStatefulSet
<1>1. CASE EditSpec
  BY <1>1 DEF EditSpec
<1>2. CASE Informers \/ StatefulSetController \/ Agents \/ UNCHANGED vars
  BY <1>2, EnvironmentFrame
<1>3. CASE Faults
  BY <1>3 DEF Faults, ApiError, LookupError, TLSConfigNotValid, StatusError,
              AnnotateError, Crash, k8s
<1>4. CASE Reconcile
  <2>1. CASE ResetUpdateStrategy
    BY <2>1 DEF ResetUpdateStrategy, TypeOK, StatefulSet
  <2>2. QED
    BY <1>4, <2>1 DEF Reconcile, Dequeue, Prepare, ReadAutomationConfig, EnsureSecret,
                      WaitForAgents, CheckStatefulSet, UpdateStatus, GiveUp, Annotate, k8s
<1>5. QED
  BY <1>1, <1>2, <1>3, <1>4 DEF Next

\* RemovedFromConfigFirst: with edits made one at a time, a replica goes only
\* once the config without it is published and every agent has applied it.
THEOREM ConfigFirst ==
  OneEditAtATime /\ RolloutFollows => (Spec => RemovedFromConfigFirst)
<1>1. SUFFICES ASSUME OneEditAtATime, RolloutFollows
               PROVE  Spec => RemovedFromConfigFirst
  OBVIOUS
<1>2. Init => SizesInv /\ RolloutInvs
  BY <1>1, SizesInit, RolloutInvsInit
<1>3. SizesInv /\ RolloutInvs /\ [Next]_vars => (SizesInv /\ RolloutInvs)'
  BY <1>1, SizesStep, RolloutInvsStep
<1>4. ASSUME SizesInv, RolloutInvs, [Next]_vars, sts'.replicas < sts.replicas
      PROVE  /\ ac.members <= sts'.replicas
             /\ \A i \in Ordinals : i < sts'.replicas /\ pods[i].up =>
                  pods[i].goal = ac.version
  <2>1. /\ TypeOK /\ StatusInv /\ ~StaleReads /\ FetchedInv /\ WaitedInv
        /\ mdb.currentReplicas = mdb.currentMembers
    BY <1>1, <1>4 DEF SizesInv, OneEditAtATime, SafeEdits, RolloutInvs, StatusInv
  <2>2. /\ sts.replicas \in Nat /\ NextSize \in Nat /\ NextSize # 0
        /\ mdb.currentMembers \in Nat
        /\ StatefulSetReplicasThisReconciliation(mdb) = NextSize
    BY SMT, <2>1, NextSizeMoves DEF TypeOK, StatefulSet
  <2>3. CreateOrUpdateStatefulSet
    <3>1. sts'.replicas # sts.replicas
      BY SMT, <1>4, <2>2
    <3>2. QED
      BY <1>4, <2>1, <3>1, WhoResizes
  <2>4. sts' = buildStatefulSet(sts, mdb) /\ pc = "writeSts"
    BY <2>1, <2>3 DEF CreateOrUpdateStatefulSet, SeenSts, FetchedInv
  <2>5. sts'.replicas = NextSize
    BY <2>1, <2>2, <2>4, BuiltStatefulSetType DEF TypeOK
  <2>6. sts.replicas = mdb.currentMembers /\ NextSize < mdb.currentMembers
    BY SMT, <1>4, <2>2, <2>5 DEF SizesInv
  <2>7. inOrder
    BY SMT, <1>4, <2>2, <2>4, <2>6 DEF SizesInv
  <2>8. ConfigDeployed /\ Existing
    BY SMT, <2>2, <2>4, <2>6, <2>7 DEF ConfigDeployed, Existing
  <2>12. podsNotFound = 0
    BY <2>1, <2>6, <2>7, <2>8 DEF WaitedInv
  <2>9. ac.members = NextSize
    BY <1>4, <2>8 DEF SizesInv
  <2>10. \A i \in Ordinals : i < NextSize => pods[i].goal = ac.version
    BY <2>1, <2>4, <2>8, <2>12 DEF WaitedInv
  <2>11. QED
    BY SMT, <2>2, <2>5, <2>9, <2>10
<1>5. SizesInv /\ RolloutInvs /\ [Next]_vars =>
        [sts'.replicas < sts.replicas =>
           /\ ac.members <= sts'.replicas
           /\ \A i \in Ordinals : i < sts'.replicas /\ pods[i].up =>
                pods[i].goal = ac.version]_vars
  BY <1>4
<1>6. QED
  BY <1>2, <1>3, <1>5, PTL DEF Spec, RemovedFromConfigFirst

\* GoalBeforeRunning: however the reads of the pods interleave with what the
\* pods do, a change is reported as Running only when every agent has applied
\* it, or when each pod was missing as its turn came to be read.
THEOREM RunningAtGoal == RolloutFollows => (Spec => GoalBeforeRunning)
<1>1. SUFFICES ASSUME RolloutFollows
               PROVE  Spec => GoalBeforeRunning
  OBVIOUS
<1>2. Init => RolloutInvs
  BY RolloutInvsInit
<1>3. RolloutInvs /\ [Next]_vars => RolloutInvs'
  BY <1>1, RolloutInvsStep
<1>4. ASSUME RolloutInvs, [Next]_vars, pc = "status", pc' = "annotate",
             mdb.currentMembers # 0, podsNotFound = 0
      PROVE  AtGoal(mdb'.members)
  <2>1. /\ TypeOK /\ FetchedInv /\ WaitedInv /\ snap = mdb /\ mdb \in Resource
        /\ mdb.currentReplicas = mdb.currentMembers
    BY <1>4 DEF RolloutInvs, FetchedInv, DeployedInv, ConfigInv, TypeOK
  <2>2. UpdateStatus
    <3>1. CASE EditSpec
      BY <1>4, <3>1 DEF EditSpec
    <3>2. CASE Informers \/ StatefulSetController \/ Agents \/ UNCHANGED vars
      <4>1. ~StaleReads
        BY <1>1 DEF RolloutFollows, TemplateFollows
      <4>2. QED
        BY <1>4, <2>1, <3>2, <4>1, EnvironmentFrame
    <3>3. CASE Faults
      BY <1>4, <3>3 DEF Faults, ApiError, LookupError, TLSConfigNotValid, StatusError,
                        AnnotateError, Crash, Return
    <3>4. CASE Reconcile
      BY <1>4, <3>4 DEF Reconcile, Dequeue, Prepare, ReadAutomationConfig, EnsureSecret,
                        WaitForAgents, CreateOrUpdateStatefulSet, CheckStatefulSet,
                        ResetUpdateStrategy, GiveUp, Annotate
    <3>5. QED
      BY <1>4, <3>1, <3>2, <3>3, <3>4 DEF Next
  <2>3. mdb' = Scaled(mdb, "Running") /\ ~IsStillScaling(mdb.currentReplicas, mdb.members)
    BY <1>4, <2>1, <2>2 DEF UpdateStatus, Return
  <2>4. mdb'.members = mdb.members
    BY <2>1, <2>3, ScaledType
  <2>5. NextSize = mdb.members
    BY <2>1, <2>3 DEF IsStillScaling, NextSize, AutomationConfigMembersThisReconciliation
  <2>6. Existing
    BY <1>4 DEF Existing
  <2>7. QED
    BY <1>4, <2>1, <2>4, <2>5, <2>6 DEF WaitedInv, ConfigDeployed, AtGoal
<1>5. RolloutInvs /\ [Next]_vars =>
        [pc = "status" /\ pc' = "annotate" /\ mdb.currentMembers # 0 /\ podsNotFound = 0 =>
           AtGoal(mdb'.members)]_vars
  BY <1>4
<1>6. QED
  BY <1>2, <1>3, <1>5, PTL DEF Spec, GoalBeforeRunning

-----------------------------------------------------------------------------
(* Who upgrades a pod.  Only the hook replaces a pod to change its version;    *)
(* by the time Kubernetes may roll pods again, none of an old version is left. *)

\* Every pod that is up is one of the StatefulSet, so no pod of an old version
\* comes back when the StatefulSet grows; and no pod has an old version while
\* Kubernetes may roll pods.
NativeInv ==
  /\ "version" \in EditKinds => \A i \in Ordinals : pods[i].up => i < sts.replicas
  /\ sts.exists /\ sts.strategy = "RollingUpdate" =>
       \A i \in Ordinals : pods[i].up => pods[i].version = sts.version
  /\ ~IsChangingVersion(mdb) \/ pc \in {"reset", "status", "annotate"} =>
       \A i \in Ordinals : pods[i].up => pods[i].version = mdb.version

\* A step that makes no pod come up and leaves the specs alone.
LEMMA NativeFrame ==
  ASSUME NativeInv,
         \A i \in Ordinals : pods'[i].up => pods[i].up /\ pods'[i].version = pods[i].version,
         mdb'.version = mdb.version, mdb'.lastVersion = mdb.lastVersion,
         sts'.exists = sts.exists, sts'.replicas = sts.replicas,
         sts'.version = sts.version, sts'.strategy = sts.strategy,
         pc' \in {"reset", "status", "annotate"} =>
           pc \in {"reset", "status", "annotate"} \/ ~IsChangingVersion(mdb)
  PROVE  NativeInv'
<1>1. IsChangingVersion(mdb)' <=> IsChangingVersion(mdb)
  BY DEF IsChangingVersion
<1>2. QED
  BY <1>1 DEF NativeInv

\* NativeInv is inductive when versions change and the deployment never shrinks,
\* or the other way round.
LEMMA NativeStep ==
  ASSUME RolloutFollows, "version" \in EditKinds => OneEditAtATime /\ SizesInv,
         "version" \in EditKinds => "down" \notin EditKinds,
         RolloutInvs, NativeInv, [Next]_vars
  PROVE  NativeInv'
<1>1. /\ FetchedInv /\ TemplateInv /\ RolloutInv /\ PodsInv /\ TypeOK /\ DeployedInv
      /\ TemplateFollows /\ ~InFlightEdits /\ ~StaleReads
      /\ pc \notin {"idle", "annotate"} => snap = mdb
      /\ mdb.currentReplicas = mdb.currentMembers
  BY DEF RolloutInvs, FetchedInv, DeployedInv, ConfigInv, RolloutFollows, TemplateFollows
<1> USE <1>1
<1>2. pc \in {"reset", "status", "annotate"} => sts.version = mdb.version
  BY DEF DeployedInv, FetchedInv, StatefulSetDeployed, StatefulSetMatches, Matches
<1>3. CASE \/ Dequeue \/ Prepare \/ LookupError \/ ApiError \/ TLSConfigNotValid
           \/ AnnotateError \/ StatusError \/ Crash \/ ReadAutomationConfig
  <2>1. UNCHANGED <<mdb, sts, pods>> /\ pc' \notin {"reset", "status", "annotate"}
    BY <1>3 DEF Dequeue, Prepare, LookupError, ApiError, TLSConfigNotValid, AnnotateError,
                StatusError, Crash, ReadAutomationConfig, Return, k8s
  <2>2. QED
    BY <2>1, NativeFrame
<1>4. CASE EnsureSecret
  <2>1. UNCHANGED <<mdb, sts, pods>> /\ pc' \in {"agents", "failed"}
    BY <1>4 DEF EnsureSecret
  <2>2. QED
    BY <2>1, NativeFrame
<1>5. CASE WaitForAgents
  <2>1. /\ UNCHANGED <<mdb, ac, sts, pods>> /\ pc = "agents"
        /\ pc' \in {"agents", "writeSts", "reset", "pending"}
    BY <1>5, AgentsEffect
  <2>2. CASE pc' # "reset" \/ ~IsChangingVersion(mdb)
    BY <2>1, <2>2, NativeFrame
  <2>3. CASE pc' = "reset" /\ IsChangingVersion(mdb)
    <3>1. /\ "version" \in EditKinds /\ Existing
          /\ NextSize = mdb.members /\ sts.replicas = NextSize
      BY <2>3, NextSizeMoves DEF RolloutInv, TemplateInv, Existing
    <3>2. Existing' /\ RolloutInvs'
      BY <2>1, <3>1, RolloutInvsStep DEF Existing
    <3>3. AlmostRolled(sts.replicas)' /\ sts'.version = mdb'.version
      BY <2>3, <3>2 DEF RolloutInvs, WaitedInv, FetchedInv, DeployedInv,
                        StatefulSetDeployed, StatefulSetMatches
    <3>4. ASSUME NEW i \in Ordinals, pods[i].up
          PROVE  pods[i].version = mdb.version
      <4>1. i < sts.replicas
        BY <3>1, <3>4 DEF NativeInv
      <4>2. QED
        BY <2>1, <3>3, <3>4, <4>1 DEF AlmostRolled, FromTemplate, Expected
    <3>5. QED
      BY <2>1, <3>4 DEF NativeInv
  <2>4. QED
    BY <2>2, <2>3
<1>6. CASE CreateOrUpdateStatefulSet
  <2>1. /\ UNCHANGED <<mdb, pods>> /\ pc = "writeSts" /\ pc' = "stsStatus"
        /\ sts' = buildStatefulSet(sts, mdb)
    BY <1>6 DEF CreateOrUpdateStatefulSet, SeenSts
  <2>2. /\ sts'.version = mdb.version /\ sts'.replicas = NextSize
        /\ sts'.strategy = GetUpdateStrategyType(mdb)
    BY <2>1, BuiltStatefulSetType, NextSizeMoves DEF TypeOK
  <2>3. sts'.strategy = "RollingUpdate" => ~IsChangingVersion(mdb)
    BY <2>2 DEF GetUpdateStrategyType
  <2>4. IsChangingVersion(mdb)' <=> IsChangingVersion(mdb)
    BY <2>1 DEF IsChangingVersion
  <2>5. ASSUME "version" \in EditKinds, NEW i \in Ordinals, pods[i].up
        PROVE  i < sts'.replicas
    <3>1. EditKinds \cap {"down", "both"} = {}
      BY <2>5 DEF TemplateFollows
    <3>2. mdb.currentMembers <= mdb.members /\ sts.replicas \in {mdb.currentMembers, NextSize}
      BY <2>5, <3>1 DEF SizesInv, StatusInv
    <3>3. NextSize \in Nat /\ mdb.currentMembers \in Nat /\ mdb.currentMembers <= NextSize
      BY SMT, <3>2, NextSizeMoves
    <3>4. i < sts.replicas /\ i \in Nat
      BY SMT, <2>5, SizesAssumption DEF NativeInv, Ordinals
    <3>5. QED
      BY SMT, <2>2, <3>2, <3>3, <3>4
  <2>6. QED
    BY <2>1, <2>2, <2>3, <2>4, <2>5 DEF NativeInv
<1>7. CASE CheckStatefulSet
  <2>1. /\ UNCHANGED <<mdb, sts, pods>> /\ pc = "stsStatus"
        /\ pc' \in {"reset", "status", "annotate"} => inOrder
    BY <1>7 DEF CheckStatefulSet, AfterStatefulSet, k8s
  <2>2. inOrder => ~IsChangingVersion(mdb)
    BY <2>1 DEF TemplateInv
  <2>3. QED
    BY <2>1, <2>2, NativeFrame
<1>8. CASE ResetUpdateStrategy
  <2>1. UNCHANGED <<mdb, pods>> /\ pc = "reset"
    BY <1>8 DEF ResetUpdateStrategy
  <2>2. sts'.version = sts.version /\ sts'.replicas = sts.replicas
    BY <1>8 DEF ResetUpdateStrategy, TypeOK, StatefulSet
  <2>3. \A i \in Ordinals : pods[i].up => pods[i].version = mdb.version
    BY <2>1 DEF NativeInv
  <2>4. QED
    BY <1>2, <2>1, <2>2, <2>3 DEF NativeInv
<1>9. CASE UpdateStatus
  <2>1. snap = mdb /\ mdb \in Resource /\ pc = "status" /\ UNCHANGED <<sts, pods>>
    BY ZenonT(30), <1>9 DEF UpdateStatus, TypeOK
  <2>2. PICK ph \in {"Pending", "Running"} : mdb' = Scaled(mdb, ph)
    BY <1>9, <2>1 DEF UpdateStatus
  <2>3. mdb'.version = mdb.version /\ mdb'.lastVersion = mdb.lastVersion
    BY <2>1, <2>2 DEF Scaled, Resource
  <2>4. QED
    BY <2>1, <2>3, NativeFrame
<1>10. CASE GiveUp
  <2>1. mdb'.version = mdb.version /\ mdb'.lastVersion = mdb.lastVersion
    BY <1>10 DEF TypeOK, GiveUp, Resource
  <2>2. UNCHANGED <<sts, pods>> /\ pc' = "idle"
    BY <1>10 DEF GiveUp, Return
  <2>3. QED
    BY <2>1, <2>2, NativeFrame
<1>11. CASE Annotate
  <2>1. mdb'.version = mdb.version
    BY <1>11 DEF TypeOK, Annotate, Resource
  <2>2. UNCHANGED <<sts, pods>> /\ pc = "annotate"
    BY <1>11 DEF Annotate
  <2>3. QED
    BY <2>1, <2>2 DEF NativeInv
<1>12. CASE EditSpec
  <2>1. /\ pc = "idle" /\ pc' = "idle" /\ ~queued /\ UNCHANGED <<sts, pods>>
        /\ mdb'.lastVersion = mdb.lastVersion /\ mdb'.version \in Versions
        /\ Edits(mdb'.members, mdb'.version, mdb'.tls)
    BY <1>12, EditEffect
  <2>2. CASE mdb'.version = mdb.version
    BY <2>1, <2>2, NativeFrame
  <2>3. CASE mdb'.version # mdb.version
    <3>1. "version" \in EditKinds /\ mdb.version # NoVersion
      BY <2>1, <2>3, ConstantsAssumption DEF Edits, TemplateFollows, TypeOK, Resource
    <3>2. mdb.lastVersion = mdb.version
      BY <2>1, <3>1 DEF FetchedInv, TemplateFollows
    <3>3. IsChangingVersion(mdb')
      BY <2>1, <2>3, <3>1, <3>2 DEF IsChangingVersion
    <3>4. QED
      BY <2>1, <3>3 DEF NativeInv
  <2>4. QED
    BY <2>2, <2>3
<1>13. CASE Informers \/ SyncStatefulSetStatus \/ UNCHANGED vars
  <2>1. UNCHANGED pods
    BY <1>13 DEF Informers, SyncMdb, SyncAC, SyncSts, SyncStatefulSetStatus, k8s, vars
  <2>2. QED
    BY <1>13, <2>1, EnvironmentFrame, NativeFrame DEF StatefulSetController
<1>14. ASSUME NEW i \in Ordinals,
              \/ RemovePod(i) \/ RollPod(i) \/ HookDeletesPod(i)
              \/ ReachGoal(i) \/ ReadyWhenDeadlocked(i) \/ LoseReadiness(i)
       PROVE  NativeInv'
  <2>1. \A j \in Ordinals : pods'[j].up => pods[j].up /\ pods'[j].version = pods[j].version
    BY SMT, <1>14 DEF RemovePod, RollPod, HookDeletesPod, ReachGoal, ReadyWhenDeadlocked,
                 LoseReadiness, NoPod, TypeOK, Pod
  <2>2. UNCHANGED <<mdb, sts, pc>>
    BY <1>14 DEF RemovePod, RollPod, HookDeletesPod, ReachGoal, ReadyWhenDeadlocked,
                 LoseReadiness, podEnv
  <2>3. QED
    BY <2>1, <2>2, NativeFrame
<1>15. ASSUME NEW i \in Ordinals, CreatePod(i)
       PROVE  NativeInv'
  <2>1. /\ \A j \in Ordinals : j # i => pods'[j] = pods[j]
        /\ pods'[i].version = sts.version /\ i < sts.replicas
    BY <1>15 DEF CreatePod, Expected, TypeOK, NoPod
  <2>2. UNCHANGED <<mdb, sts, pc>>
    BY <1>15 DEF CreatePod, podEnv
  <2>a. sts.replicas # 0
    BY SMT, <2>1, SizesAssumption DEF Ordinals
  <2>3. sts.exists
    BY <2>a DEF FetchedInv
  <2>4. ~IsChangingVersion(mdb) => sts.version = mdb.version
    BY <2>3 DEF TemplateInv
  <2>5. IsChangingVersion(mdb)' <=> IsChangingVersion(mdb)
    BY <2>2 DEF IsChangingVersion
  <2>6. QED
    BY <1>2, <2>1, <2>2, <2>4, <2>5 DEF NativeInv
<1>16. QED
  BY <1>3, <1>4, <1>5, <1>6, <1>7, <1>8, <1>9, <1>10, <1>11, <1>12, <1>13, <1>14, <1>15
  DEF Next, Reconcile, Faults, StatefulSetController, Agents

\* NoNativeUpgrade: when versions change and the deployment never shrinks, or
\* the other way round, Kubernetes rolls no pod to another version.
THEOREM HookUpgrades ==
  RolloutFollows /\ ("version" \notin EditKinds \/ "down" \notin EditKinds) =>
    (Spec => NoNativeUpgrade)
<1>1. SUFFICES ASSUME RolloutFollows, "version" \notin EditKinds \/ "down" \notin EditKinds
               PROVE  Spec => NoNativeUpgrade
  OBVIOUS
<1>2. "version" \in EditKinds => OneEditAtATime
  BY <1>1 DEF OneEditAtATime, SafeEdits, RolloutFollows, TemplateFollows
<1> DEFINE Sized == "version" \in EditKinds => SizesInv
           Inv   == Sized /\ RolloutInvs /\ NativeInv
<1>3. Init => Inv
  <2>1. Init => RolloutInvs /\ Sized
    BY <1>2, SizesInit, RolloutInvsInit
  <2>2. Init => NativeInv
    BY SMT, NewResource DEF NativeInv, NoPod
  <2>3. QED
    BY <2>1, <2>2
<1>4. Inv /\ [Next]_vars => Inv'
  BY <1>1, <1>2, SizesStep, RolloutInvsStep, NativeStep
<1>5. ASSUME RolloutInvs, NativeInv, NEW i \in Ordinals, pods[i].up, i < sts.replicas,
             sts.strategy = "RollingUpdate"
      PROVE  pods[i].version = sts.version
  <2>1. sts.exists
    BY SMT, <1>5, SizesAssumption DEF RolloutInvs, FetchedInv, Ordinals
  <2>2. QED
    BY <1>5, <2>1 DEF NativeInv
<1>6. Inv /\ [Next]_vars =>
        [\A i \in Ordinals :
           pods[i].up /\ ~pods'[i].up /\ i < sts.replicas /\ sts.strategy = "RollingUpdate"
             => pods[i].version = sts.version]_vars
  BY <1>5
<1> HIDE DEF Inv
<1>7. QED
  BY <1>3, <1>4, <1>6, PTL DEF Spec, NoNativeUpgrade

=============================================================================
