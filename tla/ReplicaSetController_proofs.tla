--------------------- MODULE ReplicaSetController_proofs ---------------------
(***************************************************************************)
(* Proofs about ReplicaSetController, for every choice of its constants    *)
(* that satisfies the hypotheses each theorem names.                       *)
(***************************************************************************)
EXTENDS ReplicaSetController, FiniteSetTheorems, TLAPS

USE Zenon

-----------------------------------------------------------------------------
(* Facts about the operators. *)

\* From any recorded size, the size of this reconciliation is one a deployment
\* can have.
LEMMA ReplicasType ==
  ASSUME NEW c \in 0..MaxMembers, NEW d \in Sizes
  PROVE  ReplicasThisReconciliation(c, d) \in 1..MaxMembers
BY SMT, SizesAssumption DEF ReplicasThisReconciliation, IsScalingDown, Sizes

\* The members and replicas of this reconciliation, for a well-formed resource.
LEMMA ThisReconciliationType ==
  ASSUME NEW m \in Resource
  PROVE  /\ AutomationConfigMembersThisReconciliation(m) \in 1..MaxMembers
         /\ StatefulSetReplicasThisReconciliation(m) \in 1..MaxMembers
<1>1. /\ m.members \in Sizes
      /\ m.currentMembers \in 0..MaxMembers
      /\ m.currentReplicas \in 0..MaxMembers
  BY DEF Resource
<1>2. QED
  BY <1>1, ReplicasType DEF AutomationConfigMembersThisReconciliation,
                            StatefulSetReplicasThisReconciliation

\* A config built from well-formed parts is well formed; it has members.
LEMMA BuiltConfigType ==
  ASSUME NEW prev \in AutomationConfig, NEW m \in Resource
  PROVE  /\ buildAutomationConfig(prev, m) \in AutomationConfig
         /\ buildAutomationConfig(prev, m).members =
              AutomationConfigMembersThisReconciliation(m)
         /\ buildAutomationConfig(prev, m).members # 0
         /\ buildAutomationConfig(prev, m).mongodb = m.version
         /\ buildAutomationConfig(prev, m).tls = m.tls
         /\ buildAutomationConfig(prev, m).version \in {prev.version, prev.version + 1}
         /\ ~AreEqual(prev, buildAutomationConfig(prev, m)) =>
              buildAutomationConfig(prev, m).version = prev.version + 1
<1> DEFINE n == AutomationConfigMembersThisReconciliation(m)
<1>1. n \in 1..MaxMembers
  BY ThisReconciliationType
<1>2. m.version \in Versions /\ m.tls \in BOOLEAN /\ prev.version \in Nat
  BY DEF Resource, AutomationConfig
<1> HIDE DEF n
<1>3. QED
  BY SMT, <1>1, <1>2, SizesAssumption
  DEF n, buildAutomationConfig, AutomationConfig, AreEqual, Version

\* What the operator writes to the StatefulSet.
LEMMA BuiltStatefulSetType ==
  ASSUME NEW s \in StatefulSet, NEW m \in Resource
  PROVE  /\ buildStatefulSet(s, m) \in StatefulSet
         /\ buildStatefulSet(s, m).exists
         /\ buildStatefulSet(s, m).replicas = StatefulSetReplicasThisReconciliation(m)
         /\ buildStatefulSet(s, m).version = m.version
         /\ buildStatefulSet(s, m).tls = (s.tls \/ m.tls)
         /\ buildStatefulSet(s, m).strategy = GetUpdateStrategyType(m)
<1> DEFINE n == StatefulSetReplicasThisReconciliation(m)
           t == GetUpdateStrategyType(m)
<1>1. n \in 0..MaxMembers
  BY SMT, ThisReconciliationType, SizesAssumption
<1>2. m.version \in Version /\ (s.tls \/ m.tls) \in BOOLEAN
  BY DEF Resource, Version
<1>3. t \in {"RollingUpdate", "OnDelete"}
  BY DEF GetUpdateStrategyType
<1> HIDE DEF n, t
<1>4. QED
  BY <1>1, <1>2, <1>3 DEF n, t, buildStatefulSet, StatefulSet

-----------------------------------------------------------------------------
(* Type correctness. *)

\* An edit leaves a well-formed resource well formed and touches only the spec.
LEMMA EditType ==
  ASSUME TypeOK, EditSpec
  PROVE  /\ mdb' \in Resource
         /\ mdb'.currentMembers = mdb.currentMembers
         /\ mdb'.currentReplicas = mdb.currentReplicas
         /\ mdb'.phase = mdb.phase
         /\ mdb'.lastVersion = mdb.lastVersion
<1>1. PICK m \in Sizes, v \in Versions, t \in BOOLEAN :
        mdb' = [mdb EXCEPT !.members = m, !.version = v, !.tls = t,
                           !.gen = mdb.gen + 1]
  BY DEF EditSpec
<1>2. mdb \in Resource
  BY DEF TypeOK
<1>3. mdb.gen \in Nat /\ mdb.gen + 1 \in Nat
  <2>1. mdb.gen \in Nat
    BY <1>2 DEF Resource
  <2>2. QED
    BY SMT, <2>1
<1>4. mdb' \in Resource
  BY <1>1, <1>2, <1>3 DEF Resource
<1>5. QED
  BY <1>1, <1>2, <1>4 DEF Resource

\* There are finitely many pods.
LEMMA OrdinalsFinite == IsFiniteSet(Ordinals) /\ Cardinality(Ordinals) = MaxMembers
BY SMT, SizesAssumption, FS_Interval DEF Ordinals

\* The counts in the StatefulSet's status stay within its pods.
LEMMA CountsType ==
  ASSUME NEW S \in SUBSET Ordinals
  PROVE  Cardinality(S) \in 0..MaxMembers
BY SMT, OrdinalsFinite, FS_Subset, FS_CardinalityType, SizesAssumption

\* A pod action writes a well-formed pod.
LEMMA PodType ==
  ASSUME TypeOK, NEW i \in Ordinals, NEW p \in Pod,
         pods' = [pods EXCEPT ![i] = p], UNCHANGED podEnv
  PROVE  TypeOK'
BY DEF TypeOK, PodLoopType, podEnv, locals, caches

\* A pod's report and readiness are well formed.
LEMMA ReportType ==
  ASSUME NEW p \in Pod, NEW g \in Nat, NEW b \in BOOLEAN
  PROVE  /\ [p EXCEPT !.goal = g, !.ready = TRUE] \in Pod
         /\ [p EXCEPT !.ready = b] \in Pod
BY DEF Pod

\* After Reconcile returns its locals are out of scope.
LEMMA ReturnType ==
  ASSUME Return
  PROVE  /\ pc' = "idle" /\ snap' = NoResource /\ inOrder' \in BOOLEAN
         /\ stsFound' \in BOOLEAN /\ curAC' \in AutomationConfig /\ target' \in Nat
<1>1. NoAC \in AutomationConfig
  BY SMT, SizesAssumption DEF NoAC, AutomationConfig, Version
<1>2. QED
  BY <1>1 DEF Return

\* The check of the agents reads a pod, or ends: then the reconciliation goes on or waits.
LEMMA AgentsEffect ==
  ASSUME WaitForAgents
  PROVE  /\ pc = "agents"
         /\ pc' \in {"agents", IF inOrder THEN "writeSts" ELSE "reset", "pending"}
         /\ UNCHANGED <<mdb, ac, sts, pods, snap, inOrder, curAC, queued, faults,
                        mdbCache, acCache, stsCache>>
<1>1. /\ pc = "agents"
      /\ UNCHANGED <<mdb, ac, sts, pods, snap, inOrder, curAC, queued, faults,
                     mdbCache, acCache, stsCache>>
  BY DEF WaitForAgents, k8s, caches
<1>2. pc' \in {pc, AfterAutomationConfig, "pending"}
  BY DEF WaitForAgents, AllReachedGoalState
<1>3. QED
  BY <1>1, <1>2 DEF AfterAutomationConfig

\* The check of the agents counts pods.
LEMMA LoopType ==
  ASSUME TypeOK, [Next]_vars
  PROVE  PodLoopType'
<1>1. podsRead \in Nat /\ podsNotFound \in Nat
  BY DEF TypeOK, PodLoopType
<1>2. CASE WaitForAgents
  <2>1. /\ podsRead' \in {0, podsRead, podsRead + 1}
        /\ podsNotFound' \in {podsNotFound, podsNotFound + 1}
    BY <1>2 DEF WaitForAgents, AllReachedGoalState, NotFound, podLoop
  <2>2. QED
    BY SMT, <1>1, <2>1 DEF PodLoopType
<1>3. CASE EnsureSecret \/ GiveUp \/ Annotate \/ StatusError \/ AnnotateError \/ Crash
  <2>1. podsRead' = 0 /\ podsNotFound' = 0
    BY <1>3 DEF EnsureSecret, GiveUp, Annotate, StatusError, AnnotateError, Crash, Return
  <2>2. QED
    BY SMT, <2>1 DEF PodLoopType
<1>4. CASE UpdateStatus
  <2>1. \/ podsRead' = 0 /\ podsNotFound' = 0
        \/ podsRead' = podsRead /\ podsNotFound' = podsNotFound
    BY <1>4 DEF UpdateStatus, Return, locals
  <2>2. QED
    BY SMT, <1>1, <2>1 DEF PodLoopType
<1>5. CASE \/ Dequeue \/ Prepare \/ ReadAutomationConfig \/ CreateOrUpdateStatefulSet
           \/ CheckStatefulSet \/ ResetUpdateStrategy
           \/ ApiError \/ LookupError \/ TLSConfigNotValid
  <2>1. podsRead' = podsRead /\ podsNotFound' = podsNotFound
    BY <1>5 DEF Dequeue, Prepare, ReadAutomationConfig, CreateOrUpdateStatefulSet,
                CheckStatefulSet, ResetUpdateStrategy, ApiError, LookupError,
                TLSConfigNotValid, podLoop, locals
  <2>2. QED
    BY <1>1, <2>1 DEF PodLoopType
<1>6. CASE \/ EditSpec \/ Informers \/ StatefulSetController \/ Agents \/ UNCHANGED vars
  <2>1. podsRead' = podsRead /\ podsNotFound' = podsNotFound
    BY <1>6 DEF EditSpec, Informers, SyncMdb, SyncAC, SyncSts, StatefulSetController,
                SyncStatefulSetStatus, CreatePod, RemovePod, RollPod, Agents, ReachGoal,
                ReadyWhenDeadlocked, LoseReadiness, HookDeletesPod, podEnv, locals, vars
  <2>2. QED
    BY <1>1, <2>1 DEF PodLoopType
<1>7. QED
  BY <1>2, <1>3, <1>4, <1>5, <1>6 DEF Next, Reconcile, Faults

\* What UpdateStatus writes.
LEMMA ScaledType ==
  ASSUME NEW m \in Resource, NEW phase \in {"Pending", "Running"}
  PROVE  /\ Scaled(m, phase) \in Resource
         /\ Scaled(m, phase).members = m.members
         /\ Scaled(m, phase).version = m.version
         /\ Scaled(m, phase).tls = m.tls
         /\ Scaled(m, phase).currentMembers = AutomationConfigMembersThisReconciliation(m)
         /\ Scaled(m, phase).currentReplicas = StatefulSetReplicasThisReconciliation(m)
         /\ Scaled(m, phase).phase = phase
<1>1. /\ AutomationConfigMembersThisReconciliation(m) \in 0..MaxMembers
      /\ StatefulSetReplicasThisReconciliation(m) \in 0..MaxMembers
  BY SMT, ThisReconciliationType, SizesAssumption
<1>2. Scaled(m, phase) \in Resource
  BY <1>1 DEF Resource, Scaled
<1>3. QED
  BY <1>1, <1>2 DEF Resource, Scaled

\* Next preserves the types of the objects and of the locals.
LEMMA TypeStep ==
  ASSUME TypeOK, [Next]_vars
  PROVE  TypeOK'
<1>0. PodLoopType'
  BY LoopType
<1> USE SizesAssumption, ConstantsAssumption, <1>0
<1>1. CASE Dequeue
  BY <1>1 DEF TypeOK, Dequeue, SeenMdb, Steps, k8s, caches
<1>2. CASE Prepare \/ LookupError
  <2>1. \A b \in BOOLEAN : shouldRunInOrder(snap, b) \in BOOLEAN
    BY DEF shouldRunInOrder, IsScalingUp, IsScalingDown, IsChangingVersion
  <2>2. CASE Prepare
    BY SMT, <2>1, <2>2 DEF TypeOK, Prepare, SeenSts, Steps, StatefulSet, k8s, caches
  <2>3. CASE LookupError
    <3>1. inOrder' \in BOOLEAN
      BY <2>3 DEF LookupError, shouldRunInOrder, IsScalingUp, IsScalingDown,
                  IsChangingVersion
    <3>2. pc # "idle" /\ pc' \in Steps \ {"idle"} /\ faults' \in Nat
      BY SMT, <2>3 DEF TypeOK, LookupError, Steps
    <3>3. QED
      BY <2>3, <3>1, <3>2 DEF TypeOK, LookupError, k8s, caches
  <2>4. QED
    BY <1>2, <2>2, <2>3
<1>3. CASE ReadAutomationConfig
  BY SMT, <1>3 DEF TypeOK, ReadAutomationConfig, SeenSts, SeenAC, Steps, k8s, caches,
              StatefulSet
<1>4. CASE EnsureSecret
  <2>1. snap \in Resource /\ curAC \in AutomationConfig
    BY <1>4 DEF TypeOK, EnsureSecret
  <2>2. buildAutomationConfig(curAC, snap) \in AutomationConfig
    BY <2>1, BuiltConfigType
  <2>3. ac' \in AutomationConfig /\ target' \in Nat /\ pc' \in {"agents", "failed"}
    BY <1>4, <2>2 DEF TypeOK, EnsureSecret, SeenAC, AutomationConfig
  <2>4. NoAC \in AutomationConfig
    BY SMT DEF NoAC, AutomationConfig, Version
  <2>5. QED
    BY <1>4, <2>1, <2>3, <2>4 DEF TypeOK, EnsureSecret, Steps, caches
<1>5. CASE WaitForAgents
  <2>1. stsFound' \in BOOLEAN /\ target' \in Nat
    <3>1. stsFound' \in {stsFound, FALSE} /\ target' \in {target, 0}
      BY <1>5 DEF WaitForAgents, AllReachedGoalState
    <3>2. stsFound \in BOOLEAN /\ target \in Nat
      BY DEF TypeOK
    <3>3. stsFound' \in BOOLEAN
      BY <3>1, <3>2
    <3>4. target' \in Nat
      BY SMT, <3>1, <3>2
    <3>5. QED
      BY <3>3, <3>4
  <2>2. pc' \in Steps \ {"idle"}
    BY <1>5, AgentsEffect DEF Steps
  <2>3. QED
    BY <1>5, <2>1, <2>2, AgentsEffect DEF TypeOK
<1>6. CASE CreateOrUpdateStatefulSet
  <2>1. snap \in Resource /\ sts \in StatefulSet
    BY <1>6 DEF TypeOK, CreateOrUpdateStatefulSet
  <2>2. sts' \in StatefulSet
    BY <1>6, <2>1, BuiltStatefulSetType DEF CreateOrUpdateStatefulSet
  <2>3. QED
    BY <1>6, <2>1, <2>2 DEF TypeOK, CreateOrUpdateStatefulSet, Steps, locals, caches
<1>7. CASE CheckStatefulSet
  BY <1>7 DEF TypeOK, CheckStatefulSet, AfterStatefulSet, Steps, k8s, locals, caches
<1>8. CASE ResetUpdateStrategy
  <2>1. snap \in Resource
    BY <1>8 DEF TypeOK, ResetUpdateStrategy
  <2>2. sts \in StatefulSet
    BY DEF TypeOK
  <2>3. ASSUME NEW b \in BOOLEAN
        PROVE  [sts EXCEPT !.strategy = "RollingUpdate", !.observed = b] \in StatefulSet
    BY <2>2 DEF StatefulSet
  <2>4. (sts.observed /\ sts.strategy = "RollingUpdate") \in BOOLEAN
    OBVIOUS
  <2>5. sts' \in StatefulSet
    BY <1>8, <2>2, <2>3, <2>4 DEF ResetUpdateStrategy
  <2>6. QED
    BY <1>8, <2>1, <2>5 DEF TypeOK, ResetUpdateStrategy, Steps, locals, caches
<1>9. CASE UpdateStatus
  <2>1. snap \in Resource
    BY <1>9 DEF TypeOK, UpdateStatus
  <2>2. mdb' \in Resource
    BY SMT, <1>9, <2>1, ScaledType DEF TypeOK, UpdateStatus
  <2>3. CASE Return /\ queued' = TRUE
    BY <1>9, <2>2, <2>3, ReturnType DEF TypeOK, UpdateStatus, Steps, caches
  <2>4. CASE pc' = "annotate" /\ UNCHANGED <<locals, queued>>
    BY <1>9, <2>1, <2>2, <2>4 DEF TypeOK, UpdateStatus, Steps, locals, caches
  <2>5. QED
    BY <1>9, <2>3, <2>4 DEF UpdateStatus
<1>10. CASE GiveUp
  <2>1. mdb' \in Resource
    BY <1>10 DEF TypeOK, GiveUp, Resource
  <2>2. QED
    BY <1>10, <2>1, ReturnType DEF TypeOK, GiveUp, Steps, caches
<1>11. CASE Annotate
  <2>1. snap \in Resource /\ mdb \in Resource
    BY <1>11 DEF TypeOK, Annotate
  <2>2. mdb' \in Resource
    BY <1>11, <2>1 DEF Annotate, Resource, Version
  <2>3. QED
    BY <1>11, <2>2, ReturnType DEF TypeOK, Annotate, Steps, caches
<1>12. CASE ApiError \/ TLSConfigNotValid
  BY SMT, <1>12 DEF TypeOK, ApiError, TLSConfigNotValid, Steps, k8s, locals, caches
<1>13. CASE StatusError
  BY SMT, <1>13, ReturnType DEF TypeOK, StatusError, Steps, k8s, caches
<1>14. CASE AnnotateError
  BY SMT, <1>14, ReturnType DEF TypeOK, AnnotateError, Steps, k8s, caches
<1>15. CASE Crash
  <2>1. mdbCache' \in Resource /\ acCache' \in AutomationConfig /\ stsCache' \in StatefulSet
    BY <1>15 DEF TypeOK, Crash, caches
  <2>2. QED
    BY SMT, <1>15, <2>1, ReturnType DEF TypeOK, Crash, Steps, k8s
<1>16. CASE EditSpec
  BY <1>16, EditType DEF TypeOK, EditSpec, locals, caches
<1>17. CASE Informers
  BY <1>17 DEF TypeOK, Informers, SyncMdb, SyncAC, SyncSts, k8s, locals
<1>18. CASE SyncStatefulSetStatus
  <2>1. /\ Cardinality({i \in Expected : pods[i].up /\ FromTemplate(pods[i])}) \in 0..MaxMembers
        /\ Cardinality({i \in Ordinals : pods[i].up /\ pods[i].ready}) \in 0..MaxMembers
    BY CountsType DEF Expected
  <2>2. sts' \in StatefulSet
    BY <1>18, <2>1 DEF TypeOK, SyncStatefulSetStatus, StatefulSet
  <2>3. QED
    BY <1>18, <2>2 DEF TypeOK, SyncStatefulSetStatus, locals, caches
<1>19. ASSUME NEW i \in Ordinals,
              \/ CreatePod(i) \/ RemovePod(i) \/ RollPod(i) \/ HookDeletesPod(i)
              \/ ReachGoal(i) \/ ReadyWhenDeadlocked(i) \/ LoseReadiness(i)
       PROVE  TypeOK'
  <2>1. NoPod \in Pod
    BY DEF NoPod, Pod, Version
  <2>2. pods \in [Ordinals -> Pod] /\ sts \in StatefulSet /\ ac \in AutomationConfig
    BY DEF TypeOK
  <2>3. \E p \in Pod : pods' = [pods EXCEPT ![i] = p]
    <3>1. CASE CreatePod(i)
      <4>1. [NoPod EXCEPT !.up = TRUE, !.version = sts.version, !.tls = sts.tls] \in Pod
        BY <2>1, <2>2 DEF Pod, StatefulSet
      <4>2. QED
        BY <3>1, <4>1 DEF CreatePod
    <3>2. CASE RemovePod(i) \/ RollPod(i) \/ HookDeletesPod(i)
      BY <3>2, <2>1 DEF RemovePod, RollPod, HookDeletesPod
    <3>3. CASE ReachGoal(i)
      <4>1. pods' = [pods EXCEPT ![i] = [pods[i] EXCEPT !.goal = ac.version,
                                                        !.ready = TRUE]]
        BY <3>3, <2>2 DEF ReachGoal
      <4>2. pods[i] \in Pod /\ ac.version \in Nat
        BY <2>2 DEF AutomationConfig
      <4>3. QED
        BY <4>1, <4>2, ReportType
    <3>4. CASE ReadyWhenDeadlocked(i)
      BY <3>4, <2>2, ReportType DEF ReadyWhenDeadlocked
    <3>5. CASE LoseReadiness(i)
      BY <3>5, <2>2, ReportType DEF LoseReadiness
    <3>6. QED
      BY <1>19, <3>1, <3>2, <3>3, <3>4, <3>5
  <2>4. UNCHANGED podEnv
    BY <1>19 DEF CreatePod, RemovePod, RollPod, HookDeletesPod, ReachGoal,
                 ReadyWhenDeadlocked, LoseReadiness
  <2>5. QED
    BY <2>3, <2>4, PodType
<1>20. CASE UNCHANGED vars
  BY <1>20 DEF TypeOK, vars
<1>21. QED
  BY <1>1, <1>2, <1>3, <1>4, <1>5, <1>6, <1>7, <1>8, <1>9, <1>10, <1>11, <1>12,
     <1>13, <1>14, <1>15, <1>16, <1>17, <1>18, <1>19, <1>20
  DEF Next, Reconcile, Faults, StatefulSetController, Agents

\* The initial state is well typed.
LEMMA InitType == Init => TypeOK
<1> SUFFICES ASSUME Init PROVE TypeOK
  OBVIOUS
<1> USE SizesAssumption, ConstantsAssumption
<1>1. mdb \in Resource
  <2>1. PICK m \in Sizes, v \in InitVersions, t \in InitTLS :
          mdb = [members |-> m, version |-> v, tls |-> t, gen |-> 0,
                 currentMembers |-> 0, currentReplicas |-> 0, phase |-> "",
                 lastVersion |-> NoVersion, lastTLS |-> FALSE]
    BY DEF Init
  <2>2. v \in Versions /\ t \in BOOLEAN /\ NoVersion \in Version /\ 0 \in 0..MaxMembers
    BY SMT DEF Version
  <2>3. QED
    BY <2>1, <2>2 DEF Resource
<1>2. NoAC \in AutomationConfig
  BY SMT DEF NoAC, AutomationConfig, Version
<1>3. NoSts \in StatefulSet
  BY SMT DEF NoSts, StatefulSet, Version
<1>4. NoPod \in Pod
  BY DEF NoPod, Pod, Version
<1>5. PodLoopType
  <2>1. podsRead = 0 /\ podsNotFound = 0
    BY DEF Init
  <2>2. QED
    BY SMT, <2>1 DEF PodLoopType
<1>6. QED
  BY <1>1, <1>2, <1>3, <1>4, <1>5 DEF Init, TypeOK, Steps

\* Every variable keeps its type in every behaviour of the controller.
THEOREM TypeCorrect == Spec => []TypeOK
<1>1. Init => TypeOK
  BY InitType
<1>2. TypeOK /\ [Next]_vars => TypeOK'
  BY TypeStep
<1>3. QED
  BY <1>1, <1>2, PTL DEF Spec

-----------------------------------------------------------------------------
(* The config version.  Only EnsureSecret writes the config, and when reads  *)
(* do not lag the config it builds on is still the current one.              *)

\* ConfigInv is inductive; the second conjunct is why two different configs
\* never share a version.
LEMMA ConfigStep ==
  ASSUME ConfigInv, [Next]_vars, ~StaleReads
  PROVE  /\ ConfigInv'
         /\ ac' # ac => ac'.version = ac.version + 1 /\ ~AreEqual(ac, ac')
<1>1. TypeOK /\ TypeOK'
  BY TypeStep DEF ConfigInv
<1>2. CASE EnsureSecret
  <2> DEFINE desired == buildAutomationConfig(curAC, snap)
  <2>1. snap \in Resource /\ curAC = ac /\ ac \in AutomationConfig
    BY <1>1, <1>2 DEF TypeOK, ConfigInv, EnsureSecret
  <2>2. /\ desired.members # 0
        /\ desired.version \in {ac.version, ac.version + 1}
        /\ ~AreEqual(ac, desired) => desired.version = ac.version + 1
    BY <2>1, BuiltConfigType
  <2> HIDE DEF desired
  <2>3. CASE ac' = ac
    BY <1>1, <1>2, <2>3 DEF ConfigInv, EnsureSecret
  <2>4. CASE ac' = desired /\ (ac.version = 0 \/ ~AreEqual(desired, ac))
    <3>1. ~AreEqual(ac, desired)
      BY SMT, <2>2, <2>4 DEF ConfigInv, AreEqual, NoAC
    <3>2. desired.version = ac.version + 1 /\ ac.version + 1 # 0
      BY SMT, <2>1, <2>2, <3>1 DEF AutomationConfig
    <3>3. pc' # "ensureAC"
      BY <1>2 DEF EnsureSecret
    <3>4. QED
      BY <1>1, <2>4, <3>1, <3>2, <3>3 DEF ConfigInv
  <2>5. QED
    BY <1>2, <2>1, <2>3, <2>4 DEF EnsureSecret, SeenAC, desired
<1>3. CASE ReadAutomationConfig
  BY <1>1, <1>3 DEF ConfigInv, ReadAutomationConfig, SeenAC, k8s
<1>4. CASE ac' = ac /\ (pc' = "ensureAC" => pc = "ensureAC" /\ curAC' = curAC)
  BY <1>1, <1>4 DEF ConfigInv
<1>5. ~EnsureSecret /\ ~ReadAutomationConfig =>
        ac' = ac /\ (pc' = "ensureAC" => pc = "ensureAC" /\ curAC' = curAC)
  <2>0. CASE WaitForAgents
    BY <2>0, AgentsEffect
  <2>1. CASE Dequeue \/ Prepare \/ CheckStatefulSet
    BY <2>1 DEF Dequeue, Prepare, CheckStatefulSet, k8s, AfterStatefulSet
  <2>2. CASE CreateOrUpdateStatefulSet \/ ResetUpdateStrategy
    BY <2>2 DEF CreateOrUpdateStatefulSet, ResetUpdateStrategy
  <2>3. CASE UpdateStatus \/ GiveUp \/ Annotate
    BY <2>3 DEF UpdateStatus, GiveUp, Annotate, Return
  <2>4. CASE Faults
    BY <2>4 DEF Faults, ApiError, LookupError, TLSConfigNotValid, StatusError,
                AnnotateError, Crash, Return, k8s
  <2>5. CASE EditSpec \/ Informers \/ SyncStatefulSetStatus
    BY <2>5 DEF EditSpec, Informers, SyncMdb, SyncAC, SyncSts,
                SyncStatefulSetStatus, k8s, locals
  <2>6. ASSUME NEW i \in Ordinals,
               \/ CreatePod(i) \/ RemovePod(i) \/ RollPod(i) \/ HookDeletesPod(i)
               \/ ReachGoal(i) \/ ReadyWhenDeadlocked(i) \/ LoseReadiness(i)
        PROVE  ac' = ac /\ pc' = pc /\ curAC' = curAC
    BY <2>6 DEF CreatePod, RemovePod, RollPod, HookDeletesPod, ReachGoal,
                ReadyWhenDeadlocked, LoseReadiness, podEnv, locals
  <2>7. CASE UNCHANGED vars
    BY <2>7 DEF vars
  <2>8. QED
    BY <2>0, <2>1, <2>2, <2>3, <2>4, <2>5, <2>6, <2>7
    DEF Next, Reconcile, StatefulSetController, Agents
<1>6. QED
  BY <1>2, <1>3, <1>4, <1>5

-----------------------------------------------------------------------------
(* Nothing left behind.  Each half, once deployed, stays what the fetched    *)
(* resource asks for until the reconciliation ends.                          *)

\* Pods, probes and informers change neither the resource, nor the config, nor
\* the spec of the StatefulSet, nor the reconciliation.
LEMMA EnvironmentFrame ==
  ASSUME TypeOK, ~StaleReads, Informers \/ StatefulSetController \/ Agents \/ UNCHANGED vars
  PROVE  /\ UNCHANGED <<mdb, ac, pc, snap, inOrder, queued, curAC, stsFound, target, podsRead, podsNotFound>>
         /\ sts'.exists = sts.exists /\ sts'.replicas = sts.replicas
         /\ sts'.version = sts.version /\ sts'.tls = sts.tls
         /\ sts'.strategy = sts.strategy
<1>1. CASE Informers
  BY <1>1 DEF Informers, SyncMdb, SyncAC, SyncSts, k8s, locals
<1>2. CASE SyncStatefulSetStatus
  BY <1>2 DEF TypeOK, SyncStatefulSetStatus, StatefulSet, locals
<1>3. ASSUME NEW i \in Ordinals,
             \/ CreatePod(i) \/ RemovePod(i) \/ RollPod(i) \/ HookDeletesPod(i)
             \/ ReachGoal(i) \/ ReadyWhenDeadlocked(i) \/ LoseReadiness(i)
      PROVE  UNCHANGED <<mdb, ac, sts, pc, snap, inOrder, queued, curAC, stsFound, target, podsRead, podsNotFound>>
  BY <1>3 DEF CreatePod, RemovePod, RollPod, HookDeletesPod, ReachGoal,
              ReadyWhenDeadlocked, LoseReadiness, podEnv, locals
<1>4. CASE UNCHANGED vars
  BY <1>4 DEF vars
<1>5. QED
  BY <1>1, <1>2, <1>3, <1>4 DEF StatefulSetController, Agents

\* DeployedInv is inductive.
LEMMA DeployedStep ==
  ASSUME DeployedInv, [Next]_vars, ~StaleReads
  PROVE  DeployedInv'
<1>1. TypeOK /\ TypeOK' /\ ConfigInv'
  BY TypeStep, ConfigStep DEF DeployedInv, ConfigInv
<1> USE <1>1
<1> USE DEF ConfigDeployed, StatefulSetDeployed
<1>2. CASE Dequeue
  BY <1>2 DEF DeployedInv, Dequeue, SeenMdb, k8s
<1>3. CASE Prepare \/ LookupError
  BY <1>3 DEF DeployedInv, Prepare, LookupError, k8s
<1>4. CASE ReadAutomationConfig
  BY <1>4 DEF DeployedInv, ReadAutomationConfig, StatefulSetMatches, k8s
<1>5. CASE EnsureSecret
  <2> DEFINE desired == buildAutomationConfig(curAC, snap)
  <2>1. snap \in Resource /\ curAC = ac /\ ac \in AutomationConfig
    BY <1>5 DEF TypeOK, DeployedInv, ConfigInv, EnsureSecret
  <2>2. /\ desired.members = AutomationConfigMembersThisReconciliation(snap)
        /\ desired.mongodb = snap.version /\ desired.tls = snap.tls
    BY <2>1, BuiltConfigType
  <2> HIDE DEF desired
  <2>3. pc' = "agents" => ConfigMatches(snap)'
    BY <1>5, <2>1, <2>2 DEF EnsureSecret, ConfigMatches, AreEqual, SeenAC, desired,
                            AutomationConfigMembersThisReconciliation
  <2>4. UNCHANGED <<mdb, snap, sts, inOrder>> /\ pc' \in {"agents", "failed"}
    BY <1>5 DEF EnsureSecret
  <2>5. /\ pc = "ensureAC"
        /\ StatefulSetMatches(snap)' = StatefulSetMatches(snap)
        /\ GetUpdateStrategyType(snap)' = GetUpdateStrategyType(snap)
    BY <1>5, <2>4 DEF EnsureSecret, StatefulSetMatches, GetUpdateStrategyType,
                      IsChangingVersion
  <2>6. StatefulSetDeployed' => StatefulSetDeployed
    BY <2>4, <2>5
  <2>7. QED
    BY <2>3, <2>4, <2>5, <2>6 DEF DeployedInv
<1>6. CASE WaitForAgents
  BY <1>6, AgentsEffect DEF DeployedInv, ConfigMatches, StatefulSetMatches
<1>7. CASE CreateOrUpdateStatefulSet
  <2>1. snap \in Resource /\ sts \in StatefulSet
    BY <1>7 DEF TypeOK, CreateOrUpdateStatefulSet
  <2>2. pc' = "stsStatus" => /\ StatefulSetMatches(snap)'
                             /\ sts'.strategy = GetUpdateStrategyType(snap)
    <3>1. snap' = snap /\ (pc' = "stsStatus" => sts' = buildStatefulSet(sts, snap))
      BY <1>7 DEF CreateOrUpdateStatefulSet, locals
    <3>0. LET b == buildStatefulSet(sts, snap) IN
            /\ b.replicas = StatefulSetReplicasThisReconciliation(snap)
            /\ b.version = snap.version /\ b.tls = (sts.tls \/ snap.tls)
            /\ b.strategy = GetUpdateStrategyType(snap)
      BY <2>1, BuiltStatefulSetType
    <3>2. pc' = "stsStatus" =>
            /\ sts'.replicas = StatefulSetReplicasThisReconciliation(snap)
            /\ sts'.version = snap.version /\ (snap.tls => sts'.tls)
            /\ sts'.strategy = GetUpdateStrategyType(snap)
      BY <3>0, <3>1
    <3>3. pc' = "stsStatus" => StatefulSetMatches(snap)'
      BY ZenonT(30), <3>1, <3>2
      DEF StatefulSetMatches, StatefulSetReplicasThisReconciliation
    <3>4. QED
      BY <3>2, <3>3
  <2>3. UNCHANGED <<mdb, snap, ac, inOrder>> /\ pc' \in {"stsStatus", "failed"}
    BY <1>7 DEF CreateOrUpdateStatefulSet, locals
  <2>4. QED
    BY <1>7, <2>2, <2>3 DEF DeployedInv, CreateOrUpdateStatefulSet, ConfigMatches
<1>8. CASE CheckStatefulSet
  BY <1>8 DEF DeployedInv, CheckStatefulSet, AfterStatefulSet, ConfigMatches,
              StatefulSetMatches, k8s, locals
<1>9. CASE ResetUpdateStrategy
  <2>1. /\ sts'.replicas = sts.replicas /\ sts'.version = sts.version
        /\ sts'.tls = sts.tls
        /\ pc' = "status" => sts'.strategy = "RollingUpdate"
    BY <1>9 DEF TypeOK, DeployedInv, ResetUpdateStrategy, StatefulSet,
                GetUpdateStrategyType
  <2>2. QED
    BY <1>9, <2>1 DEF DeployedInv, ResetUpdateStrategy, ConfigMatches,
                      StatefulSetMatches, locals
<1>10. CASE UpdateStatus
  <2>1. snap \in Resource /\ snap.currentReplicas = snap.currentMembers
    BY <1>10 DEF TypeOK, UpdateStatus, DeployedInv
  <2>2. AutomationConfigMembersThisReconciliation(snap) =
          StatefulSetReplicasThisReconciliation(snap)
    BY <2>1 DEF AutomationConfigMembersThisReconciliation,
                StatefulSetReplicasThisReconciliation
  <2>3. mdb'.currentReplicas = mdb'.currentMembers
    <3>1. CASE mdb' = mdb
      BY <3>1 DEF DeployedInv
    <3>2. CASE mdb' = Scaled(snap, "Pending") \/ mdb' = Scaled(snap, "Running")
      BY SMT, <3>2, <2>1, <2>2, ScaledType
    <3>3. QED
      BY <1>10, <3>1, <3>2 DEF UpdateStatus
  <2>4. CASE Return /\ queued' = TRUE
    BY <2>3, <2>4 DEF DeployedInv, Return, NoResource
  <2>5. CASE pc' = "annotate" /\ UNCHANGED <<locals, queued>>
    <3>1. /\ mdb'.members = snap.members /\ mdb'.version = snap.version
          /\ mdb'.tls = snap.tls /\ mdb'.phase = "Running"
      BY SMT, <1>10, <2>1, <2>5, ScaledType DEF UpdateStatus, Return
    <3>2. /\ StatefulSetReplicasThisReconciliation(snap) = snap.members
          /\ sts' = sts /\ ac' = ac
      BY <1>10, <2>5 DEF UpdateStatus, Return, IsStillScaling,
                         StatefulSetReplicasThisReconciliation
    <3>3. /\ ConfigMatches(snap) /\ StatefulSetMatches(snap)
          /\ sts.strategy = "RollingUpdate"
      BY <1>10 DEF DeployedInv, UpdateStatus
    <3>4. Matches'
      BY <2>2, <3>1, <3>2, <3>3 DEF ConfigMatches, StatefulSetMatches, Matches
    <3>5. QED
      BY <2>3, <2>5, <3>1, <3>4 DEF DeployedInv, locals
  <2>6. QED
    BY <1>10, <2>4, <2>5 DEF UpdateStatus
<1>11. CASE GiveUp
  BY <1>11 DEF TypeOK, DeployedInv, GiveUp, Return, NoResource, Resource
<1>12. CASE Annotate
  <2>1. /\ mdb'.members = mdb.members /\ mdb'.version = mdb.version
        /\ mdb'.tls = mdb.tls /\ mdb'.phase = mdb.phase
        /\ mdb'.currentMembers = mdb.currentMembers
        /\ mdb'.currentReplicas = mdb.currentReplicas
    BY <1>12 DEF TypeOK, Annotate, Resource
  <2>2. QED
    BY <1>12, <2>1 DEF DeployedInv, Annotate, Return, Matches, NoResource
<1>13. CASE ApiError \/ TLSConfigNotValid
  BY <1>13 DEF DeployedInv, ApiError, TLSConfigNotValid, k8s, locals
<1>14. CASE StatusError \/ Crash
  <2>1. Return /\ queued' = TRUE /\ UNCHANGED k8s
    BY <1>14 DEF StatusError, Crash
  <2>2. QED
    BY <2>1 DEF DeployedInv, Return, NoResource, k8s
<1>15. CASE AnnotateError
  BY <1>15 DEF DeployedInv, AnnotateError, Return, Matches, NoResource, k8s
<1>16. CASE EditSpec
  BY <1>16, EditType DEF DeployedInv, EditSpec, ConfigMatches, StatefulSetMatches, locals
<1>17. CASE Informers \/ StatefulSetController \/ Agents \/ UNCHANGED vars
  <2>1. /\ UNCHANGED <<mdb, ac, pc, snap, inOrder, queued>>
        /\ sts'.exists = sts.exists /\ sts'.replicas = sts.replicas
        /\ sts'.version = sts.version /\ sts'.tls = sts.tls
        /\ sts'.strategy = sts.strategy
    BY <1>1, <1>17, EnvironmentFrame
  <2>2. ConfigMatches(snap)' = ConfigMatches(snap)
    BY <2>1 DEF ConfigMatches
  <2>3. StatefulSetMatches(snap)' = StatefulSetMatches(snap)
    BY <2>1 DEF StatefulSetMatches
  <2>4. Matches' = Matches
    BY <2>1 DEF Matches
  <2>5. /\ ConfigDeployed' = ConfigDeployed
        /\ StatefulSetDeployed' = StatefulSetDeployed
    BY <2>1 DEF ConfigDeployed, StatefulSetDeployed
  <2>6. QED
    BY <1>1, <2>1, <2>2, <2>3, <2>4, <2>5 DEF DeployedInv
<1>18. QED
  BY <1>2, <1>3, <1>4, <1>5, <1>6, <1>7, <1>8, <1>9, <1>10, <1>11, <1>12, <1>13,
     <1>14, <1>15, <1>16, <1>17
  DEF Next, Reconcile, Faults

\* Before the first reconciliation nothing is deployed, and work is queued.
LEMMA DeployedInit == Init => DeployedInv
<1> SUFFICES ASSUME Init PROVE DeployedInv
  OBVIOUS
<1>1. TypeOK
  BY InitType
<1>2. mdb.currentReplicas = 0 /\ mdb.currentMembers = 0
  <2>1. PICK m \in Sizes, v \in InitVersions, t \in InitTLS :
          mdb = [members |-> m, version |-> v, tls |-> t, gen |-> 0,
                 currentMembers |-> 0, currentReplicas |-> 0, phase |-> "",
                 lastVersion |-> NoVersion, lastTLS |-> FALSE]
    BY DEF Init
  <2>2. QED
    BY <2>1
<1>3. ac = NoAC /\ pc = "idle" /\ queued = TRUE /\ snap = NoResource
  BY DEF Init
<1>4. ConfigInv
  BY <1>1, <1>3 DEF ConfigInv
<1>5. ~ConfigDeployed /\ ~StatefulSetDeployed
  BY <1>3 DEF ConfigDeployed, StatefulSetDeployed
<1>6. QED
  BY <1>2, <1>3, <1>4, <1>5 DEF DeployedInv, NoResource

\* At every step of a reconciliation, the half it has deployed is what the
\* fetched resource asks for, whatever edits, errors and restarts interleave.
THEOREM DeployedAlways == ~StaleReads => (Spec => []DeployedInv)
<1> SUFFICES ASSUME ~StaleReads PROVE Spec => []DeployedInv
  OBVIOUS
<1>1. DeployedInv /\ [Next]_vars => DeployedInv'
  BY DeployedStep
<1>2. QED
  BY <1>1, DeployedInit, PTL DEF Spec

-----------------------------------------------------------------------------
(* Nothing left behind, when reads lag.  An outdated config can only be      *)
(* mistaken for the one to be deployed if the two are equal; along one edit  *)
(* the configs never come back, so then the config in the secret is that one *)
(* too.                                                                      *)

\* The distance to what a resource ends with.
LEMMA RemainingType ==
  ASSUME NEW m \in Resource, NEW c, c.members \in Nat
  PROVE  Remaining(m, c) \in Nat
<1>1. m.members \in Nat /\ MaxMembers \in Nat
  <2>1. m.members \in Sizes
    BY DEF Resource
  <2>2. QED
    BY SMT, <2>1, SizesAssumption DEF Sizes
<1>2. \A x, y \in Nat : (x <= y => y - x \in Nat) /\ (~(x <= y) => x - y \in Nat)
  BY SMT
<1>3. QED
  BY <1>1, <1>2 DEF Remaining

\* What comes after on the way of an edit stays after.
LEMMA FollowsTransitive ==
  ASSUME NEW m \in Resource, NEW a, NEW b, NEW c,
         a.members \in Nat, b.members \in Nat, c.members \in Nat,
         Follows(m, a, b), Follows(m, b, c)
  PROVE  Follows(m, a, c)
<1>1. \A x, y : AreEqual(x, y) => Remaining(m, x) = Remaining(m, y)
  BY DEF AreEqual, Remaining
<1>2. /\ Remaining(m, a) \in Nat /\ Remaining(m, b) \in Nat
      /\ Remaining(m, c) \in Nat
  BY RemainingType
<1>3. AreEqual(a, b) /\ AreEqual(b, c) => AreEqual(a, c)
  BY DEF AreEqual
<1>4. QED
  BY SMT, <1>1, <1>2, <1>3 DEF Follows

\* An outdated config that equals the one to be deployed is no longer outdated.
LEMMA EqualMeansDeployed ==
  ASSUME NEW m \in Resource, NEW x, NEW a, NEW d,
         x.members \in Nat, a.members \in Nat, d.members \in Nat,
         Follows(m, x, a), Follows(m, a, d), AreEqual(d, x)
  PROVE  AreEqual(d, a)
<1>1. \A y, z : AreEqual(y, z) => Remaining(m, y) = Remaining(m, z)
  BY DEF AreEqual, Remaining
<1>2. /\ Remaining(m, x) \in Nat /\ Remaining(m, a) \in Nat
      /\ Remaining(m, d) \in Nat
  BY RemainingType
<1>3. AreEqual(x, a) => AreEqual(d, a)
  BY DEF AreEqual
<1>4. AreEqual(a, d) => AreEqual(d, a)
  BY DEF AreEqual
<1>5. QED
  BY SMT, <1>1, <1>2, <1>3, <1>4 DEF Follows

\* What a well-formed resource asks for.
LEMMA AsksForType ==
  ASSUME NEW m \in Resource
  PROVE  /\ AsksFor(m).members = AutomationConfigMembersThisReconciliation(m)
         /\ AsksFor(m).members \in 1..MaxMembers
         /\ AsksFor(m).members \in Nat
         /\ AsksFor(m).mongodb = m.version /\ AsksFor(m).tls = m.tls
<1>1. AutomationConfigMembersThisReconciliation(m) \in 1..MaxMembers
  BY ThisReconciliationType
<1>2. QED
  BY SMT, <1>1, SizesAssumption DEF AsksFor

\* Only the spec and the recorded size matter to what a resource asks for.
LEMMA SameSpec ==
  ASSUME NEW m, NEW n, m.members = n.members, m.version = n.version, m.tls = n.tls
  PROVE  /\ \A b, c : Follows(m, b, c) <=> Follows(n, b, c)
         /\ m.currentMembers = n.currentMembers => AsksFor(m) = AsksFor(n)
<1>1. \A c : Remaining(m, c) = Remaining(n, c)
  BY DEF Remaining
<1>2. m.currentMembers = n.currentMembers => AsksFor(m) = AsksFor(n)
  BY DEF AsksFor, AutomationConfigMembersThisReconciliation
<1>3. QED
  BY SMT, <1>1, <1>2 DEF Follows

\* Recording the size of this reconciliation brings the resource closer to its
\* spec.
LEMMA ScaledFollows ==
  ASSUME NEW m \in Resource, NEW phase \in {"Pending", "Running"}
  PROVE  Follows(m, AsksFor(m), AsksFor(Scaled(m, phase)))
<1> DEFINE s == Scaled(m, phase)
           n == AutomationConfigMembersThisReconciliation(m)
<1>1. /\ s \in Resource /\ s.members = m.members /\ s.version = m.version
      /\ s.tls = m.tls /\ s.currentMembers = n
  BY ScaledType
<1> HIDE DEF s
<1>2. /\ AsksFor(m).members = n /\ AsksFor(m).mongodb = m.version
      /\ AsksFor(m).tls = m.tls
  BY AsksForType
<1>3. /\ AsksFor(s).members = ReplicasThisReconciliation(n, m.members)
      /\ AsksFor(s).mongodb = m.version /\ AsksFor(s).tls = m.tls
  BY <1>1, AsksForType DEF AutomationConfigMembersThisReconciliation
<1>4. n \in 1..MaxMembers /\ m.members \in 1..MaxMembers /\ MaxMembers \in Nat
  <2>1. m.members \in Sizes
    BY DEF Resource
  <2>2. QED
    BY SMT, <2>1, ThisReconciliationType, SizesAssumption DEF Sizes
<1> HIDE DEF n
<1>5. \/ ReplicasThisReconciliation(n, m.members) = n
      \/ n < m.members /\ ReplicasThisReconciliation(n, m.members) = n + 1
      \/ n > m.members /\ ReplicasThisReconciliation(n, m.members) = n - 1
  BY SMT, <1>4 DEF ReplicasThisReconciliation, IsScalingDown
<1>6. QED
  BY SMT, <1>2, <1>3, <1>4, <1>5 DEF Follows, AreEqual, Remaining, s

\* A spec that differs from the deployed one asks for something new.
LEMMA EditFollows ==
  ASSUME NEW m \in Resource, NEW n \in Resource,
         m.currentMembers = m.members, n.currentMembers = m.currentMembers,
         \/ n.members # m.members \/ n.version # m.version \/ n.tls # m.tls
  PROVE  Follows(n, AsksFor(m), AsksFor(n))
<1>1. /\ m.members \in 1..MaxMembers /\ n.members \in 1..MaxMembers
      /\ MaxMembers \in Nat
  <2>1. m.members \in Sizes /\ n.members \in Sizes
    BY DEF Resource
  <2>2. QED
    BY SMT, <2>1, SizesAssumption DEF Sizes
<1>2. /\ AsksFor(m).members = m.members /\ AsksFor(m).mongodb = m.version
      /\ AsksFor(m).tls = m.tls
  BY AsksForType DEF AutomationConfigMembersThisReconciliation,
                     ReplicasThisReconciliation
<1>3. /\ AsksFor(n).members = ReplicasThisReconciliation(m.members, n.members)
      /\ AsksFor(n).mongodb = n.version /\ AsksFor(n).tls = n.tls
  BY AsksForType DEF AutomationConfigMembersThisReconciliation
<1>4. \/ m.members = n.members /\ AsksFor(n).members = n.members
      \/ m.members < n.members /\ AsksFor(n).members = m.members + 1
      \/ m.members > n.members /\ AsksFor(n).members = m.members - 1
  BY SMT, <1>1, <1>3 DEF ReplicasThisReconciliation, IsScalingDown
<1>5. QED
  BY SMT, <1>1, <1>2, <1>3, <1>4 DEF Follows, Remaining

\* The configs that OrderInv compares have sizes.
LEMMA OrderTypes ==
  ASSUME TypeOK
  PROVE  /\ mdb \in Resource /\ mdbCache \in Resource
         /\ ac.members \in Nat /\ acCache.members \in Nat
         /\ AsksFor(mdb).members \in Nat /\ AsksFor(mdbCache).members \in Nat
         /\ pc # "idle" => snap \in Resource /\ AsksFor(snap).members \in Nat
<1>1. /\ mdb \in Resource /\ mdbCache \in Resource
      /\ pc # "idle" => snap \in Resource
  BY DEF TypeOK
<1>2. ac.members \in 0..MaxMembers /\ acCache.members \in 0..MaxMembers
  BY DEF TypeOK, AutomationConfig
<1>3. ac.members \in Nat /\ acCache.members \in Nat
  BY SMT, <1>2, SizesAssumption
<1>4. QED
  BY <1>1, <1>3, AsksForType

\* Steps that touch no config, no spec and no recorded size keep the order.
LEMMA OrderFrame ==
  ASSUME OrderInv, UNCHANGED <<ac, acCache, mdbCache>>,
         mdb'.members = mdb.members, mdb'.version = mdb.version, mdb'.tls = mdb.tls,
         mdb'.currentMembers = mdb.currentMembers,
         pc' # "idle" => pc # "idle" /\ snap' = snap
  PROVE  OrderInv'
<1>1. \A b, c : Follows(mdb, b, c) => Follows(mdb', b, c)
  BY SameSpec
<1>2. AsksFor(mdb)' = AsksFor(mdb)
  BY SameSpec
<1>3. AsksFor(mdbCache)' = AsksFor(mdbCache)
  BY DEF AsksFor, AutomationConfigMembersThisReconciliation
<1>4. pc' # "idle" => AsksFor(snap)' = AsksFor(snap)
  BY DEF AsksFor, AutomationConfigMembersThisReconciliation
<1>5. QED
  BY <1>1, <1>2, <1>3, <1>4 DEF OrderInv

\* EnsureSecret leaves the config the fetched resource asks for, even when it
\* compared with an outdated one.
LEMMA EnsureDeploys ==
  ASSUME LagInv, EnsureSecret, StaleReads
  PROVE  /\ OrderInv'
         /\ pc' = "agents" => ConfigMatches(snap)'
<1> DEFINE desired == buildAutomationConfig(curAC, snap)
<1>1. snap \in Resource /\ curAC \in AutomationConfig /\ pc # "idle" /\ pc' # "idle"
  BY DEF LagInv, TypeOK, EnsureSecret
<1>2. /\ desired.members = AsksFor(snap).members
      /\ desired.mongodb = AsksFor(snap).mongodb /\ desired.tls = AsksFor(snap).tls
  BY SMT, <1>1, BuiltConfigType, AsksForType
<1>3. /\ Follows(mdb, acCache, ac) /\ Follows(mdb, ac, AsksFor(mdbCache))
      /\ Follows(mdb, AsksFor(mdbCache), AsksFor(mdb))
      /\ Follows(mdb, ac, AsksFor(snap))
      /\ Follows(mdb, AsksFor(snap), AsksFor(mdbCache))
  BY <1>1 DEF LagInv, OrderInv
<1>4. /\ mdb \in Resource
      /\ ac.members \in Nat /\ acCache.members \in Nat
      /\ AsksFor(mdbCache).members \in Nat /\ AsksFor(snap).members \in Nat
  BY <1>1, OrderTypes DEF LagInv
<1>5. UNCHANGED <<mdb, snap, acCache, mdbCache>>
  BY DEF EnsureSecret, caches
<1>6. /\ AsksFor(snap)' = AsksFor(snap) /\ AsksFor(mdbCache)' = AsksFor(mdbCache)
      /\ AsksFor(mdb)' = AsksFor(mdb)
  BY <1>5 DEF AsksFor, AutomationConfigMembersThisReconciliation
<1> HIDE DEF desired
<1>7. CASE ac' = ac /\ (pc' = "agents" => AreEqual(desired, acCache))
  <2>1. OrderInv'
    BY <1>3, <1>5, <1>6, <1>7 DEF OrderInv
  <2>2. pc' = "agents" => AreEqual(desired, ac)
    <3>1. AreEqual(desired, acCache) => AreEqual(AsksFor(snap), acCache)
      BY <1>2 DEF AreEqual
    <3>2. AreEqual(AsksFor(snap), acCache) => AreEqual(AsksFor(snap), ac)
      BY <1>3, <1>4, EqualMeansDeployed
    <3>3. AreEqual(AsksFor(snap), ac) => AreEqual(desired, ac)
      BY <1>2 DEF AreEqual
    <3>4. QED
      BY <1>7, <3>1, <3>2, <3>3
  <2>3. AreEqual(desired, ac) => ConfigMatches(snap)'
    BY <1>1, <1>2, <1>5, <1>7, AsksForType
    DEF AreEqual, ConfigMatches, AutomationConfigMembersThisReconciliation
  <2>4. QED
    BY <2>1, <2>2, <2>3
<1>8. CASE ac' = desired /\ acCache = ac
  <2>1. AreEqual(AsksFor(snap), ac') /\ ac'.members \in Nat
    BY <1>2, <1>4, <1>8 DEF AreEqual
  <2>2. Follows(mdb, AsksFor(snap), ac') /\ Follows(mdb, ac', AsksFor(snap))
    BY <2>1 DEF Follows, AreEqual
  <2>3. Follows(mdb, acCache, ac')
    BY <1>3, <1>4, <1>8, <2>1, <2>2, FollowsTransitive
  <2>4. Follows(mdb, ac', AsksFor(mdbCache))
    BY <1>3, <1>4, <2>1, <2>2, FollowsTransitive
  <2>5. OrderInv'
    BY <1>3, <1>5, <1>6, <2>2, <2>3, <2>4 DEF OrderInv
  <2>6. ConfigMatches(snap)'
    BY <1>1, <1>2, <1>5, <1>8, AsksForType
    DEF ConfigMatches, AutomationConfigMembersThisReconciliation
  <2>7. QED
    BY <2>5, <2>6
<1>9. QED
  BY <1>7, <1>8 DEF EnsureSecret, SeenAC, desired

\* OrderInv survives every other step.
LEMMA OrderStep ==
  ASSUME LagInv, [Next]_vars, StaleReads, ~InFlightEdits
  PROVE  OrderInv'
<1>1. TypeOK /\ TypeOK' /\ OrderInv
  BY TypeStep DEF LagInv
<1>2. /\ mdb \in Resource /\ mdbCache \in Resource
      /\ ac.members \in Nat /\ acCache.members \in Nat
      /\ AsksFor(mdb).members \in Nat /\ AsksFor(mdbCache).members \in Nat
      /\ pc # "idle" => snap \in Resource /\ AsksFor(snap).members \in Nat
  BY <1>1, OrderTypes
<1>3. \A b : Follows(mdb, b, b)
  BY DEF Follows, AreEqual
<1>4. Follows(mdb, ac, AsksFor(mdb))
  BY <1>1, <1>2, FollowsTransitive DEF OrderInv
<1>5. CASE Dequeue
  <2>1. /\ UNCHANGED <<mdb, ac, acCache, mdbCache>> /\ snap' = mdbCache
    BY <1>5 DEF Dequeue, SeenMdb, k8s, caches
  <2>2. /\ AsksFor(snap)' = AsksFor(mdbCache) /\ AsksFor(mdbCache)' = AsksFor(mdbCache)
        /\ AsksFor(mdb)' = AsksFor(mdb)
    BY <2>1 DEF AsksFor, AutomationConfigMembersThisReconciliation
  <2>3. QED
    BY <1>1, <1>3, <2>1, <2>2 DEF OrderInv
<1>6. CASE EnsureSecret
  BY <1>6, EnsureDeploys
<1>7. CASE UpdateStatus
  <2>1. CASE snap # mdb
    BY <1>1, <1>7, <2>1, OrderFrame DEF UpdateStatus, Return, caches
  <2>2. ASSUME NEW phase \in {"Pending", "Running"}, mdb' = Scaled(mdb, phase),
               UNCHANGED <<ac, acCache, mdbCache>>,
               pc' # "idle" => pc # "idle" /\ snap' = snap
        PROVE  OrderInv'
    <3>1. /\ mdb' \in Resource /\ mdb'.members = mdb.members
          /\ mdb'.version = mdb.version /\ mdb'.tls = mdb.tls
      BY <1>2, <2>2, ScaledType
    <3>2. \A b, c : Follows(mdb, b, c) <=> Follows(mdb', b, c)
      BY <3>1, SameSpec
    <3>3. AsksFor(mdb)' = AsksFor(Scaled(mdb, phase)) /\ AsksFor(mdb)'.members \in Nat
      <4>1. AsksFor(mdb)' = AsksFor(Scaled(mdb, phase))
        BY <2>2 DEF AsksFor, AutomationConfigMembersThisReconciliation
      <4>2. AsksFor(Scaled(mdb, phase)).members \in Nat
        BY <2>2, <3>1, AsksForType
      <4>3. QED
        BY <4>1, <4>2
    <3>4. Follows(mdb, AsksFor(mdb), AsksFor(mdb)')
      BY <1>2, <3>3, ScaledFollows
    <3>5. Follows(mdb, AsksFor(mdbCache), AsksFor(mdb)')
      BY <1>1, <1>2, <3>3, <3>4, FollowsTransitive DEF OrderInv
    <3>6. /\ AsksFor(mdbCache)' = AsksFor(mdbCache)
          /\ pc' # "idle" => AsksFor(snap)' = AsksFor(snap)
      BY <2>2 DEF AsksFor, AutomationConfigMembersThisReconciliation
    <3>7. QED
      BY <1>1, <2>2, <3>2, <3>5, <3>6 DEF OrderInv
  <2>3. CASE snap = mdb
    <3>1. /\ mdb' = Scaled(mdb, "Pending") \/ mdb' = Scaled(mdb, "Running")
          /\ UNCHANGED <<ac, acCache, mdbCache>>
          /\ pc' # "idle" => pc # "idle" /\ snap' = snap
      BY <1>7, <2>3 DEF UpdateStatus, Return, caches, locals
    <3>2. QED
      BY <2>2, <3>1
  <2>4. QED
    BY <2>1, <2>3
<1>8. CASE GiveUp \/ Annotate
  <2>1. /\ mdb'.members = mdb.members /\ mdb'.version = mdb.version
        /\ mdb'.tls = mdb.tls /\ mdb'.currentMembers = mdb.currentMembers
    BY <1>2, <1>8 DEF GiveUp, Annotate, Resource
  <2>2. UNCHANGED <<ac, acCache, mdbCache>> /\ pc' = "idle"
    BY <1>8 DEF GiveUp, Annotate, Return, caches
  <2>3. QED
    BY <1>1, <2>1, <2>2, OrderFrame
<1>9. CASE Crash
  <2>1. mdb' = mdb /\ ac' = ac /\ mdbCache' = mdb /\ acCache' = ac /\ pc' = "idle"
    BY <1>9 DEF Crash, Return, k8s
  <2>2. AsksFor(mdbCache)' = AsksFor(mdb) /\ AsksFor(mdb)' = AsksFor(mdb)
    BY <2>1 DEF AsksFor, AutomationConfigMembersThisReconciliation
  <2>3. QED
    BY <1>3, <1>4, <2>1, <2>2 DEF OrderInv
<1>10. CASE EditSpec
  <2>1. /\ pc = "idle" /\ ~queued /\ mdbCache = mdb /\ acCache = ac
        /\ UNCHANGED <<ac, acCache, mdbCache, pc>>
    BY <1>10 DEF EditSpec, Settled, SeenMdb, SeenAC, caches
  <2>2. Matches /\ mdb.currentMembers = mdb.members
    BY <2>1 DEF LagInv
  <2>3. /\ mdb' \in Resource /\ mdb'.currentMembers = mdb.currentMembers
        /\ \/ mdb'.members # mdb.members \/ mdb'.version # mdb.version
           \/ mdb'.tls # mdb.tls
    <3>1. PICK m \in Sizes, v \in Versions, t \in BOOLEAN :
            /\ Edits(m, v, t)
            /\ mdb' = [mdb EXCEPT !.members = m, !.version = v, !.tls = t,
                                  !.gen = mdb.gen + 1]
      BY <1>10 DEF EditSpec
    <3>2. mdb'.members = m /\ mdb'.version = v /\ mdb'.tls = t
      BY <1>2, <3>1 DEF Resource
    <3>3. m # mdb.members \/ v # mdb.version \/ t # mdb.tls
      <4>1. mdb.members \in Int /\ m \in Int /\ mdb.tls \in BOOLEAN
        <5>1. mdb.members \in Sizes /\ mdb.tls \in BOOLEAN
          BY <1>2 DEF Resource
        <5>2. QED
          BY SMT, <3>1, <5>1, SizesAssumption DEF Sizes
      <4>2. QED
        BY SMT, <3>1, <4>1 DEF Edits
    <3>4. QED
      BY <1>1, <1>10, <3>2, <3>3, EditType
  <2>4. Follows(mdb', AsksFor(mdb), AsksFor(mdb'))
    BY <1>2, <2>2, <2>3, EditFollows
  <2>5. AreEqual(ac, AsksFor(mdb))
    BY <1>2, <2>2, AsksForType
    DEF Matches, AreEqual, AutomationConfigMembersThisReconciliation,
        ReplicasThisReconciliation
  <2>6. /\ AsksFor(mdbCache)' = AsksFor(mdb) /\ AsksFor(mdb)' = AsksFor(mdb')
    BY <2>1 DEF AsksFor, AutomationConfigMembersThisReconciliation
  <2>7. Follows(mdb', ac, ac) /\ Follows(mdb', ac, AsksFor(mdb))
    BY <2>5 DEF Follows, AreEqual
  <2>8. QED
    BY <2>1, <2>4, <2>6, <2>7 DEF OrderInv
<1>11. CASE SyncMdb
  <2>1. UNCHANGED <<mdb, ac, acCache, pc, snap>> /\ mdbCache' = mdb
    BY <1>11 DEF SyncMdb, k8s, locals
  <2>2. /\ AsksFor(mdbCache)' = AsksFor(mdb) /\ AsksFor(mdb)' = AsksFor(mdb)
        /\ AsksFor(snap)' = AsksFor(snap)
    BY <2>1 DEF AsksFor, AutomationConfigMembersThisReconciliation
  <2>3. pc # "idle" => Follows(mdb, AsksFor(snap), AsksFor(mdb))
    BY <1>1, <1>2, FollowsTransitive DEF OrderInv
  <2>4. QED
    BY <1>1, <1>3, <1>4, <2>1, <2>2, <2>3 DEF OrderInv
<1>12. CASE SyncAC
  <2>1. UNCHANGED <<mdb, ac, mdbCache, pc, snap>> /\ acCache' = ac
    BY <1>12 DEF SyncAC, k8s, locals
  <2>2. /\ AsksFor(mdbCache)' = AsksFor(mdbCache) /\ AsksFor(mdb)' = AsksFor(mdb)
        /\ AsksFor(snap)' = AsksFor(snap)
    BY <2>1 DEF AsksFor, AutomationConfigMembersThisReconciliation
  <2>3. QED
    BY <1>1, <1>3, <2>1, <2>2 DEF OrderInv
<1>13. CASE \/ Prepare \/ ReadAutomationConfig \/ WaitForAgents
            \/ CreateOrUpdateStatefulSet \/ CheckStatefulSet \/ ResetUpdateStrategy
            \/ ApiError \/ LookupError \/ TLSConfigNotValid \/ StatusError
            \/ AnnotateError \/ SyncSts
  <2>1. /\ UNCHANGED <<mdb, ac, acCache, mdbCache>>
        /\ pc' # "idle" => pc # "idle" /\ snap' = snap
    BY <1>13 DEF Prepare, ReadAutomationConfig, WaitForAgents,
       CreateOrUpdateStatefulSet, CheckStatefulSet, ResetUpdateStrategy, ApiError,
       LookupError, TLSConfigNotValid, StatusError, AnnotateError, SyncSts,
       Return, k8s, locals, caches
  <2>2. QED
    BY <1>1, <2>1, OrderFrame
<1>14. CASE StatefulSetController \/ Agents \/ UNCHANGED vars
  <2>1. UNCHANGED <<mdb, ac, acCache, mdbCache, pc, snap>>
    BY <1>14 DEF StatefulSetController, Agents, vars, SyncStatefulSetStatus,
       CreatePod, RemovePod, RollPod, HookDeletesPod, ReachGoal,
       ReadyWhenDeadlocked, LoseReadiness, podEnv, locals, caches
  <2>2. QED
    BY <1>1, <2>1, OrderFrame
<1>15. QED
  BY <1>5, <1>6, <1>7, <1>8, <1>9, <1>10, <1>11, <1>12, <1>13, <1>14
  DEF Next, Reconcile, Faults, Informers

\* LagInv is inductive.
LEMMA LagStep ==
  ASSUME LagInv, [Next]_vars, StaleReads, ~InFlightEdits
  PROVE  LagInv'
<1>1. TypeOK /\ TypeOK' /\ OrderInv'
  BY TypeStep, OrderStep DEF LagInv
<1> USE <1>1
<1> USE DEF ConfigDeployed, StatefulSetDeployed
<1>2. CASE Dequeue
  BY <1>2 DEF LagInv, Dequeue, SeenMdb, k8s, caches
<1>3. CASE Prepare \/ LookupError
  BY <1>3 DEF LagInv, Prepare, LookupError, k8s, caches
<1>4. CASE ReadAutomationConfig
  BY <1>4 DEF LagInv, ReadAutomationConfig, StatefulSetMatches, k8s, caches
<1>5. CASE EnsureSecret
  <2>1. pc' = "agents" => ConfigMatches(snap)'
    BY <1>5, EnsureDeploys
  <2>2. /\ UNCHANGED <<mdb, mdbCache, snap, sts, inOrder>>
        /\ pc = "ensureAC" /\ pc' \in {"agents", "failed"}
    BY <1>5 DEF EnsureSecret, caches
  <2>3. /\ StatefulSetMatches(snap)' = StatefulSetMatches(snap)
        /\ GetUpdateStrategyType(snap)' = GetUpdateStrategyType(snap)
    BY <2>2 DEF StatefulSetMatches, GetUpdateStrategyType, IsChangingVersion
  <2>4. StatefulSetDeployed' => StatefulSetDeployed
    BY <2>2
  <2>5. QED
    BY <2>1, <2>2, <2>3, <2>4 DEF LagInv
<1>6. CASE WaitForAgents
  BY <1>6, AgentsEffect DEF LagInv, ConfigMatches, StatefulSetMatches
<1>7. CASE CreateOrUpdateStatefulSet
  <2>1. snap \in Resource /\ sts \in StatefulSet
    BY <1>7 DEF TypeOK, CreateOrUpdateStatefulSet
  <2>2. pc' = "stsStatus" => /\ StatefulSetMatches(snap)'
                             /\ sts'.strategy = GetUpdateStrategyType(snap)
    <3>1. snap' = snap /\ (pc' = "stsStatus" => sts' = buildStatefulSet(sts, snap))
      BY <1>7 DEF CreateOrUpdateStatefulSet, locals
    <3>0. LET b == buildStatefulSet(sts, snap) IN
            /\ b.replicas = StatefulSetReplicasThisReconciliation(snap)
            /\ b.version = snap.version /\ b.tls = (sts.tls \/ snap.tls)
            /\ b.strategy = GetUpdateStrategyType(snap)
      BY <2>1, BuiltStatefulSetType
    <3>2. pc' = "stsStatus" =>
            /\ sts'.replicas = StatefulSetReplicasThisReconciliation(snap)
            /\ sts'.version = snap.version /\ (snap.tls => sts'.tls)
            /\ sts'.strategy = GetUpdateStrategyType(snap)
      BY <3>0, <3>1
    <3>3. pc' = "stsStatus" => StatefulSetMatches(snap)'
      BY ZenonT(30), <3>1, <3>2
      DEF StatefulSetMatches, StatefulSetReplicasThisReconciliation
    <3>4. QED
      BY <3>2, <3>3
  <2>3. /\ UNCHANGED <<mdb, mdbCache, snap, ac, inOrder>>
        /\ pc' \in {"stsStatus", "failed"}
    BY <1>7 DEF CreateOrUpdateStatefulSet, locals, caches
  <2>4. QED
    BY <1>7, <2>2, <2>3 DEF LagInv, CreateOrUpdateStatefulSet, ConfigMatches
<1>8. CASE CheckStatefulSet
  BY <1>8 DEF LagInv, CheckStatefulSet, AfterStatefulSet, ConfigMatches,
              StatefulSetMatches, k8s, locals, caches
<1>9. CASE ResetUpdateStrategy
  <2>1. /\ sts'.replicas = sts.replicas /\ sts'.version = sts.version
        /\ sts'.tls = sts.tls
        /\ pc' = "status" => sts'.strategy = "RollingUpdate"
    BY <1>9 DEF TypeOK, LagInv, ResetUpdateStrategy, StatefulSet,
                GetUpdateStrategyType
  <2>2. QED
    BY <1>9, <2>1 DEF LagInv, ResetUpdateStrategy, ConfigMatches,
                      StatefulSetMatches, locals, caches
<1>10. CASE UpdateStatus
  <2>1. /\ snap \in Resource /\ snap.currentReplicas = snap.currentMembers
        /\ mdbCache' = mdbCache
    BY <1>10 DEF TypeOK, UpdateStatus, LagInv, caches
  <2>2. AutomationConfigMembersThisReconciliation(snap) =
          StatefulSetReplicasThisReconciliation(snap)
    BY <2>1 DEF AutomationConfigMembersThisReconciliation,
                StatefulSetReplicasThisReconciliation
  <2>3. mdb'.currentReplicas = mdb'.currentMembers
    <3>1. CASE mdb' = mdb
      BY <3>1 DEF LagInv
    <3>2. CASE mdb' = Scaled(snap, "Pending") \/ mdb' = Scaled(snap, "Running")
      BY SMT, <3>2, <2>1, <2>2, ScaledType
    <3>3. QED
      BY <1>10, <3>1, <3>2 DEF UpdateStatus
  <2>4. CASE Return /\ queued' = TRUE
    BY ZenonT(30), <2>1, <2>3, <2>4 DEF LagInv, Return, NoResource
  <2>5. CASE pc' = "annotate" /\ UNCHANGED <<locals, queued>>
    <3>1. /\ mdb'.members = snap.members /\ mdb'.version = snap.version
          /\ mdb'.tls = snap.tls /\ mdb'.phase = "Running"
          /\ mdb'.currentMembers = AutomationConfigMembersThisReconciliation(snap)
      BY SMT, <1>10, <2>1, <2>5, ScaledType DEF UpdateStatus, Return
    <3>2. /\ StatefulSetReplicasThisReconciliation(snap) = snap.members
          /\ sts' = sts /\ ac' = ac
      BY <1>10, <2>5 DEF UpdateStatus, Return, IsStillScaling,
                         StatefulSetReplicasThisReconciliation
    <3>3. /\ ConfigMatches(snap) /\ StatefulSetMatches(snap)
          /\ sts.strategy = "RollingUpdate"
      BY <1>10 DEF LagInv, UpdateStatus
    <3>4. Matches' /\ mdb'.currentMembers = mdb'.members
      BY <2>2, <3>1, <3>2, <3>3 DEF ConfigMatches, StatefulSetMatches, Matches
    <3>5. QED
      BY ZenonT(30), <2>1, <2>3, <2>5, <3>1, <3>4 DEF LagInv, locals
  <2>6. QED
    BY ZenonT(30), <1>10, <2>4, <2>5 DEF UpdateStatus
<1>11. CASE GiveUp
  BY <1>11 DEF TypeOK, LagInv, GiveUp, Return, NoResource, Resource, caches
<1>12. CASE Annotate
  <2>1. /\ mdb'.members = mdb.members /\ mdb'.version = mdb.version
        /\ mdb'.tls = mdb.tls /\ mdb'.phase = mdb.phase /\ mdb'.gen = mdb.gen
        /\ mdb'.currentMembers = mdb.currentMembers
        /\ mdb'.currentReplicas = mdb.currentReplicas
    BY <1>12 DEF TypeOK, Annotate, Resource
  <2>2. QED
    BY <1>12, <2>1 DEF LagInv, Annotate, Return, Matches, NoResource, caches
<1>13. CASE ApiError \/ TLSConfigNotValid
  BY <1>13 DEF LagInv, ApiError, TLSConfigNotValid, k8s, locals, caches
<1>14. CASE StatusError \/ Crash
  <2>1. /\ Return /\ queued' = TRUE /\ UNCHANGED k8s
        /\ mdbCache' \in {mdb, mdbCache}
    BY <1>14 DEF StatusError, Crash, caches
  <2>2. QED
    BY <2>1 DEF LagInv, Return, NoResource, k8s
<1>15. CASE AnnotateError
  BY ZenonT(30), <1>15 DEF LagInv, AnnotateError, Return, Matches, NoResource, k8s, caches
<1>16. CASE EditSpec
  <2>1. pc = "idle" /\ mdbCache = mdb /\ UNCHANGED <<ac, sts, pc, snap, mdbCache>>
    BY <1>16 DEF EditSpec, Settled, SeenMdb, locals, caches
  <2>2. mdb'.gen = mdb.gen + 1 /\ mdb.gen \in Nat
    <3>1. mdb \in Resource /\ mdb.gen \in Nat
      BY DEF TypeOK, Resource
    <3>2. PICK m \in Sizes, v \in Versions, t \in BOOLEAN :
            mdb' = [mdb EXCEPT !.members = m, !.version = v, !.tls = t,
                               !.gen = mdb.gen + 1]
      BY <1>16 DEF EditSpec
    <3>3. QED
      BY <3>1, <3>2 DEF Resource
  <2>3. mdbCache'.gen # mdb'.gen
    BY SMT, <2>1, <2>2
  <2>4. mdb'.currentReplicas = mdb'.currentMembers
    BY <1>16, EditType DEF LagInv
  <2>5. QED
    BY <2>1, <2>3, <2>4 DEF LagInv
<1>17. CASE Informers
  <2>1. /\ UNCHANGED <<mdb, ac, sts, pc, snap, inOrder>>
        /\ \/ mdbCache' = mdbCache /\ queued' = queued
           \/ mdbCache' = mdb /\ (queued' <=> queued \/ mdbCache.gen # mdb.gen)
    BY <1>17 DEF Informers, SyncMdb, SyncAC, SyncSts, k8s, locals
  <2>2. /\ ConfigMatches(snap)' = ConfigMatches(snap)
        /\ StatefulSetMatches(snap)' = StatefulSetMatches(snap)
        /\ Matches' = Matches
    BY <2>1 DEF ConfigMatches, StatefulSetMatches, Matches
  <2>3. QED
    BY <2>1, <2>2 DEF LagInv
<1>18. CASE StatefulSetController \/ Agents \/ UNCHANGED vars
  <2>1. /\ UNCHANGED <<mdb, mdbCache, ac, pc, snap, inOrder, queued>>
        /\ sts'.replicas = sts.replicas /\ sts'.version = sts.version
        /\ sts'.tls = sts.tls /\ sts'.strategy = sts.strategy
    <3>1. CASE SyncStatefulSetStatus
      BY <3>1 DEF TypeOK, SyncStatefulSetStatus, StatefulSet, locals, caches
    <3>2. CASE UNCHANGED <<podEnv, caches>> \/ UNCHANGED vars
      BY <3>2 DEF podEnv, locals, caches, vars
    <3>3. QED
      BY <1>18, <3>1, <3>2 DEF StatefulSetController, Agents, CreatePod, RemovePod,
         RollPod, HookDeletesPod, ReachGoal, ReadyWhenDeadlocked, LoseReadiness, podEnv
  <2>2. ConfigMatches(snap)' = ConfigMatches(snap)
    BY <2>1 DEF ConfigMatches
  <2>3. StatefulSetMatches(snap)' = StatefulSetMatches(snap)
    BY <2>1 DEF StatefulSetMatches
  <2>4. Matches' = Matches
    BY <2>1 DEF Matches
  <2>5. /\ ConfigDeployed' = ConfigDeployed
        /\ StatefulSetDeployed' = StatefulSetDeployed
    BY <2>1
  <2>6. QED
    BY <2>1, <2>2, <2>3, <2>4, <2>5 DEF LagInv
<1>19. QED
  BY <1>2, <1>3, <1>4, <1>5, <1>6, <1>7, <1>8, <1>9, <1>10, <1>11, <1>12, <1>13,
     <1>14, <1>15, <1>16, <1>17, <1>18
  DEF Next, Reconcile, Faults

\* Before the first reconciliation the caches are up to date.
LEMMA LagInit == Init => LagInv
<1> SUFFICES ASSUME Init PROVE LagInv
  OBVIOUS
<1>1. TypeOK
  BY InitType
<1>2. mdb.currentReplicas = 0 /\ mdb.currentMembers = 0
  <2>1. PICK m \in Sizes, v \in InitVersions, t \in InitTLS :
          mdb = [members |-> m, version |-> v, tls |-> t, gen |-> 0,
                 currentMembers |-> 0, currentReplicas |-> 0, phase |-> "",
                 lastVersion |-> NoVersion, lastTLS |-> FALSE]
    BY DEF Init
  <2>2. QED
    BY <2>1
<1>3. /\ ac = NoAC /\ acCache = NoAC /\ mdbCache = mdb
      /\ pc = "idle" /\ queued = TRUE /\ snap = NoResource
  BY DEF Init
<1>4. OrderInv
  <2>1. /\ mdb \in Resource /\ mdb.members \in 1..MaxMembers
        /\ mdb.version # NoVersion /\ MaxMembers \in Nat
    <3>1. mdb \in Resource /\ mdb.members \in Sizes /\ mdb.version \in Versions
      BY <1>1 DEF TypeOK, Resource
    <3>2. QED
      BY SMT, <3>1, SizesAssumption, ConstantsAssumption DEF Sizes
  <2>2. /\ AsksFor(mdb).members = mdb.members
        /\ AsksFor(mdb).mongodb = mdb.version /\ AsksFor(mdb).tls = mdb.tls
    BY <1>2, <2>1, AsksForType DEF AutomationConfigMembersThisReconciliation,
                                   ReplicasThisReconciliation
  <2>3. Remaining(mdb, AsksFor(mdb)) = 0 /\ Remaining(mdb, NoAC) = MaxMembers
    <3>1. NoAC.mongodb = NoVersion
      BY DEF NoAC
    <3>2. QED
      BY SMT, <2>1, <2>2, <3>1 DEF Remaining
  <2>4. /\ Follows(mdb, NoAC, AsksFor(mdb)) /\ Follows(mdb, NoAC, NoAC)
        /\ Follows(mdb, AsksFor(mdb), AsksFor(mdb))
    BY SMT, <2>1, <2>3 DEF Follows, AreEqual
  <2>5. QED
    BY <1>3, <2>4 DEF OrderInv
<1>5. ~ConfigDeployed /\ ~StatefulSetDeployed
  BY <1>3 DEF ConfigDeployed, StatefulSetDeployed
<1>6. QED
  BY <1>1, <1>2, <1>3, <1>4, <1>5 DEF LagInv, NoResource

\* Caches that lag never make the operator deploy, or leave behind, an outdated
\* config, as long as the next edit waits until the last one is deployed and
\* read back.
THEOREM LagAlways == StaleReads /\ ~InFlightEdits => (Spec => []LagInv)
<1> SUFFICES ASSUME StaleReads, ~InFlightEdits PROVE Spec => []LagInv
  OBVIOUS
<1>1. LagInv /\ [Next]_vars => LagInv'
  BY LagStep
<1>2. QED
  BY <1>1, LagInit, PTL DEF Spec

\* When the operator has nothing left to do, the resource is Running and what is
\* deployed is what its spec asks for: whatever edits, errors and restarts
\* interleaved with the reconciliations while reads are current, and whatever
\* errors and restarts and however far the caches lag while edits wait for each
\* other.
THEOREM NothingLeftBehind ==
  ~StaleReads \/ ~InFlightEdits => (Spec => []QuietMeansDeployed)
<1>1. CASE ~StaleReads
  <2>1. DeployedInv => QuietMeansDeployed
    BY DEF DeployedInv, QuietMeansDeployed
  <2>2. QED
    BY <1>1, <2>1, DeployedAlways, PTL
<1>2. CASE StaleReads /\ ~InFlightEdits
  <2>1. LagInv => QuietMeansDeployed
    BY <1>2 DEF LagInv, QuietMeansDeployed, SeenMdb
  <2>2. QED
    BY <1>2, <2>1, LagAlways, PTL
<1>3. QED
  BY <1>1, <1>2

-----------------------------------------------------------------------------
(* The version of the config, when reads lag *)

\* A resource whose next size is the last one asks for the last config.
LEMMA LastConfig ==
  ASSUME NEW m \in Resource, AsksFor(m).members = m.members
  PROVE  Remaining(m, AsksFor(m)) = 0
<1>1. m.members \in Nat
  <2>1. m.members \in Sizes
    BY DEF Resource
  <2>2. QED
    BY SMT, <2>1, SizesAssumption DEF Sizes
<1>2. QED
  BY SMT, <1>1, AsksForType DEF Remaining

\* After the last config there is no other.
LEMMA NothingAfterLast ==
  ASSUME NEW m \in Resource, NEW b, NEW c, c.members \in Nat,
         Follows(m, b, c), Remaining(m, b) = 0
  PROVE  AreEqual(b, c)
BY SMT, RemainingType DEF Follows

\* The reconciliation changes the config only in the first disjunct of BumpInv's
\* last conjunct, so it builds on the current one.
LEMMA EnsureBumps ==
  ASSUME BumpInv, EnsureSecret, StaleReads
  PROVE  /\ BumpInv' \/ ~LagInv'
         /\ ac' # ac => ac'.version = ac.version + 1 /\ ~AreEqual(ac, ac')
<1> DEFINE desired == buildAutomationConfig(curAC, snap)
<1>1. /\ snap \in Resource /\ curAC \in AutomationConfig /\ pc = "ensureAC"
      /\ pc' # "idle" /\ pc' # "ensureAC" /\ TypeOK /\ ac \in AutomationConfig
  BY DEF BumpInv, LagInv, TypeOK, EnsureSecret
<1>2. /\ desired.members = AsksFor(snap).members
      /\ desired.mongodb = AsksFor(snap).mongodb /\ desired.tls = AsksFor(snap).tls
      /\ desired.members # 0 /\ desired.version \in {curAC.version, curAC.version + 1}
      /\ ~AreEqual(curAC, desired) => desired.version = curAC.version + 1
  BY SMT, <1>1, BuiltConfigType, AsksForType
<1>3. /\ mdb \in Resource /\ ac.members \in Nat /\ acCache.members \in Nat
      /\ AsksFor(mdbCache).members \in Nat /\ AsksFor(snap).members \in Nat
  BY <1>1, OrderTypes
<1>4. UNCHANGED <<mdb, snap, acCache, mdbCache>>
  BY DEF EnsureSecret, caches
<1>5. /\ AsksFor(snap)' = AsksFor(snap) /\ AsksFor(mdbCache)' = AsksFor(mdbCache)
      /\ AsksFor(mdb)' = AsksFor(mdb)
  BY <1>4 DEF AsksFor, AutomationConfigMembersThisReconciliation
<1>6. Follows(mdb, ac, AsksFor(snap))
  BY <1>1 DEF BumpInv, LagInv, OrderInv
<1> HIDE DEF desired
<1>7. CASE ac' = ac
  <2>1. BumpInv' \/ ~LagInv'
    BY <1>1, <1>4, <1>5, <1>7 DEF BumpInv
  <2>2. QED
    BY <1>7, <2>1
<1>8. CASE /\ ac' = desired /\ acCache = ac
           /\ ac.version = 0 \/ ~AreEqual(desired, ac)
  <2>1. ~AreEqual(ac, desired)
    BY SMT, <1>2, <1>8 DEF BumpInv, AreEqual, NoAC
  <2>2. ~AreEqual(ac, AsksFor(snap))
    BY <1>2, <2>1 DEF AreEqual
  <2>3. Remaining(mdb, ac) # 0
    BY <1>3, <1>6, <2>2, NothingAfterLast
  <2>4. curAC = ac
    BY <1>1, <2>3 DEF BumpInv
  <2>5. ac'.version = ac.version + 1 /\ ac'.version # 0
    BY SMT, <1>1, <1>2, <1>8, <2>1, <2>4 DEF AutomationConfig
  <2>6. Remaining(mdb, ac') = 0
    <3>1. Remaining(mdb, AsksFor(snap)) = 0
      BY <1>1, <2>2 DEF BumpInv
    <3>2. QED
      BY <1>2, <1>8, <3>1 DEF Remaining
  <2>7. ASSUME LagInv' PROVE BumpInv'
    <3>1. OrderInv'
      BY <2>7 DEF LagInv
    <3>2. /\ AreEqual(ac', AsksFor(mdbCache)) /\ AreEqual(ac', AsksFor(snap))
      <4>1. /\ Follows(mdb, ac', AsksFor(mdbCache))
            /\ Follows(mdb, ac', AsksFor(snap))
        BY <1>1, <1>4, <1>5, <3>1 DEF OrderInv
      <4>2. QED
        BY <1>3, <2>6, <4>1, NothingAfterLast
    <3>3. AsksFor(mdb)'.members = mdb'.members
      BY <1>4, <1>5 DEF BumpInv
    <3>4. Remaining(mdb, ac)' = 0
      BY <1>4, <2>6 DEF Remaining
    <3>5. QED
      BY <1>5, <2>5, <2>7, <3>2, <3>3, <3>4 DEF BumpInv
  <2>8. QED
    BY <1>8, <2>1, <2>5, <2>7
<1>9. QED
  BY <1>7, <1>8 DEF EnsureSecret, SeenAC, desired

\* Steps that touch neither the config nor the spec.
LEMMA BumpFrame ==
  ASSUME BumpInv, LagInv', UNCHANGED <<ac, mdbCache>>,
         mdb'.members = mdb.members, mdb'.version = mdb.version, mdb'.tls = mdb.tls,
         mdb'.currentMembers \in {mdb.currentMembers, mdb.members},
         acCache' \in {acCache, ac},
         pc' # "idle" => (pc # "idle" /\ snap' = snap) \/ snap' = mdbCache,
         pc' = "ensureAC" => (pc = "ensureAC" /\ curAC' = curAC) \/ curAC' = acCache
  PROVE  BumpInv'
<1>1. mdb' \in Resource /\ mdb \in Resource
  BY DEF BumpInv, LagInv, TypeOK
<1>2. \A c : Remaining(mdb', c) = Remaining(mdb, c)
  BY DEF Remaining
<1>3. AsksFor(mdbCache)' = AsksFor(mdbCache)
  BY DEF AsksFor, AutomationConfigMembersThisReconciliation
<1>4. AsksFor(mdb').members = mdb'.members
  <2>1. CASE mdb'.currentMembers = mdb.currentMembers
    BY <2>1, SameSpec DEF BumpInv
  <2>2. CASE mdb'.currentMembers = mdb'.members
    BY <1>1, <2>2, AsksForType
    DEF AutomationConfigMembersThisReconciliation, ReplicasThisReconciliation
  <2>3. QED
    BY <2>1, <2>2
<1>5. pc' # "idle" => \/ pc # "idle" /\ AsksFor(snap)' = AsksFor(snap)
                      \/ AsksFor(snap)' = AsksFor(mdbCache)
  BY DEF AsksFor, AutomationConfigMembersThisReconciliation
<1>6. AsksFor(mdb)' = AsksFor(mdb')
  BY DEF AsksFor, AutomationConfigMembersThisReconciliation
<1>7. Remaining(mdb, ac)' = Remaining(mdb, ac)
  BY <1>2 DEF Remaining
<1>8. pc' # "idle" =>
        Remaining(mdb', AsksFor(snap)') = 0 \/ AreEqual(ac', AsksFor(snap)')
  BY <1>2, <1>5 DEF BumpInv
<1>9. Remaining(mdb', AsksFor(mdbCache)') = 0 \/ AreEqual(ac', AsksFor(mdbCache)')
  BY <1>2, <1>3 DEF BumpInv
<1>10. \/ Remaining(mdb, ac)' = 0
       \/ acCache' = ac' /\ (pc' = "ensureAC" => curAC' = ac')
  BY <1>7 DEF BumpInv
<1>11. QED
  BY <1>4, <1>6, <1>8, <1>9, <1>10 DEF BumpInv

\* BumpInv is inductive, and while it holds a new config gets the next version.
LEMMA BumpStep ==
  ASSUME BumpInv, [Next]_vars, StaleReads, ~InFlightEdits, OneStepEdits
  PROVE  /\ BumpInv'
         /\ ac' # ac => ac'.version = ac.version + 1 /\ ~AreEqual(ac, ac')
<1>1. LagInv /\ LagInv' /\ TypeOK /\ mdb \in Resource /\ mdb' \in Resource
  BY LagStep, TypeStep DEF BumpInv, LagInv, TypeOK
<1>2. CASE EnsureSecret
  BY <1>1, <1>2, EnsureBumps
<1>3. CASE UpdateStatus
  <2>1. CASE snap # mdb
    BY <1>1, <1>3, <2>1, BumpFrame DEF UpdateStatus, Return, caches
  <2>2. CASE snap = mdb
    <3>1. /\ mdb' = Scaled(mdb, "Pending") \/ mdb' = Scaled(mdb, "Running")
          /\ UNCHANGED <<ac, acCache, mdbCache>> /\ pc' # "ensureAC"
          /\ pc' # "idle" => pc # "idle" /\ snap' = snap
      BY <1>3, <2>2 DEF UpdateStatus, Return, caches, locals
    <3>2. /\ mdb'.members = mdb.members /\ mdb'.version = mdb.version
          /\ mdb'.tls = mdb.tls
          /\ mdb'.currentMembers = AutomationConfigMembersThisReconciliation(mdb)
      BY SMT, <1>1, <3>1, ScaledType
    <3>3. mdb'.currentMembers = mdb.members
      BY <1>1, <3>2, AsksForType DEF BumpInv
    <3>4. QED
      BY <1>1, <3>1, <3>2, <3>3, BumpFrame
  <2>3. QED
    BY <2>1, <2>2
<1>4. CASE GiveUp \/ Annotate
  <2>1. /\ mdb'.members = mdb.members /\ mdb'.version = mdb.version
        /\ mdb'.tls = mdb.tls /\ mdb'.currentMembers = mdb.currentMembers
    BY <1>1, <1>4 DEF GiveUp, Annotate, Resource
  <2>2. UNCHANGED <<ac, acCache, mdbCache>> /\ pc' = "idle"
    BY <1>4 DEF GiveUp, Annotate, Return, caches
  <2>3. QED
    BY <1>1, <2>1, <2>2, BumpFrame
<1>5. CASE Crash \/ SyncMdb
  <2>1. /\ mdb' = mdb /\ ac' = ac /\ mdbCache' = mdb /\ acCache' \in {acCache, ac}
        /\ \/ pc' = "idle"
           \/ UNCHANGED <<pc, snap, curAC>>
    BY <1>5 DEF Crash, SyncMdb, Return, k8s, locals
  <2>2. /\ AsksFor(mdb)' = AsksFor(mdb) /\ AsksFor(mdbCache)' = AsksFor(mdb)
        /\ snap' = snap => AsksFor(snap)' = AsksFor(snap)
    BY <2>1 DEF AsksFor, AutomationConfigMembersThisReconciliation
  <2>3. Remaining(mdb, AsksFor(mdb)) = 0
    BY <1>1, LastConfig DEF BumpInv
  <2>4. Remaining(mdb, ac)' = Remaining(mdb, ac)
    BY <2>1 DEF Remaining
  <2>5. QED
    BY <1>1, <2>1, <2>2, <2>3, <2>4 DEF BumpInv
<1>6. CASE EditSpec
  <2>1. /\ pc = "idle" /\ ~queued /\ mdbCache = mdb /\ acCache = ac
        /\ UNCHANGED <<ac, acCache, mdbCache, pc>>
    BY <1>6 DEF EditSpec, Settled, SeenMdb, SeenAC, caches
  <2>2. Matches /\ mdb.currentMembers = mdb.members
    BY <1>1, <2>1 DEF LagInv
  <2>3. AreEqual(ac, AsksFor(mdb))
    BY <1>1, <2>2, AsksForType
    DEF Matches, AreEqual, AutomationConfigMembersThisReconciliation,
        ReplicasThisReconciliation
  <2>4. AsksFor(mdb').members = mdb'.members
    <3>1. PICK m \in Sizes, v \in Versions, t \in BOOLEAN :
            /\ Edits(m, v, t)
            /\ mdb' = [mdb EXCEPT !.members = m, !.version = v, !.tls = t,
                                  !.gen = mdb.gen + 1]
      BY <1>6 DEF EditSpec
    <3>2. mdb'.members = m /\ mdb'.currentMembers = mdb.members
      BY <1>1, <2>2, <3>1 DEF Resource
    <3>3. /\ mdb.members \in Int /\ m \in Int
          /\ MinMembers <= m /\ m <= MaxMembers
          /\ MinMembers <= mdb.members /\ mdb.members <= MaxMembers
      <4>1. mdb.members \in Sizes
        BY <1>1 DEF Resource
      <4>2. QED
        BY SMT, <3>1, <4>1, SizesAssumption DEF Sizes
    <3>4. m = mdb.members \/ m = mdb.members + 1 \/ m = mdb.members - 1
      <4>1. CASE EditKinds \cap {"up", "down", "both"} = {}
        BY <3>1, <4>1 DEF Edits
      <4>2. CASE MaxMembers <= MinMembers + 1
        BY SMT, <3>3, <4>2, SizesAssumption
      <4>3. QED
        BY <4>1, <4>2 DEF OneStepEdits
    <3>5. ReplicasThisReconciliation(mdb.members, m) = m
      BY SMT, <3>3, <3>4 DEF ReplicasThisReconciliation, IsScalingDown
    <3>6. QED
      BY <1>1, <3>2, <3>5, AsksForType DEF AutomationConfigMembersThisReconciliation
  <2>5. /\ AsksFor(mdbCache)' = AsksFor(mdb) /\ AsksFor(mdb)' = AsksFor(mdb')
    BY <2>1 DEF AsksFor, AutomationConfigMembersThisReconciliation
  <2>6. QED
    BY <1>1, <2>1, <2>3, <2>4, <2>5 DEF BumpInv
<1>7. CASE Dequeue \/ ReadAutomationConfig \/ SyncAC
  <2>1. /\ UNCHANGED <<mdb, ac, mdbCache>> /\ acCache' \in {acCache, ac}
        /\ pc' # "idle" => (pc # "idle" /\ snap' = snap) \/ snap' = mdbCache
        /\ pc' = "ensureAC" => (pc = "ensureAC" /\ curAC' = curAC) \/ curAC' = acCache
    BY <1>7 DEF Dequeue, ReadAutomationConfig, SyncAC, SeenMdb, SeenAC, k8s,
                locals, caches
  <2>2. QED
    BY <1>1, <2>1, BumpFrame
<1>8. CASE \/ Prepare \/ WaitForAgents
           \/ CreateOrUpdateStatefulSet \/ CheckStatefulSet \/ ResetUpdateStrategy
           \/ ApiError \/ LookupError \/ TLSConfigNotValid \/ StatusError
           \/ AnnotateError \/ SyncSts
  <2>1. /\ UNCHANGED <<mdb, ac, acCache, mdbCache>>
        /\ pc' # "idle" => pc # "idle" /\ snap' = snap
        /\ pc' = "ensureAC" => pc = "ensureAC" /\ curAC' = curAC
    BY <1>8, AgentsEffect DEF Prepare, AfterStatefulSet,
       CreateOrUpdateStatefulSet, CheckStatefulSet, ResetUpdateStrategy, ApiError,
       LookupError, TLSConfigNotValid, StatusError, AnnotateError, SyncSts,
       Return, k8s, locals, caches
  <2>2. QED
    BY <1>1, <2>1, BumpFrame
<1>9. CASE StatefulSetController \/ Agents \/ UNCHANGED vars
  <2>1. UNCHANGED <<mdb, ac, acCache, mdbCache, pc, snap, curAC>>
    BY <1>9 DEF StatefulSetController, Agents, vars, SyncStatefulSetStatus,
       CreatePod, RemovePod, RollPod, HookDeletesPod, ReachGoal,
       ReadyWhenDeadlocked, LoseReadiness, podEnv, locals, caches
  <2>2. QED
    BY <1>1, <2>1, BumpFrame
<1>10. QED
  BY <1>2, <1>3, <1>4, <1>5, <1>6, <1>7, <1>8, <1>9
  DEF Next, Reconcile, Faults, Informers

\* At first there is no config, and every copy says so.
LEMMA BumpInit == Init => BumpInv
<1> SUFFICES ASSUME Init PROVE BumpInv
  OBVIOUS
<1>1. LagInv /\ mdb \in Resource
  BY LagInit DEF LagInv, TypeOK
<1>2. mdb.currentMembers = 0
  <2>1. PICK m \in Sizes, v \in InitVersions, t \in InitTLS :
          mdb = [members |-> m, version |-> v, tls |-> t, gen |-> 0,
                 currentMembers |-> 0, currentReplicas |-> 0, phase |-> "",
                 lastVersion |-> NoVersion, lastTLS |-> FALSE]
    BY DEF Init
  <2>2. QED
    BY <2>1
<1>3. ac = NoAC /\ acCache = ac /\ mdbCache = mdb /\ pc = "idle"
  BY DEF Init
<1>4. AsksFor(mdb).members = mdb.members
  BY <1>1, <1>2, AsksForType
  DEF AutomationConfigMembersThisReconciliation, ReplicasThisReconciliation
<1>5. Remaining(mdb, AsksFor(mdb)) = 0
  BY <1>1, <1>4, LastConfig
<1>6. QED
  BY <1>1, <1>3, <1>4, <1>5 DEF BumpInv

THEOREM VersionBumped ==
  ~StaleReads \/ (~InFlightEdits /\ OneStepEdits) => (Spec => ConfigVersionBumped)
<1>1. CASE ~StaleReads
  <2>1. Init => ConfigInv
    <3>1. Init => ac = NoAC /\ pc # "ensureAC"
      BY DEF Init
    <3>2. QED
      BY <3>1, InitType DEF ConfigInv
  <2>2. ConfigInv /\ [Next]_vars => ConfigInv'
    BY <1>1, ConfigStep
  <2>3. ConfigInv /\ [Next]_vars =>
          [ac' # ac => ac'.version = ac.version + 1 /\ ~AreEqual(ac, ac')]_vars
    BY <1>1, ConfigStep
  <2>4. QED
    BY <2>1, <2>2, <2>3, PTL DEF Spec, ConfigVersionBumped
<1>2. CASE StaleReads /\ ~InFlightEdits /\ OneStepEdits
  <2>1. BumpInv /\ [Next]_vars => BumpInv'
    BY <1>2, BumpStep
  <2>2. BumpInv /\ [Next]_vars =>
          [ac' # ac => ac'.version = ac.version + 1 /\ ~AreEqual(ac, ac')]_vars
    BY <1>2, BumpStep
  <2>3. QED
    BY <2>1, <2>2, BumpInit, PTL DEF Spec, ConfigVersionBumped
<1>3. QED
  BY <1>1, <1>2

-----------------------------------------------------------------------------
(* The sizes, one edit at a time, read back at once *)

\* From a size a deployment has had, the next one is a size, one step closer.
LEMMA NextSizeIs ==
  ASSUME NEW c \in Sizes \cup {0}, NEW d \in Sizes,
         NEW n, n = ReplicasThisReconciliation(c, d)
  PROVE  /\ n \in Sizes /\ n \in Nat /\ n # 0 /\ c \in Nat
         /\ c = 0 \/ c = d => n = d
         /\ c # 0 => n \in {c - 1, c, c + 1}
         /\ c # 0 /\ d < c => n = c - 1 /\ d <= n
         /\ c # 0 /\ d > c => n = c + 1 /\ n <= d
         /\ n = c => c = d
BY SMT, SizesAssumption DEF ReplicasThisReconciliation, IsScalingDown, Sizes

\* The same for the sizes of a reconciliation in a state of SizesInv.
LEMMA NextSizeFacts ==
  ASSUME TypeOK, StatusInv
  PROVE  /\ NextSize = ReplicasThisReconciliation(mdb.currentMembers, mdb.members)
         /\ StatefulSetReplicasThisReconciliation(mdb) = NextSize
         /\ NextSize \in Sizes /\ NextSize \in Nat /\ NextSize # 0
         /\ mdb.members \in Sizes /\ mdb.currentMembers \in Sizes \cup {0}
         /\ mdb.currentMembers \in Nat /\ mdb.members \in Nat
         /\ mdb.currentMembers = 0 \/ mdb.currentMembers = mdb.members =>
              NextSize = mdb.members
         /\ mdb.currentMembers # 0 =>
              /\ NextSize \in {mdb.currentMembers - 1, mdb.currentMembers,
                               mdb.currentMembers + 1}
              /\ mdb.members < mdb.currentMembers =>
                   NextSize = mdb.currentMembers - 1 /\ mdb.members <= NextSize
              /\ mdb.members > mdb.currentMembers =>
                   NextSize = mdb.currentMembers + 1 /\ NextSize <= mdb.members
         /\ NextSize = mdb.currentMembers => mdb.currentMembers = mdb.members
<1>1. /\ mdb.members \in Sizes /\ mdb.currentMembers \in Sizes \cup {0}
      /\ mdb.currentReplicas = mdb.currentMembers
  BY DEF TypeOK, StatusInv, Resource
<1>2. /\ NextSize = ReplicasThisReconciliation(mdb.currentMembers, mdb.members)
      /\ StatefulSetReplicasThisReconciliation(mdb) = NextSize
  BY <1>1 DEF NextSize, AutomationConfigMembersThisReconciliation,
              StatefulSetReplicasThisReconciliation
<1>3. mdb.members \in Nat
  BY SMT, <1>1, SizesAssumption DEF Sizes
<1>4. QED
  BY SMT, <1>1, <1>2, <1>3, NextSizeIs

\* When a reconciliation ends, or the environment moves, the sizes stay put:
\* enough for SizesInv is that the locals promise nothing new.
LEMMA SizesFrame ==
  ASSUME SizesInv, TypeOK', StatusInv',
         mdb'.members = mdb.members,
         mdb'.currentMembers = mdb.currentMembers,
         mdb'.currentReplicas = mdb.currentReplicas,
         ac' = ac, sts'.exists = sts.exists, sts'.replicas = sts.replicas,
         \/ UNCHANGED <<pc, inOrder>>
         \/ pc' \in {"idle", "prepare", "annotate", "pending", "failed"}
  PROVE  SizesInv'
<1>1. NextSize' = NextSize
  BY DEF NextSize, AutomationConfigMembersThisReconciliation
<1>2. QED
  BY SMT, <1>1 DEF SizesInv, ConfigDeployed, StatefulSetDeployed

\* The resource's own part of SizesInv.
LEMMA StatusStep ==
  ASSUME OneEditAtATime, SizesInv, [Next]_vars
  PROVE  StatusInv'
<1>1. TypeOK /\ StatusInv /\ TypeOK' /\ ~StaleReads /\ ~InFlightEdits
  BY TypeStep DEF SizesInv, OneEditAtATime, SafeEdits
<1> USE <1>1
<1>2. CASE Dequeue
  BY <1>2 DEF StatusInv, Dequeue, SeenMdb, k8s
<1>3. CASE \/ Prepare \/ ReadAutomationConfig \/ EnsureSecret \/ WaitForAgents
           \/ CreateOrUpdateStatefulSet \/ CheckStatefulSet \/ ResetUpdateStrategy
           \/ ApiError \/ LookupError \/ TLSConfigNotValid
  <2>1. /\ mdb' = mdb /\ snap' = snap
        /\ pc \notin {"idle", "annotate"} /\ pc' \notin {"idle", "annotate"}
    BY <1>3, AgentsEffect DEF Prepare, ReadAutomationConfig, EnsureSecret,
                CreateOrUpdateStatefulSet, CheckStatefulSet, ResetUpdateStrategy,
                ApiError, LookupError, TLSConfigNotValid,
                AfterAutomationConfig, AfterStatefulSet, k8s, locals
  <2>2. QED
    BY <2>1 DEF StatusInv
<1>4. CASE UpdateStatus
  <2>1. snap = mdb /\ mdb \in Resource
    BY <1>4 DEF TypeOK, StatusInv, UpdateStatus
  <2>2. PICK ph \in {"Pending", "Running"} :
          /\ mdb' = Scaled(mdb, ph)
          /\ ph = "Pending" => Return /\ queued' = TRUE
          /\ ph = "Running" => NextSize = mdb.members /\ pc' = "annotate"
    BY <1>4, <2>1, NextSizeFacts
    DEF UpdateStatus, IsStillScaling, StatefulSetReplicasThisReconciliation
  <2>3. /\ mdb'.members = mdb.members /\ mdb'.tls = mdb.tls
        /\ mdb'.currentMembers = NextSize /\ mdb'.currentReplicas = NextSize
    BY <2>1, <2>2, ScaledType, NextSizeFacts DEF NextSize
  <2>4. mdb.currentMembers <= mdb.members => NextSize <= mdb.members
    BY SMT, NextSizeFacts
  <2>5. pc' = "idle" => queued' = TRUE
    BY <2>2 DEF Return
  <2>6. pc' \in {"idle", "annotate"} /\ (pc' = "annotate" => NextSize = mdb.members)
    BY <2>2 DEF Return
  <2>7. QED
    BY <2>3, <2>4, <2>5, <2>6, NextSizeFacts DEF StatusInv
<1>5. CASE GiveUp
  <2>1. /\ mdb'.members = mdb.members /\ mdb'.tls = mdb.tls
        /\ mdb'.currentMembers = mdb.currentMembers
        /\ mdb'.currentReplicas = mdb.currentReplicas
        /\ mdb'.lastVersion = mdb.lastVersion
    BY <1>5 DEF TypeOK, GiveUp, Resource
  <2>2. QED
    BY <1>5, <2>1 DEF StatusInv, GiveUp, Return
<1>6. CASE Annotate
  <2>1. /\ mdb'.members = mdb.members /\ mdb'.tls = mdb.tls
        /\ mdb'.currentMembers = mdb.currentMembers
        /\ mdb'.currentReplicas = mdb.currentReplicas
    BY <1>6 DEF TypeOK, Annotate, Resource
  <2>2. QED
    BY <1>6, <2>1, NextSizeFacts, SizesAssumption DEF StatusInv, Annotate, Return, Sizes
<1>7. CASE StatusError \/ Crash
  <2>1. Return /\ queued' = TRUE /\ UNCHANGED k8s
    BY <1>7 DEF StatusError, Crash
  <2>2. QED
    BY <2>1 DEF StatusInv, Return, k8s
<1>8. CASE AnnotateError
  BY <1>8 DEF StatusInv, AnnotateError, Return, k8s
<1>9. CASE EditSpec
  <2>1. PICK m \in Sizes, v \in Versions, t \in BOOLEAN :
          /\ Edits(m, v, t)
          /\ mdb' = [mdb EXCEPT !.members = m, !.version = v, !.tls = t,
                                !.gen = mdb.gen + 1]
    BY <1>9 DEF EditSpec
  <2>2. mdb'.members = m /\ mdb'.tls = t
    BY <2>1 DEF TypeOK, Resource
  <2>3. /\ mdb.currentMembers = mdb.members
        /\ pc' = "idle" /\ queued' = TRUE /\ snap' = snap
    BY <1>9 DEF EditSpec, Settled, StatusInv, locals
  <2>4. EditKinds \cap {"down", "both"} = {} => m >= mdb.members
    <3>1. m \in Int /\ mdb.members \in Int
      BY SMT, SizesAssumption, NextSizeFacts DEF Sizes
    <3>2. QED
      BY SMT, <2>1, <3>1 DEF Edits
  <2>5. EditKinds \cap {"down", "both"} # {} => t = mdb.tls
    BY <2>1 DEF Edits, OneEditAtATime, SafeEdits
  <2>6. QED
    BY <1>9, <2>2, <2>3, <2>4, <2>5, EditType, NextSizeFacts DEF StatusInv
<1>10. CASE Informers \/ StatefulSetController \/ Agents \/ UNCHANGED vars
  BY <1>10, EnvironmentFrame DEF StatusInv
<1>11. QED
  BY <1>2, <1>3, <1>4, <1>5, <1>6, <1>7, <1>8, <1>9, <1>10
  DEF Next, Reconcile, Faults

\* SizesInv is inductive.
LEMMA SizesStep ==
  ASSUME OneEditAtATime, SizesInv, [Next]_vars
  PROVE  SizesInv'
<1>1. /\ TypeOK /\ StatusInv /\ TypeOK' /\ StatusInv'
      /\ ~StaleReads /\ ~InFlightEdits
  BY TypeStep, StatusStep DEF SizesInv, OneEditAtATime, SafeEdits
<1> USE <1>1
<1>2. pc \notin {"idle", "annotate"} => snap = mdb
  BY DEF StatusInv
<1>3. CASE Dequeue \/ ApiError \/ TLSConfigNotValid \/ AnnotateError
  <2>1. UNCHANGED k8s /\ pc' \in {"idle", "prepare", "failed", "pending"}
    BY <1>3 DEF Dequeue, ApiError, TLSConfigNotValid, AnnotateError, Return
  <2>2. QED
    BY <2>1, SizesFrame DEF k8s
<1>4. CASE StatusError \/ Crash
  <2>1. UNCHANGED k8s /\ pc' = "idle"
    BY <1>4 DEF StatusError, Crash, Return
  <2>2. QED
    BY <2>1, SizesFrame DEF k8s
<1>5. CASE GiveUp \/ Annotate
  <2>1. /\ mdb'.members = mdb.members
        /\ mdb'.currentMembers = mdb.currentMembers
        /\ mdb'.currentReplicas = mdb.currentReplicas
    BY <1>5 DEF TypeOK, GiveUp, Annotate, Resource
  <2>2. ac' = ac /\ sts' = sts /\ pc' = "idle"
    BY <1>5 DEF GiveUp, Annotate, Return
  <2>3. QED
    BY <2>1, <2>2, SizesFrame
<1>6. CASE Informers \/ StatefulSetController \/ Agents \/ UNCHANGED vars
  <2>1. /\ UNCHANGED <<mdb, ac, pc, inOrder>>
        /\ sts'.exists = sts.exists /\ sts'.replicas = sts.replicas
    BY <1>6, EnvironmentFrame
  <2>2. QED
    BY <2>1, SizesFrame
<1>7. CASE Prepare \/ LookupError
  <2>1. PICK found \in BOOLEAN :
          /\ found => sts.exists
          /\ mdb' = mdb /\ ac' = ac /\ sts' = sts
          /\ inOrder' = shouldRunInOrder(mdb, found)
          /\ pc' = IF inOrder' THEN "readAC" ELSE "writeSts"
    <3>1. CASE Prepare
      BY <1>2, <3>1 DEF Prepare, SeenSts, k8s, TypeOK, StatefulSet
    <3>2. CASE LookupError
      BY <1>2, <3>2 DEF LookupError, k8s
    <3>3. QED
      BY <1>7, <3>1, <3>2
  <2>2. NextSize' = NextSize
    BY <2>1 DEF NextSize, AutomationConfigMembersThisReconciliation
  <2>3. ~ConfigDeployed' /\ ~StatefulSetDeployed'
    BY <2>1 DEF ConfigDeployed, StatefulSetDeployed
  <2>4. inOrder' => mdb.currentMembers = 0 \/ NextSize <= mdb.currentMembers
    <3>1. inOrder' => ~IsScalingUp(mdb.currentReplicas, mdb.members)
      BY <2>1 DEF shouldRunInOrder
    <3>2. ~IsScalingUp(mdb.currentReplicas, mdb.members) =>
            mdb.currentMembers = 0 \/ NextSize <= mdb.currentMembers
      BY SMT, NextSizeFacts DEF IsScalingUp, StatusInv
    <3>3. QED
      BY <3>1, <3>2
  <2>5. ~inOrder' => sts.exists /\ (mdb.currentMembers = 0 \/ mdb.currentMembers <= NextSize)
    <3>1. SUFFICES ASSUME ~inOrder'
                   PROVE  sts.exists /\ (mdb.currentMembers = 0 \/ mdb.currentMembers <= NextSize)
      OBVIOUS
    <3>2. CASE found /\ mdb.tls
      BY SMT, <2>1, <3>2, NextSizeFacts DEF StatusInv
    <3>3. CASE IsScalingUp(mdb.currentReplicas, mdb.members)
      BY SMT, <3>3, NextSizeFacts DEF IsScalingUp, StatusInv, SizesInv
    <3>4. CASE /\ IsChangingVersion(mdb)
               /\ ~IsScalingUp(mdb.currentReplicas, mdb.members)
               /\ ~IsScalingDown(mdb.currentReplicas, mdb.members)
      BY SMT, <3>4, NextSizeFacts DEF IsChangingVersion, IsScalingUp, IsScalingDown,
                                 StatusInv, SizesInv
    <3>5. QED
      BY <2>1, <3>1, <3>2, <3>3, <3>4 DEF shouldRunInOrder
  <2>6. QED
    BY <2>1, <2>2, <2>3, <2>4, <2>5 DEF SizesInv
<1>8. CASE ReadAutomationConfig
  <2>1. /\ mdb' = mdb /\ ac' = ac /\ sts' = sts /\ inOrder' = inOrder
        /\ pc = "readAC" /\ pc' = "ensureAC"
    BY <1>8 DEF ReadAutomationConfig, k8s
  <2>2. NextSize' = NextSize
    BY <2>1 DEF NextSize, AutomationConfigMembersThisReconciliation
  <2>3. QED
    BY <2>1, <2>2 DEF SizesInv, ConfigDeployed, StatefulSetDeployed
<1>9. CASE EnsureSecret
  <2>1. /\ mdb' = mdb /\ sts' = sts /\ inOrder' = inOrder
        /\ pc = "ensureAC" /\ pc' \in {"agents", "failed"}
    BY <1>9 DEF EnsureSecret
  <2>2. NextSize' = NextSize
    BY <2>1 DEF NextSize, AutomationConfigMembersThisReconciliation
  <2>3. buildAutomationConfig(curAC, mdb).members = NextSize
    BY <1>1, BuiltConfigType DEF TypeOK, NextSize
  <2>4. \/ ac' = ac /\ pc' = "failed"
        \/ ac'.members = NextSize
    BY <1>2, <1>9, <2>3 DEF EnsureSecret, SeenAC, AreEqual
  <2>5. CASE ac' = ac /\ pc' = "failed"
    BY <2>1, <2>5, SizesFrame
  <2>6. CASE ac'.members = NextSize
    BY SMT, <2>1, <2>2, <2>6, NextSizeFacts
    DEF SizesInv, ConfigDeployed, StatefulSetDeployed
  <2>7. QED
    BY <2>4, <2>5, <2>6
<1>10. CASE WaitForAgents
  <2>1. /\ mdb' = mdb /\ ac' = ac /\ sts' = sts /\ inOrder' = inOrder
        /\ pc = "agents"
        /\ pc' \in {"agents", IF inOrder THEN "writeSts" ELSE "reset", "pending"}
    BY <1>10, AgentsEffect
  <2>2. NextSize' = NextSize
    BY <2>1 DEF NextSize, AutomationConfigMembersThisReconciliation
  <2>3. QED
    BY <2>1, <2>2 DEF SizesInv, ConfigDeployed, StatefulSetDeployed
<1>11. CASE CreateOrUpdateStatefulSet
  <2>1. /\ mdb' = mdb /\ ac' = ac /\ inOrder' = inOrder
        /\ pc = "writeSts" /\ pc' \in {"stsStatus", "failed"}
    BY <1>11 DEF CreateOrUpdateStatefulSet, locals
  <2>2. NextSize' = NextSize
    BY <2>1 DEF NextSize, AutomationConfigMembersThisReconciliation
  <2>3. /\ sts'.exists /\ sts'.replicas = NextSize
        /\ pc' = "stsStatus"
    <3>1. sts' = buildStatefulSet(sts, mdb) /\ pc' = "stsStatus"
      BY <1>2, <1>11 DEF CreateOrUpdateStatefulSet, SeenSts
    <3>2. mdb \in Resource /\ sts \in StatefulSet
      BY DEF TypeOK
    <3>3. QED
      BY <3>1, <3>2, BuiltStatefulSetType, NextSizeFacts
  <2>4. QED
    BY SMT, <2>1, <2>2, <2>3, NextSizeFacts DEF SizesInv, ConfigDeployed,
                                           StatefulSetDeployed
<1>12. CASE CheckStatefulSet
  <2>1. /\ mdb' = mdb /\ ac' = ac /\ sts' = sts /\ inOrder' = inOrder
        /\ pc = "stsStatus"
        /\ pc' \in {IF inOrder THEN "reset" ELSE "readAC", "pending", "failed"}
    BY <1>12 DEF CheckStatefulSet, AfterStatefulSet, k8s, locals
  <2>2. NextSize' = NextSize
    BY <2>1 DEF NextSize, AutomationConfigMembersThisReconciliation
  <2>3. QED
    BY <2>1, <2>2 DEF SizesInv, ConfigDeployed, StatefulSetDeployed
<1>13. CASE ResetUpdateStrategy
  <2>1. /\ mdb' = mdb /\ ac' = ac /\ inOrder' = inOrder
        /\ pc = "reset" /\ pc' \in {"status", "failed"}
    BY <1>13 DEF ResetUpdateStrategy, locals
  <2>2. sts'.exists = sts.exists /\ sts'.replicas = sts.replicas
    BY <1>13 DEF ResetUpdateStrategy, TypeOK, StatefulSet
  <2>3. NextSize' = NextSize
    BY <2>1 DEF NextSize, AutomationConfigMembersThisReconciliation
  <2>4. QED
    BY <2>1, <2>2, <2>3 DEF SizesInv, ConfigDeployed, StatefulSetDeployed
<1>14. CASE UpdateStatus
  <2>1. snap = mdb /\ mdb \in Resource
    BY <1>2, <1>14 DEF TypeOK, UpdateStatus
  <2>2. /\ mdb' = Scaled(mdb, "Pending") \/ mdb' = Scaled(mdb, "Running")
        /\ ac' = ac /\ sts' = sts
        /\ pc = "status" /\ pc' \in {"idle", "annotate"}
    BY <1>14, <2>1 DEF UpdateStatus, Return
  <2>3. mdb'.currentMembers = NextSize
    BY SMT, <2>1, <2>2, ScaledType DEF NextSize
  <2>4. ac.members = NextSize /\ sts.replicas = NextSize
    BY <2>2 DEF SizesInv, ConfigDeployed, StatefulSetDeployed
  <2>5. NextSize # 0 /\ NextSize \in Nat
    BY NextSizeFacts
  <2>6. QED
    BY <2>2, <2>3, <2>4, <2>5 DEF SizesInv, ConfigDeployed, StatefulSetDeployed
<1>15. CASE EditSpec
  <2>1. /\ mdb'.currentMembers = mdb.currentMembers
        /\ ac' = ac /\ sts' = sts /\ pc' = "idle"
    BY <1>15, EditType DEF EditSpec, Settled
  <2>2. mdb.currentMembers = mdb.members
    BY <1>15 DEF EditSpec, Settled, StatusInv
  <2>3. ac.members = mdb.currentMembers /\ sts.replicas = mdb.currentMembers
    BY <2>2, NextSizeFacts DEF SizesInv
  <2>4. QED
    BY <2>1, <2>3, NextSizeFacts DEF SizesInv, ConfigDeployed, StatefulSetDeployed
<1>16. QED
  BY <1>3, <1>4, <1>5, <1>6, <1>7, <1>8, <1>9, <1>10, <1>11, <1>12, <1>13, <1>14,
     <1>15
  DEF Next, Reconcile, Faults

\* SizesInv holds initially.
LEMMA SizesInit ==
  ASSUME OneEditAtATime, Init
  PROVE  SizesInv
<1>1. PICK m \in Sizes, v \in InitVersions, t \in InitTLS :
        mdb = [members |-> m, version |-> v, tls |-> t, gen |-> 0,
               currentMembers |-> 0, currentReplicas |-> 0, phase |-> "",
               lastVersion |-> NoVersion, lastTLS |-> FALSE]
  BY DEF Init
<1>2. /\ mdb.currentMembers = 0 /\ mdb.currentReplicas = 0
      /\ mdb.lastVersion = NoVersion
      /\ mdb.members \in Nat /\ mdb.tls \in InitTLS
  <2>1. m \in Nat
    BY SMT, SizesAssumption DEF Sizes
  <2>2. QED
    BY <1>1, <2>1
<1>3. pc = "idle" /\ queued = TRUE /\ ac = NoAC /\ sts = NoSts
  BY DEF Init
<1>4. StatusInv
  <2>1. EditKinds \cap {"down", "both"} # {} => ~mdb.tls
    BY <1>2 DEF OneEditAtATime, SafeEdits
  <2>2. 0 <= mdb.members
    BY SMT, <1>2
  <2>3. QED
    BY <1>2, <1>3, <2>1, <2>2 DEF StatusInv
<1>5. ac.members = 0 /\ sts.replicas = 0 /\ ~sts.exists
  BY <1>3 DEF NoAC, NoSts
<1>6. ~ConfigDeployed /\ ~StatefulSetDeployed
  BY <1>3 DEF ConfigDeployed, StatefulSetDeployed
<1>7. QED
  BY SMT, <1>2, <1>3, <1>4, <1>5, <1>6, InitType DEF SizesInv

\* In a state of SizesInv the members and the replicas are in step.
LEMMA SizesInStep ==
  ASSUME SizesInv
  PROVE  MembersInStep
<1>1. TypeOK /\ StatusInv
  BY DEF SizesInv
<1>2. QED
  BY SMT, <1>1, NextSizeFacts DEF SizesInv, MembersInStep, Membership!InStep, Sizes

\* One edit at a time, both sizes move from the recorded size to the next one,
\* in the order that keeps every member on a replica, whatever fails.
THEOREM SizesAlways == OneEditAtATime => (Spec => []SizesInv)
<1> SUFFICES ASSUME OneEditAtATime PROVE Spec => []SizesInv
  OBVIOUS
<1>1. Init => SizesInv
  BY SizesInit
<1>2. SizesInv /\ [Next]_vars => SizesInv'
  BY SizesStep
<1>3. QED
  BY <1>1, <1>2, PTL DEF Spec

-----------------------------------------------------------------------------
(* The sizes, one edit at a time, when reads lag *)

\* The recorded and the next size when reads lag.
LEMMA LagSizeFacts ==
  ASSUME LagInv, Fetched(mdb)
  PROVE  /\ NextSize = ReplicasThisReconciliation(mdb.currentMembers, mdb.members)
         /\ NextSize \in Sizes /\ NextSize \in Nat /\ NextSize # 0
         /\ mdb.members \in Sizes /\ mdb.currentMembers \in Sizes \cup {0}
         /\ mdb.currentMembers \in Nat /\ mdb.members \in Nat
         /\ mdb.currentMembers = 0 \/ mdb.currentMembers = mdb.members =>
              NextSize = mdb.members
         /\ mdb.currentMembers # 0 =>
              /\ NextSize \in {mdb.currentMembers - 1, mdb.currentMembers,
                               mdb.currentMembers + 1}
              /\ mdb.members < mdb.currentMembers =>
                   NextSize = mdb.currentMembers - 1 /\ mdb.members <= NextSize
              /\ mdb.members > mdb.currentMembers =>
                   NextSize = mdb.currentMembers + 1 /\ NextSize <= mdb.members
<1>1. mdb.members \in Sizes /\ mdb.currentMembers \in Sizes \cup {0}
  BY DEF LagInv, TypeOK, Fetched, Resource
<1>2. NextSize = ReplicasThisReconciliation(mdb.currentMembers, mdb.members)
  BY DEF NextSize, AutomationConfigMembersThisReconciliation
<1>3. mdb.members \in Nat
  BY SMT, <1>1, SizesAssumption DEF Sizes
<1>4. QED
  BY SMT, <1>1, <1>2, <1>3, NextSizeIs

\* The sizes of a reconciliation that fetched the current sizes.
LEMMA CurrentSizes ==
  ASSUME LagInv, NEW m, HasCurrentSizes(m), m.currentReplicas = m.currentMembers
  PROVE  /\ AutomationConfigMembersThisReconciliation(m) = NextSize
         /\ StatefulSetReplicasThisReconciliation(m) = NextSize
BY DEF HasCurrentSizes, AutomationConfigMembersThisReconciliation,
       StatefulSetReplicasThisReconciliation, NextSize

\* Steps that leave the sizes alone.
LEMMA LagSizesFrame ==
  ASSUME LagSizesInv, LagInv',
         mdb'.members = mdb.members, mdb'.tls = mdb.tls,
         mdb'.currentMembers = mdb.currentMembers,
         mdb'.lastVersion # NoVersion => mdb.currentMembers # 0,
         ac'.members = ac.members,
         sts'.exists = sts.exists, sts'.replicas = sts.replicas,
         mdbCache' = mdbCache \/ (mdbCache' = mdb /\ mdb' = mdb),
         stsCache' \in {stsCache, sts},
         pc' # "idle" => (pc # "idle" /\ snap' = snap) \/ snap' = mdbCache,
         pc' = "annotate" => pc = "annotate",
         pc' \in {"readAC", "ensureAC", "agents", "writeSts", "stsStatus"} =>
           /\ pc \in {"readAC", "ensureAC", "agents", "writeSts", "stsStatus"}
           /\ UNCHANGED <<inOrder, snap>>
  PROVE  LagSizesInv'
<1>1. NextSize' = NextSize
  BY DEF NextSize, AutomationConfigMembersThisReconciliation
<1>3. Fetched(mdb)'
  BY DEF LagSizesInv, Fetched, HasCurrentSizes
<1>4. /\ Fetched(mdbCache)'
      /\ HasCurrentSizes(mdbCache) => HasCurrentSizes(mdbCache)'
      /\ mdbCache' = mdb => HasCurrentSizes(mdbCache)'
  <2>1. CASE mdbCache' = mdbCache
    BY <2>1 DEF LagSizesInv, Fetched, HasCurrentSizes,
                AutomationConfigMembersThisReconciliation
  <2>2. CASE mdbCache' = mdb /\ mdb' = mdb
    BY <2>2, <1>3 DEF Fetched, HasCurrentSizes
  <2>3. QED
    BY <2>1, <2>2
<1>5. pc' # "idle" =>
        Fetched(snap)' /\ (HasCurrentSizes(snap)' => HasCurrentSizes(mdbCache)')
  <2>1. CASE pc # "idle" /\ snap' = snap
    <3>1. Fetched(snap)' /\ (HasCurrentSizes(snap)' => HasCurrentSizes(snap))
      BY <2>1 DEF LagSizesInv, Fetched, HasCurrentSizes,
                  AutomationConfigMembersThisReconciliation
    <3>2. HasCurrentSizes(snap) => HasCurrentSizes(mdbCache)
      BY <2>1 DEF LagSizesInv
    <3>3. QED
      BY <1>4, <3>1, <3>2
  <2>2. CASE snap' = mdbCache
    <3>1. Fetched(snap)' /\ (HasCurrentSizes(snap)' => HasCurrentSizes(mdbCache))
      BY <2>2 DEF LagSizesInv, Fetched, HasCurrentSizes,
                  AutomationConfigMembersThisReconciliation
    <3>2. QED
      BY <1>4, <3>1
  <2>3. QED
    BY <2>1, <2>2
<1>6. stsCache'.exists => sts'.exists
  BY DEF LagSizesInv
<1>7. /\ pc' \in {"readAC", "ensureAC", "agents", "writeSts", "stsStatus"}
      /\ HasCurrentSizes(snap)'
      => HasCurrentSizes(snap)
  BY DEF HasCurrentSizes
<1>8. QED
  BY SMT, <1>1, <1>3, <1>4, <1>5, <1>6, <1>7 DEF LagSizesInv

\* What EnsureSecret and CreateOrUpdateStatefulSet write, and what they know.
LEMMA LagWrites ==
  ASSUME LagSizesInv, StaleReads, EnsureSecret \/ CreateOrUpdateStatefulSet
  PROVE  /\ snap \in Resource /\ Fetched(snap) /\ pc # "idle" /\ pc' # "idle"
         /\ UNCHANGED <<mdb, snap, inOrder, mdbCache, stsCache>>
         /\ pc \in {"ensureAC", "writeSts"}
         /\ pc' \in {"agents", "stsStatus", "failed"}
         /\ AutomationConfigMembersThisReconciliation(snap) # 0
         /\ StatefulSetReplicasThisReconciliation(snap) =
              AutomationConfigMembersThisReconciliation(snap)
         /\ EnsureSecret => /\ pc = "ensureAC" /\ sts' = sts
                            /\ ac'.members \in {ac.members,
                                 AutomationConfigMembersThisReconciliation(snap)}
         /\ CreateOrUpdateStatefulSet =>
              /\ pc = "writeSts" /\ ac' = ac
              /\ \/ sts' = sts
                 \/ /\ sts'.exists
                    /\ sts'.replicas = AutomationConfigMembersThisReconciliation(snap)
<1>1. /\ snap \in Resource /\ curAC \in AutomationConfig /\ sts \in StatefulSet
      /\ pc # "idle" /\ pc' # "idle" /\ snap.currentReplicas = snap.currentMembers
      /\ Fetched(snap)
  BY DEF LagSizesInv, LagInv, TypeOK, EnsureSecret, CreateOrUpdateStatefulSet
<1>2. /\ AutomationConfigMembersThisReconciliation(snap) # 0
      /\ StatefulSetReplicasThisReconciliation(snap) =
           AutomationConfigMembersThisReconciliation(snap)
  <2>1. AutomationConfigMembersThisReconciliation(snap) \in 1..MaxMembers
    BY <1>1, ThisReconciliationType
  <2>2. QED
    BY SMT, <1>1, <2>1, SizesAssumption
    DEF AutomationConfigMembersThisReconciliation, StatefulSetReplicasThisReconciliation
<1>3. buildAutomationConfig(curAC, snap).members =
        AutomationConfigMembersThisReconciliation(snap)
  BY <1>1, BuiltConfigType
<1>4. /\ buildStatefulSet(sts, snap).exists
      /\ buildStatefulSet(sts, snap).replicas =
           StatefulSetReplicasThisReconciliation(snap)
  BY <1>1, BuiltStatefulSetType
<1>5. UNCHANGED <<mdb, snap, inOrder, mdbCache, stsCache>>
  BY DEF EnsureSecret, CreateOrUpdateStatefulSet, locals, caches
<1>6. EnsureSecret => /\ pc = "ensureAC" /\ sts' = sts /\ pc' \in {"agents", "failed"}
                      /\ ac'.members \in {ac.members,
                           AutomationConfigMembersThisReconciliation(snap)}
  BY <1>3 DEF EnsureSecret
<1>7. CreateOrUpdateStatefulSet =>
        /\ pc = "writeSts" /\ ac' = ac /\ pc' \in {"stsStatus", "failed"}
        /\ \/ sts' = sts
           \/ /\ sts'.exists
              /\ sts'.replicas = AutomationConfigMembersThisReconciliation(snap)
  BY <1>2, <1>4 DEF CreateOrUpdateStatefulSet
<1>8. QED
  BY <1>1, <1>2, <1>5, <1>6, <1>7

\* A reconciliation whose sizes are outdated does not move the sizes.
LEMMA LagWritesOutdated ==
  ASSUME LagSizesInv, StaleReads, EnsureSecret \/ CreateOrUpdateStatefulSet,
         ~HasCurrentSizes(snap)
  PROVE  /\ ac'.members = ac.members
         /\ sts'.exists = sts.exists /\ sts'.replicas = sts.replicas
<1>1. /\ AutomationConfigMembersThisReconciliation(snap) = mdb.currentMembers
      /\ ac.members = mdb.currentMembers /\ sts.replicas = mdb.currentMembers
      /\ AutomationConfigMembersThisReconciliation(snap) # 0
  BY LagWrites DEF Fetched
<1>2. sts.exists /\ sts.exists \in BOOLEAN
  BY <1>1 DEF LagSizesInv, LagInv, TypeOK, StatefulSet
<1>3. CASE EnsureSecret
  BY <1>1, <1>3, LagWrites
<1>4. CASE CreateOrUpdateStatefulSet
  <2>1. ac' = ac
    BY <1>4, LagWrites
  <2>2. CASE sts' = sts
    BY <2>1, <2>2
  <2>3. CASE sts'.exists /\ sts'.replicas = AutomationConfigMembersThisReconciliation(snap)
    <3>1. sts'.exists = TRUE /\ sts.exists = TRUE
      <4>1. sts' \in StatefulSet
        BY <1>4, BuiltStatefulSetType
        DEF LagSizesInv, LagInv, TypeOK, CreateOrUpdateStatefulSet
      <4>2. QED
        BY <1>2, <2>3, <4>1 DEF StatefulSet
    <3>2. QED
      BY <1>1, <2>1, <2>3, <3>1
  <2>4. QED
    BY <1>4, <2>2, <2>3, LagWrites
<1>5. QED
  BY <1>3, <1>4

\* LagSizesInv is inductive.
LEMMA LagSizesStep ==
  ASSUME LagSizesInv, [Next]_vars, StaleReads, SafeEdits
  PROVE  LagSizesInv'
<1>1. LagInv /\ LagInv' /\ TypeOK /\ Fetched(mdb) /\ mdb \in Resource /\ ~InFlightEdits
  BY LagStep DEF LagSizesInv, LagInv, TypeOK, SafeEdits
<1>2. mdb.lastVersion # NoVersion => mdb.currentMembers # 0
  BY <1>1 DEF Fetched
<1>13. CASE WaitForAgents
  <2>1. /\ UNCHANGED <<mdb, ac, sts, pods, snap, inOrder, mdbCache, stsCache>>
        /\ pc = "agents"
        /\ pc' \in {"agents", IF inOrder THEN "writeSts" ELSE "reset", "pending"}
    BY <1>13, AgentsEffect
  <2>2. QED
    BY <1>1, <1>2, <2>1, LagSizesFrame DEF k8s
<1>3. CASE \/ Dequeue \/ ReadAutomationConfig \/ CheckStatefulSet
           \/ ApiError \/ TLSConfigNotValid \/ StatusError \/ AnnotateError
           \/ Crash \/ Informers
  <2>1. /\ UNCHANGED k8s
        /\ mdbCache' = mdbCache \/ mdbCache' = mdb
        /\ stsCache' \in {stsCache, sts}
        /\ pc' # "idle" => (pc # "idle" /\ snap' = snap) \/ snap' = mdbCache
        /\ pc' = "annotate" => pc = "annotate"
        /\ pc' \in {"readAC", "ensureAC", "agents", "writeSts", "stsStatus"} =>
             /\ pc \in {"readAC", "ensureAC", "agents", "writeSts", "stsStatus"}
             /\ UNCHANGED <<inOrder, snap>>
    BY <1>3 DEF Dequeue, ReadAutomationConfig, CheckStatefulSet,
       AfterStatefulSet, ApiError, TLSConfigNotValid,
       StatusError, AnnotateError, Crash, Informers, SyncMdb, SyncAC, SyncSts,
       SeenMdb, Return, locals, caches
  <2>2. QED
    BY <1>1, <1>2, <2>1, LagSizesFrame DEF k8s
<1>4. CASE GiveUp \/ Annotate
  <2>1. /\ mdb'.members = mdb.members /\ mdb'.tls = mdb.tls
        /\ mdb'.currentMembers = mdb.currentMembers
        /\ mdb'.lastVersion = mdb.lastVersion \/ pc = "annotate"
    BY <1>1, <1>4 DEF GiveUp, Annotate, Resource
  <2>2. /\ ac' = ac /\ sts' = sts /\ mdbCache' = mdbCache /\ stsCache' = stsCache
        /\ pc' = "idle"
    BY <1>4 DEF GiveUp, Annotate, Return, caches
  <2>3. mdb'.lastVersion # NoVersion => mdb.currentMembers # 0
    BY <1>2, <2>1 DEF LagSizesInv
  <2>4. LagInv'
    BY <1>1
  <2>5. QED
    BY <2>1, <2>2, <2>3, <2>4, LagSizesFrame
<1>5. CASE ResetUpdateStrategy \/ StatefulSetController \/ Agents \/ UNCHANGED vars
  <2>1. sts'.exists = sts.exists /\ sts'.replicas = sts.replicas
    <3>1. CASE ResetUpdateStrategy \/ SyncStatefulSetStatus
      BY <1>1, <3>1 DEF TypeOK, ResetUpdateStrategy, SyncStatefulSetStatus,
                               StatefulSet
    <3>2. CASE sts' = sts
      BY <3>2
    <3>3. QED
      BY <1>5, <3>1, <3>2 DEF StatefulSetController, Agents, vars, CreatePod,
         RemovePod, RollPod, HookDeletesPod, ReachGoal, ReadyWhenDeadlocked,
         LoseReadiness, podEnv
  <2>2. /\ UNCHANGED <<mdb, ac, snap, inOrder, mdbCache, stsCache>>
        /\ pc' = pc \/ (pc # "idle" /\ pc' \in {"status", "failed"})
    BY <1>5 DEF ResetUpdateStrategy, StatefulSetController, Agents, vars,
       SyncStatefulSetStatus, CreatePod, RemovePod, RollPod, HookDeletesPod,
       ReachGoal, ReadyWhenDeadlocked, LoseReadiness, podEnv, locals, caches
  <2>3. QED
    BY <1>1, <1>2, <2>1, <2>2, LagSizesFrame
<1>6. CASE Prepare \/ LookupError
  <2>1. PICK found \in BOOLEAN :
          /\ found => sts.exists
          /\ UNCHANGED <<mdb, ac, sts, snap, mdbCache, stsCache>>
          /\ inOrder' = shouldRunInOrder(snap, found)
          /\ pc = "prepare" /\ pc' = IF inOrder' THEN "readAC" ELSE "writeSts"
    <3>1. CASE Prepare
      BY <1>1, <3>1 DEF Prepare, SeenSts, k8s, caches, LagSizesInv, TypeOK, StatefulSet
    <3>2. CASE LookupError
      BY <3>2 DEF LookupError, k8s, caches
    <3>3. QED
      BY <1>6, <3>1, <3>2
  <2>2. NextSize' = NextSize
    BY <2>1 DEF NextSize, AutomationConfigMembersThisReconciliation
  <2>3. /\ Fetched(mdb)' /\ Fetched(mdbCache)' /\ Fetched(snap)'
        /\ HasCurrentSizes(snap)' => HasCurrentSizes(mdbCache)'
        /\ HasCurrentSizes(snap)' => HasCurrentSizes(snap)
    BY <2>1 DEF LagSizesInv, Fetched, HasCurrentSizes,
                AutomationConfigMembersThisReconciliation
  <2>4. ASSUME HasCurrentSizes(snap)
        PROVE  IF inOrder' THEN mdb.currentMembers = 0 \/ NextSize <= mdb.currentMembers
               ELSE sts.exists /\ (mdb.currentMembers = 0 \/ mdb.currentMembers <= NextSize)
    <3>1. /\ snap.currentReplicas = mdb.currentMembers /\ snap.members = mdb.members
          /\ snap.lastVersion # NoVersion => mdb.currentMembers # 0
          /\ IF EditKinds \cap {"down", "both"} = {}
             THEN mdb.currentMembers <= mdb.members ELSE ~snap.tls
      BY <2>1, <2>4 DEF LagSizesInv, LagInv, Fetched, HasCurrentSizes
    <3>2. mdb.currentMembers # 0 => sts.exists
      BY <1>1, LagSizeFacts DEF LagSizesInv
    <3>3. CASE inOrder'
      <4>1. ~IsScalingUp(mdb.currentMembers, mdb.members)
        BY <2>1, <3>1, <3>3 DEF shouldRunInOrder
      <4>2. QED
        BY SMT, <1>1, <3>3, <4>1, LagSizeFacts DEF IsScalingUp
    <3>4. CASE ~inOrder'
      <4>1. CASE found /\ snap.tls
        BY SMT, <1>1, <2>1, <3>1, <3>4, <4>1, LagSizeFacts
      <4>2. CASE IsScalingUp(mdb.currentMembers, mdb.members)
        BY SMT, <1>1, <3>2, <3>4, <4>2, LagSizeFacts DEF IsScalingUp
      <4>3. CASE /\ IsChangingVersion(snap)
                 /\ ~IsScalingDown(mdb.currentMembers, mdb.members)
        BY SMT, <1>1, <3>1, <3>2, <3>4, <4>3, LagSizeFacts DEF IsChangingVersion, IsScalingDown
      <4>4. QED
        BY <2>1, <3>1, <3>4, <4>1, <4>2, <4>3 DEF shouldRunInOrder
    <3>5. QED
      BY <3>3, <3>4
  <2>5. QED
    BY <1>1, <2>1, <2>2, <2>3, <2>4 DEF LagSizesInv
<1>7. CASE EnsureSecret \/ CreateOrUpdateStatefulSet
  <2>1. /\ snap \in Resource /\ pc # "idle" /\ pc' # "idle"
        /\ UNCHANGED <<mdb, snap, inOrder, mdbCache, stsCache>>
        /\ pc \in {"ensureAC", "writeSts"} /\ pc' \in {"agents", "stsStatus", "failed"}
    BY <1>7, LagWrites
  <2>2. CASE ~HasCurrentSizes(snap)
    BY <1>1, <1>2, <1>7, <2>1, <2>2, LagWritesOutdated, LagSizesFrame
  <2>3. CASE HasCurrentSizes(snap)
    <3>1. /\ AutomationConfigMembersThisReconciliation(snap) = NextSize
          /\ StatefulSetReplicasThisReconciliation(snap) = NextSize
      BY <1>1, <2>3, CurrentSizes DEF LagInv
    <3>2. NextSize' = NextSize
      BY <2>1 DEF NextSize, AutomationConfigMembersThisReconciliation
    <3>3. /\ HasCurrentSizes(mdb)' /\ HasCurrentSizes(mdbCache)' /\ HasCurrentSizes(snap)'
          /\ Fetched(mdb)' /\ Fetched(mdbCache)' /\ Fetched(snap)'
      BY <2>1, <2>3 DEF LagSizesInv, Fetched, HasCurrentSizes
    <3>4. IF inOrder THEN mdb.currentMembers = 0 \/ NextSize <= mdb.currentMembers
          ELSE sts.exists /\ (mdb.currentMembers = 0 \/ mdb.currentMembers <= NextSize)
      BY <2>1, <2>3 DEF LagSizesInv
    <3>5. CASE EnsureSecret
      <4>1. /\ ac'.members \in {ac.members, NextSize} /\ sts' = sts /\ pc = "ensureAC"
        BY <3>1, <3>5, LagWrites
      <4>2. ~inOrder => sts.replicas = NextSize
        BY <1>1, <3>1, <4>1 DEF LagInv, StatefulSetDeployed, StatefulSetMatches
      <4>3. IF mdb.currentMembers = 0 THEN sts.replicas <= ac'.members
                                      ELSE ac'.members <= sts.replicas
        BY SMT, <1>1, <3>4, <4>1, <4>2, LagSizeFacts DEF LagSizesInv
      <4>4. QED
        BY <1>1, <2>1, <3>2, <3>3, <3>4, <4>1, <4>3 DEF LagSizesInv
    <3>6. CASE CreateOrUpdateStatefulSet
      <4>1. /\ ac' = ac /\ pc = "writeSts"
            /\ sts' = sts \/ (sts'.exists /\ sts'.replicas = NextSize)
        BY <3>1, <3>6, LagWrites
      <4>2. inOrder => ac.members = NextSize
        BY <1>1, <3>1, <4>1 DEF LagInv, ConfigDeployed, ConfigMatches
      <4>3. CASE sts' = sts
        BY <1>1, <1>2, <2>1, <4>1, <4>3, LagSizesFrame
      <4>4. CASE sts'.exists /\ sts'.replicas = NextSize
        <5>1. IF mdb.currentMembers = 0 THEN NextSize <= ac.members
                                        ELSE ac.members <= NextSize
          BY SMT, <1>1, <3>4, <4>2, LagSizeFacts DEF LagSizesInv
        <5>2. NextSize # 0
          BY <1>1, LagSizeFacts
        <5>3. QED
          BY <1>1, <2>1, <3>2, <3>3, <3>4, <4>1, <4>4, <5>1, <5>2 DEF LagSizesInv
      <4>5. QED
        BY <4>1, <4>3, <4>4
    <3>7. QED
      BY <1>7, <3>5, <3>6
  <2>4. QED
    BY <2>2, <2>3
<1>8. CASE UpdateStatus
  <2>1. CASE snap # mdb
    <3>1. /\ UNCHANGED <<mdb, ac, sts, mdbCache, stsCache>> /\ pc' = "idle"
      BY <1>8, <2>1 DEF UpdateStatus, Return, caches
    <3>2. QED
      BY <1>1, <1>2, <3>1, LagSizesFrame
  <2>2. CASE snap = mdb
    <3>1. /\ mdb' = Scaled(mdb, "Pending") \/ mdb' = Scaled(mdb, "Running")
          /\ UNCHANGED <<ac, sts, mdbCache, stsCache>> /\ pc = "status"
          /\ pc' \in {"idle", "annotate"} /\ (pc' # "idle" => snap' = snap)
      BY <1>8, <2>2 DEF UpdateStatus, Return, caches, locals
    <3>2. /\ mdb'.members = mdb.members /\ mdb'.tls = mdb.tls
          /\ mdb'.currentMembers = NextSize
      BY SMT, <1>1, <3>1, ScaledType DEF NextSize
    <3>3. HasCurrentSizes(snap) /\ HasCurrentSizes(mdbCache)
      BY <2>2, <3>1 DEF LagSizesInv, HasCurrentSizes
    <3>4. ac.members = NextSize /\ sts.replicas = NextSize
      <4>1. /\ AutomationConfigMembersThisReconciliation(snap) = NextSize
            /\ StatefulSetReplicasThisReconciliation(snap) = NextSize
        BY <1>1, <3>3, CurrentSizes DEF LagInv
      <4>2. ConfigMatches(snap) /\ StatefulSetMatches(snap)
        BY <1>1, <3>1 DEF LagInv, ConfigDeployed, StatefulSetDeployed
      <4>3. QED
        BY <4>1, <4>2 DEF ConfigMatches, StatefulSetMatches
    <3>5. Fetched(mdb)'
      <4>1. NextSize \in Sizes \cup {0} /\ NextSize # 0
        BY <1>1, LagSizeFacts
      <4>2. IF EditKinds \cap {"down", "both"} = {}
            THEN NextSize <= mdb.members ELSE ~mdb.tls
        BY SMT, <1>1, LagSizeFacts DEF Fetched
      <4>3. QED
        BY <3>2, <4>1, <4>2 DEF Fetched, HasCurrentSizes
    <3>6. /\ Fetched(mdbCache)'
          /\ pc' # "idle" => Fetched(snap)'
      <4>1. AutomationConfigMembersThisReconciliation(mdbCache) = NextSize
        BY <1>1, <3>3, CurrentSizes DEF LagInv
      <4>2. AutomationConfigMembersThisReconciliation(mdbCache)' = NextSize
        BY <3>1, <4>1 DEF AutomationConfigMembersThisReconciliation
      <4>3. pc' # "idle" => AutomationConfigMembersThisReconciliation(snap)' = NextSize
        BY <2>2, <3>1 DEF AutomationConfigMembersThisReconciliation, NextSize
      <4>4. Fetched(snap) /\ Fetched(mdbCache)
        BY <3>1 DEF LagSizesInv
      <4>5. QED
        BY SMT, <3>1, <3>2, <3>4, <4>2, <4>3, <4>4 DEF Fetched
    <3>7. pc' # "idle" => (HasCurrentSizes(snap)' => HasCurrentSizes(mdbCache)')
      BY <3>1, <3>3 DEF HasCurrentSizes
    <3>8. NextSize # 0 /\ NextSize \in Nat
      BY <1>1, LagSizeFacts
    <3>9. QED
      BY <1>1, <3>1, <3>2, <3>4, <3>5, <3>6, <3>7, <3>8 DEF LagSizesInv
  <2>3. QED
    BY <2>1, <2>2
<1>9. CASE EditSpec
  <2>1. /\ pc = "idle" /\ pc' = "idle" /\ ~queued /\ mdbCache = mdb
        /\ UNCHANGED <<ac, sts, mdbCache, stsCache>>
    BY <1>1, <1>9 DEF EditSpec, Settled, SeenMdb, caches
  <2>2. Matches /\ mdb.currentMembers = mdb.members
    BY <1>1, <2>1 DEF LagInv
  <2>3. PICK m \in Sizes, v \in Versions, t \in BOOLEAN :
          /\ Edits(m, v, t)
          /\ mdb' = [mdb EXCEPT !.members = m, !.version = v, !.tls = t,
                                !.gen = mdb.gen + 1]
    BY <1>9 DEF EditSpec
  <2>4. /\ mdb'.members = m /\ mdb'.tls = t
        /\ mdb'.currentMembers = mdb.currentMembers
        /\ mdb'.lastVersion = mdb.lastVersion
    BY <1>1, <2>3 DEF Resource
  <2>5. EditKinds \cap {"down", "both"} = {} => mdb.members <= m
    <3>1. m \in Int /\ mdb.members \in Int
      BY SMT, <1>1, SizesAssumption, LagSizeFacts DEF Sizes
    <3>2. QED
      BY SMT, <2>3, <3>1 DEF Edits
  <2>6. EditKinds \cap {"down", "both"} # {} => t = mdb.tls
    BY <2>3 DEF Edits, SafeEdits
  <2>7. Fetched(mdb)'
    BY <1>1, <2>2, <2>4, <2>5, <2>6 DEF Fetched, HasCurrentSizes
  <2>8. /\ ac.members = mdb.currentMembers /\ sts.replicas = mdb.currentMembers
        /\ mdb.currentMembers # 0 /\ mdb.currentMembers \in Nat
    BY <1>1, <2>2, LagSizeFacts DEF Matches
  <2>9. Fetched(mdbCache)'
    <3>1. AutomationConfigMembersThisReconciliation(mdbCache)' = mdb.currentMembers
      BY <2>1, <2>2 DEF AutomationConfigMembersThisReconciliation,
                        ReplicasThisReconciliation
    <3>2. Fetched(mdbCache)
      BY DEF LagSizesInv
    <3>3. QED
      BY <2>1, <2>4, <2>8, <3>1, <3>2 DEF Fetched
  <2>10. QED
    BY <1>1, <2>1, <2>4, <2>7, <2>8, <2>9 DEF LagSizesInv
<1>10. QED
  BY <1>3, <1>4, <1>5, <1>6, <1>7, <1>8, <1>9, <1>13 DEF Next, Reconcile, Faults

\* LagSizesInv holds initially.
LEMMA LagSizesInit ==
  ASSUME SafeEdits, Init
  PROVE  LagSizesInv
<1>1. PICK m \in Sizes, v \in InitVersions, t \in InitTLS :
        mdb = [members |-> m, version |-> v, tls |-> t, gen |-> 0,
               currentMembers |-> 0, currentReplicas |-> 0, phase |-> "",
               lastVersion |-> NoVersion, lastTLS |-> FALSE]
  BY DEF Init
<1>2. /\ mdb.currentMembers = 0 /\ mdb.lastVersion = NoVersion
      /\ mdb.members \in Nat /\ mdb.tls \in InitTLS
  <2>1. m \in Nat
    BY SMT, SizesAssumption DEF Sizes
  <2>2. QED
    BY <1>1, <2>1
<1>3. /\ pc = "idle" /\ ac = NoAC /\ sts = NoSts
      /\ mdbCache = mdb /\ stsCache = sts
  BY DEF Init
<1>4. Fetched(mdb)
  <2>1. EditKinds \cap {"down", "both"} # {} => ~mdb.tls
    BY <1>2 DEF SafeEdits
  <2>2. 0 <= mdb.members
    BY SMT, <1>2
  <2>3. QED
    BY <1>2, <2>1, <2>2 DEF Fetched, HasCurrentSizes
<1>5. ac.members = 0 /\ sts.replicas = 0 /\ ~sts.exists
  BY <1>3 DEF NoAC, NoSts
<1>6. QED
  BY SMT, <1>2, <1>3, <1>4, <1>5, LagInit DEF LagSizesInv

\* In a state of LagSizesInv the members and the replicas are in step.
LEMMA LagSizesInStep ==
  ASSUME LagSizesInv
  PROVE  MembersInStep
<1>1. LagInv /\ Fetched(mdb)
  BY DEF LagSizesInv
<1>2. QED
  BY SMT, <1>1, LagSizeFacts DEF LagSizesInv, MembersInStep, Membership!InStep, Sizes

-----------------------------------------------------------------------------
(* The protocol for changing the membership *)

\* A write of the config that moves the members to the next size is a step of
\* the protocol.
LEMMA ConfigMoves ==
  ASSUME NEW c \in Nat, NEW n \in MinMembers..MaxMembers,
         c # 0 => c \in MinMembers..MaxMembers /\ n \in {c - 1, c, c + 1},
         ac.members \in {c, n}, sts.replicas \in {c, n},
         IF c = 0 THEN sts.replicas <= ac.members ELSE ac.members <= sts.replicas,
         c # 0 /\ c < n => sts.replicas = n,
         ac'.members \in {ac.members, n}, sts'.replicas = sts.replicas
  PROVE  [Membership!MNext]_(Membership!members)
<1>1. n \in Nat /\ n # 0 /\ MinMembers \in Nat /\ MaxMembers \in Nat
  BY SMT, SizesAssumption
<1>2. CASE ac'.members = ac.members
  BY <1>2 DEF Membership!members
<1>3. CASE ac.members # n /\ ac'.members = n
  <2>1. CASE c = 0
    BY SMT, <1>1, <1>3, <2>1 DEF Membership!MNext, Membership!Configure
  <2>2. CASE c # 0 /\ n < c
    <3>1. ac.members = c /\ sts.replicas = c /\ n = c - 1
      BY SMT, <1>1, <1>3, <2>2
    <3>2. c \in (MinMembers + 1)..MaxMembers
      BY SMT, <1>1, <2>2, <3>1
    <3>3. QED
      BY <1>3, <3>1, <3>2 DEF Membership!MNext, Membership!RemoveMember
  <2>3. CASE c # 0 /\ c < n
    BY SMT, <1>1, <1>3, <2>3 DEF Membership!MNext, Membership!AddMember
  <2>4. QED
    BY SMT, <1>1, <1>3, <2>1, <2>2, <2>3
<1>4. QED
  BY <1>2, <1>3

\* The same for a write of the StatefulSet.
LEMMA ReplicasMove ==
  ASSUME NEW c \in Nat, NEW n \in MinMembers..MaxMembers,
         c # 0 => c \in MinMembers..MaxMembers /\ n \in {c - 1, c, c + 1},
         ac.members \in {c, n}, sts.replicas \in {c, n},
         IF c = 0 THEN sts.replicas <= ac.members ELSE ac.members <= sts.replicas,
         c = 0 \/ n < c => sts.replicas = n \/ ac.members = n,
         sts'.replicas \in {sts.replicas, n}, ac'.members = ac.members
  PROVE  [Membership!MNext]_(Membership!members)
<1>1. n \in Nat /\ n # 0 /\ MinMembers \in Nat /\ MaxMembers \in Nat
  BY SMT, SizesAssumption
<1>2. CASE sts'.replicas = sts.replicas
  BY <1>2 DEF Membership!members
<1>3. CASE sts.replicas # n /\ sts'.replicas = n
  <2>1. CASE c = 0
    BY <1>1, <1>3, <2>1 DEF Membership!MNext, Membership!Provision
  <2>2. CASE c # 0 /\ n < c
    BY SMT, <1>1, <1>3, <2>2 DEF Membership!MNext, Membership!RemoveReplica
  <2>3. CASE c # 0 /\ c < n
    <3>1. ac.members = c /\ sts.replicas = c /\ n = c + 1
      BY SMT, <1>1, <1>3, <2>3
    <3>2. c \in MinMembers..(MaxMembers - 1)
      BY SMT, <1>1, <2>3, <3>1
    <3>3. QED
      BY <1>3, <3>1, <3>2 DEF Membership!MNext, Membership!AddReplica
  <2>4. QED
    BY SMT, <1>1, <1>3, <2>1, <2>2, <2>3
<1>4. QED
  BY <1>2, <1>3

\* Every other step leaves the sizes alone.
LEMMA OtherSteps ==
  ASSUME TypeOK, [Next]_vars, ~EnsureSecret, ~CreateOrUpdateStatefulSet
  PROVE  ac' = ac /\ sts'.replicas = sts.replicas
<1>1. CASE Informers \/ StatefulSetController \/ Agents \/ UNCHANGED vars
  <2>1. CASE SyncStatefulSetStatus
    BY <2>1 DEF TypeOK, SyncStatefulSetStatus, StatefulSet
  <2>2. QED
    BY <1>1, <2>1 DEF Informers, SyncMdb, SyncAC, SyncSts, StatefulSetController,
       Agents, vars, CreatePod, RemovePod, RollPod, HookDeletesPod, ReachGoal,
       ReadyWhenDeadlocked, LoseReadiness, k8s, podEnv
<1>2. CASE Dequeue \/ Prepare \/ ReadAutomationConfig \/ WaitForAgents \/ CheckStatefulSet
  BY <1>2 DEF Dequeue, Prepare, ReadAutomationConfig, WaitForAgents,
              CheckStatefulSet, k8s
<1>3. CASE ResetUpdateStrategy
  BY <1>3 DEF TypeOK, ResetUpdateStrategy, StatefulSet
<1>4. CASE UpdateStatus \/ GiveUp \/ Annotate \/ EditSpec
  BY <1>4 DEF UpdateStatus, GiveUp, Annotate, EditSpec
<1>5. CASE Faults
  BY <1>5 DEF Faults, ApiError, LookupError, TLSConfigNotValid, StatusError,
              AnnotateError, Crash, k8s
<1>6. QED
  BY <1>1, <1>2, <1>3, <1>4, <1>5 DEF Next, Reconcile

\* Every step of the controller is a step of the abstract protocol, or leaves
\* the sizes alone.
LEMMA MembershipStep ==
  ASSUME OneEditAtATime, SizesInv, [Next]_vars
  PROVE  [Membership!MNext]_(Membership!members)
<1>1. TypeOK /\ StatusInv /\ ~StaleReads
  BY DEF SizesInv, OneEditAtATime
<1>2. pc \notin {"idle", "annotate"} => snap = mdb
  BY <1>1 DEF StatusInv
<1> DEFINE c == mdb.currentMembers
           n == NextSize
<1>3. /\ c \in Nat /\ n \in MinMembers..MaxMembers /\ n \in Nat
      /\ c # 0 => c \in MinMembers..MaxMembers /\ n \in {c - 1, c, c + 1}
  BY <1>1, NextSizeFacts DEF Sizes
<1>4. /\ ac.members \in {c, n} /\ sts.replicas \in {c, n}
      /\ IF c = 0 THEN sts.replicas <= ac.members ELSE ac.members <= sts.replicas
      /\ sts.exists => sts.replicas # 0
      /\ pc \in {"ensureAC", "writeSts"} =>
           IF inOrder THEN c = 0 \/ n <= c ELSE sts.exists /\ (c = 0 \/ c <= n)
  BY DEF SizesInv
<1>5. CASE EnsureSecret
  <2>1. ac'.members \in {ac.members, n} /\ sts' = sts /\ pc = "ensureAC"
    <3>1. mdb \in Resource /\ curAC \in AutomationConfig
      BY <1>1 DEF TypeOK
    <3>2. buildAutomationConfig(curAC, mdb).members = n
      BY <3>1, BuiltConfigType DEF NextSize
    <3>3. QED
      BY <1>2, <1>5, <3>2 DEF EnsureSecret
  <2>2. c # 0 /\ c < n => sts.replicas = n
    BY SMT, <1>3, <1>4, <2>1 DEF SizesInv, StatefulSetDeployed
  <2>3. QED
    BY <1>3, <1>4, <2>1, <2>2, ConfigMoves
<1>6. CASE CreateOrUpdateStatefulSet
  <2>1. sts'.replicas \in {sts.replicas, n} /\ ac' = ac /\ pc = "writeSts"
    <3>1. mdb \in Resource /\ sts \in StatefulSet
      BY <1>1 DEF TypeOK
    <3>2. buildStatefulSet(sts, mdb).replicas = n
      BY <1>1, <3>1, BuiltStatefulSetType, NextSizeFacts
    <3>3. QED
      BY <1>2, <1>6, <3>2 DEF CreateOrUpdateStatefulSet
  <2>2. inOrder => ac.members = n
    BY <2>1 DEF SizesInv, ConfigDeployed
  <2>3. c = 0 \/ n < c => sts.replicas = n \/ ac.members = n
    BY SMT, <1>3, <1>4, <2>1, <2>2
  <2>4. QED
    BY <1>3, <1>4, <2>1, <2>3, ReplicasMove
<1>7. CASE ~EnsureSecret /\ ~CreateOrUpdateStatefulSet
  BY <1>1, <1>7, OtherSteps DEF Membership!members
<1>8. QED
  BY <1>5, <1>6, <1>7

\* Every step of the controller is a step of the abstract protocol, or leaves
\* the sizes alone, when reads lag.
LEMMA LagMembershipStep ==
  ASSUME LagSizesInv, [Next]_vars, StaleReads, SafeEdits
  PROVE  [Membership!MNext]_(Membership!members)
<1>1. LagInv /\ TypeOK /\ Fetched(mdb)
  BY DEF LagSizesInv, LagInv
<1> DEFINE c == mdb.currentMembers
           n == NextSize
<1>2. /\ c \in Nat /\ n \in MinMembers..MaxMembers /\ n \in Nat
      /\ c # 0 => c \in MinMembers..MaxMembers /\ n \in {c - 1, c, c + 1}
  BY <1>1, LagSizeFacts DEF Sizes
<1>3. /\ ac.members \in {c, n} /\ sts.replicas \in {c, n}
      /\ IF c = 0 THEN sts.replicas <= ac.members ELSE ac.members <= sts.replicas
  BY DEF LagSizesInv
<1>4. CASE ~EnsureSecret /\ ~CreateOrUpdateStatefulSet
  BY <1>1, <1>4, OtherSteps DEF Membership!members
<1>5. CASE /\ EnsureSecret \/ CreateOrUpdateStatefulSet
           /\ ~HasCurrentSizes(snap)
  BY <1>5, LagWritesOutdated DEF Membership!members
<1>6. CASE /\ EnsureSecret \/ CreateOrUpdateStatefulSet
           /\ HasCurrentSizes(snap)
  <2>1. /\ AutomationConfigMembersThisReconciliation(snap) = n
        /\ StatefulSetReplicasThisReconciliation(snap) = n
    BY <1>1, <1>6, CurrentSizes DEF LagInv
  <2>2. pc \in {"ensureAC", "writeSts"} =>
          IF inOrder THEN c = 0 \/ n <= c ELSE sts.exists /\ (c = 0 \/ c <= n)
    BY <1>6 DEF LagSizesInv
  <2>3. CASE EnsureSecret
    <3>1. ac'.members \in {ac.members, n} /\ sts' = sts /\ pc = "ensureAC"
      BY <2>1, <2>3, LagWrites
    <3>2. ~inOrder => sts.replicas = n
      BY <1>1, <2>1, <3>1 DEF LagInv, StatefulSetDeployed, StatefulSetMatches
    <3>3. c # 0 /\ c < n => sts.replicas = n
      BY SMT, <1>2, <2>2, <3>1, <3>2
    <3>4. QED
      BY <1>2, <1>3, <3>1, <3>3, ConfigMoves
  <2>4. CASE CreateOrUpdateStatefulSet
    <3>1. sts'.replicas \in {sts.replicas, n} /\ ac' = ac /\ pc = "writeSts"
      BY <2>1, <2>4, LagWrites
    <3>2. inOrder => ac.members = n
      BY <1>1, <2>1, <3>1 DEF LagInv, ConfigDeployed, ConfigMatches
    <3>3. sts.exists => sts.replicas # 0
      BY DEF LagSizesInv
    <3>4. c = 0 \/ n < c => sts.replicas = n \/ ac.members = n
      BY SMT, <1>2, <1>3, <2>2, <3>1, <3>2, <3>3
    <3>5. QED
      BY <1>2, <1>3, <3>1, <3>4, ReplicasMove
  <2>5. QED
    BY <1>6, <2>3, <2>4
<1>7. QED
  BY <1>4, <1>5, <1>6

\* The sizes are in step, and each step moves them as the protocol says, however
\* far the informer caches lag behind.
LEMMA SafeSizes ==
  ASSUME SafeEdits
  PROVE  Spec => []MembersInStep /\ RefinesMembershipChange
<1>1. Init => Membership!MInit
  <2>1. Init => ac = NoAC /\ sts = NoSts
    BY DEF Init
  <2>2. NoAC.members = 0 /\ NoSts.replicas = 0
    BY DEF NoAC, NoSts
  <2>3. QED
    BY <2>1, <2>2 DEF Membership!MInit
<1>2. CASE ~StaleReads
  <2>1. OneEditAtATime
    BY <1>2 DEF OneEditAtATime
  <2>2. Init => SizesInv
    BY <2>1, SizesInit
  <2>3. SizesInv /\ [Next]_vars => SizesInv'
    BY <2>1, SizesStep
  <2>4. SizesInv /\ [Next]_vars => [Membership!MNext]_(Membership!members)
    BY <2>1, MembershipStep
  <2>5. SizesInv => MembersInStep
    BY SizesInStep
  <2>6. QED
    BY <1>1, <2>2, <2>3, <2>4, <2>5, PTL
    DEF Spec, RefinesMembershipChange, Membership!MSpec
<1>3. CASE StaleReads
  <2>1. Init => LagSizesInv
    BY LagSizesInit
  <2>2. LagSizesInv /\ [Next]_vars => LagSizesInv'
    BY <1>3, LagSizesStep
  <2>3. LagSizesInv /\ [Next]_vars => [Membership!MNext]_(Membership!members)
    BY <1>3, LagMembershipStep
  <2>4. LagSizesInv => MembersInStep
    BY LagSizesInStep
  <2>5. QED
    BY <1>1, <2>1, <2>2, <2>3, <2>4, PTL
    DEF Spec, RefinesMembershipChange, Membership!MSpec
<1>4. QED
  BY <1>2, <1>3

\* One edit at a time, the automation config never names a member without a
\* replica, whatever fails, whenever the operator restarts and however far its
\* reads lag.
THEOREM InStepAlways == SafeEdits => (Spec => []MembersInStep)
<1> SUFFICES ASSUME SafeEdits PROVE Spec => []MembersInStep
  OBVIOUS
<1>1. QED
  BY SafeSizes, PTL

\* The controller implements the protocol for changing the membership.
THEOREM Refinement == SafeEdits => (Spec => RefinesMembershipChange)
<1> SUFFICES ASSUME SafeEdits PROVE Spec => RefinesMembershipChange
  OBVIOUS
<1>1. QED
  BY SafeSizes, PTL
=============================================================================
