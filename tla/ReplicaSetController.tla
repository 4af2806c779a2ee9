------------------------ MODULE ReplicaSetController ------------------------
(***************************************************************************)
(* The reconcile loop of one MongoDBCommunity resource                     *)
(* (controllers/replica_set_controller.go), together with the objects it   *)
(* drives: the resource, the automation-config secret, the StatefulSet and *)
(* its pods.  The StatefulSet controller, the agents in the pods and the   *)
(* version-upgrade hook are the environment; they are modelled by what the *)
(* operator relies on.                                                     *)
(*                                                                         *)
(* Every API read or write of a reconciliation is a step of its own, so    *)
(* that edits of the resource, pod events, API errors and operator crashes *)
(* interleave with it.  The work queue never hands one resource to two     *)
(* workers, so one reconciliation runs at a time.                          *)
(*                                                                         *)
(* Abstractions:                                                           *)
(*  - a pod template is the mongod version and whether the TLS volumes are *)
(*    mounted; an automation config is its member count, mongod version    *)
(*    and TLS flag under a config version number;                          *)
(*  - ensureService, the TLS resources and the user resources either       *)
(*    succeed or make the reconciliation fail or wait (TLSRotation and     *)
(*    ScramUsers model the last two);                                      *)
(*  - a resourceVersion is the object's content (the resource also counts  *)
(*    its edits), so a write based on an outdated read conflicts.          *)
(***************************************************************************)
EXTENDS Scale, FiniteSets

CONSTANTS
  MinMembers, MaxMembers,  \* sizes the user asks for
  Versions, NoVersion,     \* MongoDB versions; NoVersion: no annotation, no config
  InitVersions,            \* values of spec.version at creation
  InitTLS,                 \* values of spec.security.tls.enabled at creation
  EditKinds,               \* which edits the user makes
  InFlightEdits,           \* may the user edit before the last edit is deployed?
  StaleReads,              \* may the operator's cached reads lag?
  FaultKinds,              \* which faults happen
  MaxEdits, MaxFaults      \* bounds

ASSUME SizesAssumption ==
  /\ MinMembers \in Nat \ {0}
  /\ MaxMembers \in Nat
  /\ MinMembers <= MaxMembers

ASSUME ConstantsAssumption ==
  /\ NoVersion \notin Versions
  /\ InitVersions \subseteq Versions
  /\ InitTLS \subseteq BOOLEAN
  /\ EditKinds \subseteq {"up", "down", "version", "both", "tls"}
  /\ InFlightEdits \in BOOLEAN
  /\ StaleReads \in BOOLEAN
  /\ FaultKinds \subseteq {"api", "lookup", "tls", "status", "annotate", "crash"}
  /\ MaxEdits \in Nat
  /\ MaxFaults \in Nat

VARIABLES
  mdb,       \* the MongoDBCommunity resource: spec, status, annotations
  ac,        \* the automation config in its secret
  sts,       \* the StatefulSet: spec and status
  pods,      \* the StatefulSet's pods by ordinal
  pc,        \* where the reconciliation is
  snap,      \* the resource as this reconciliation fetched it
  inOrder,   \* automation config before StatefulSet?
  stsFound,  \* did deployAutomationConfig find the StatefulSet?
  curAC,     \* the automation config this reconciliation builds on
  target,    \* the config version the agents must reach
  podsRead,  \* how many pods the check of the agents has read
  podsNotFound,  \* how many of them were not there
  queued,    \* is the resource in the work queue?
  faults,    \* API errors, crashes and unready TLS resources so far
  mdbCache, acCache, stsCache   \* the operator's cached view when StaleReads

k8s     == <<mdb, ac, sts, pods>>
locals  == <<snap, inOrder, stsFound, curAC, target, podsRead, podsNotFound>>
caches  == <<mdbCache, acCache, stsCache>>
vars    == <<mdb, ac, sts, pods, pc, snap, inOrder, stsFound, curAC, target,
             podsRead, podsNotFound, queued, faults, mdbCache, acCache, stsCache>>

Sizes    == MinMembers..MaxMembers
Ordinals == 0..(MaxMembers - 1)
Version  == Versions \cup {NoVersion}

Resource ==
  [members : Sizes, version : Versions, tls : BOOLEAN, gen : Nat,
   currentMembers : 0..MaxMembers, currentReplicas : 0..MaxMembers,
   phase : {"", "Pending", "Failed", "Running"},
   lastVersion : Version, lastTLS : BOOLEAN]

AutomationConfig ==
  [version : Nat, members : 0..MaxMembers, mongodb : Version, tls : BOOLEAN]

StatefulSet ==
  [exists : BOOLEAN, replicas : 0..MaxMembers, version : Version,
   tls : BOOLEAN, strategy : {"RollingUpdate", "OnDelete"},
   observed : BOOLEAN, updated : 0..MaxMembers, ready : 0..MaxMembers]

Pod ==
  [up : BOOLEAN, version : Version, tls : BOOLEAN, goal : Nat, ready : BOOLEAN]

Steps == {"idle", "prepare", "readAC", "ensureAC", "agents", "writeSts",
          "stsStatus", "reset", "status", "annotate", "pending", "failed"}

\* A local that is out of scope has one of these values.
NoResource ==
  [members |-> 0, version |-> NoVersion, tls |-> FALSE, gen |-> 0,
   currentMembers |-> 0, currentReplicas |-> 0, phase |-> "",
   lastVersion |-> NoVersion, lastTLS |-> FALSE]
NoAC  == [version |-> 0, members |-> 0, mongodb |-> NoVersion, tls |-> FALSE]
NoSts == [exists |-> FALSE, replicas |-> 0, version |-> NoVersion,
          tls |-> FALSE, strategy |-> "RollingUpdate", observed |-> TRUE,
          updated |-> 0, ready |-> 0]
NoPod == [up |-> FALSE, version |-> NoVersion, tls |-> FALSE, goal |-> 0,
          ready |-> FALSE]

PodLoopType == podsRead \in Nat /\ podsNotFound \in Nat

\* The type invariant of the objects and of the reconciliation's locals.
TypeOK ==
  /\ mdb \in Resource
  /\ ac \in AutomationConfig
  /\ sts \in StatefulSet
  /\ pods \in [Ordinals -> Pod]
  /\ pc \in Steps
  /\ IF pc = "idle" THEN snap = NoResource ELSE snap \in Resource
  /\ inOrder \in BOOLEAN
  /\ stsFound \in BOOLEAN
  /\ curAC \in AutomationConfig
  /\ target \in Nat
  /\ PodLoopType
  /\ queued \in BOOLEAN
  /\ faults \in Nat
  /\ mdbCache \in Resource
  /\ acCache \in AutomationConfig
  /\ stsCache \in StatefulSet

-----------------------------------------------------------------------------
(* What the code computes from the resource it fetched. *)

AutomationConfigMembersThisReconciliation(m) ==
  ReplicasThisReconciliation(m.currentMembers, m.members)

StatefulSetReplicasThisReconciliation(m) ==
  ReplicasThisReconciliation(m.currentReplicas, m.members)

IsChangingVersion(m) == m.lastVersion # NoVersion /\ m.lastVersion # m.version

\* Deliberately wrong: Kubernetes may roll the pods in every case.
Faulty_AlwaysRolling(m) == "RollingUpdate"

GetUpdateStrategyType(m) ==
  IF IsChangingVersion(m) THEN "OnDelete" ELSE "RollingUpdate"

\* The only update a validated resource rejects here: TLS cannot be disabled
\* once it was deployed.
ValidSpec(m) == ~(m.lastVersion # NoVersion /\ m.lastTLS /\ ~m.tls)

\* Deliberately wrong: always pushes the automation config first.
Faulty_AlwaysInOrder(m, stsExists) == TRUE

\* Deliberately wrong: scaling down does not put the automation config first.
Faulty_DownReversed(m, stsExists) ==
  /\ ~(stsExists /\ m.tls)
  /\ m.currentReplicas = m.members \/ m.currentReplicas = 0
  /\ ~IsChangingVersion(m)

\* Automation config first (TRUE) or StatefulSet first (FALSE)?
shouldRunInOrder(m, stsExists) ==
  IF stsExists /\ m.tls THEN FALSE
  ELSE IF IsScalingUp(m.currentReplicas, m.members) THEN FALSE
  ELSE IF IsScalingDown(m.currentReplicas, m.members) THEN TRUE
  ELSE ~IsChangingVersion(m)

AreEqual(a, b) ==
  a.members = b.members /\ a.mongodb = b.mongodb /\ a.tls = b.tls

\* Deliberately wrong: the config version is not bumped.
Faulty_NoBump(prev, m) ==
  [version |-> IF prev.version = 0 THEN 1 ELSE prev.version,
   members |-> AutomationConfigMembersThisReconciliation(m),
   mongodb |-> m.version, tls |-> m.tls]

\* The config for m; its version grows exactly when it differs from prev.
buildAutomationConfig(prev, m) ==
  LET new == [version |-> prev.version,
              members |-> AutomationConfigMembersThisReconciliation(m),
              mongodb |-> m.version, tls |-> m.tls]
  IN  IF AreEqual(prev, new) THEN new
      ELSE [new EXCEPT !.version = prev.version + 1]

\* The StatefulSet after buildStatefulSetModificationFunction(m); a changed
\* spec is a new generation, which the StatefulSet controller has yet to see.
\* The TLS volumes and mounts are added with TLS and never taken away.
buildStatefulSet(s, m) ==
  LET new == [s EXCEPT !.exists = TRUE,
                       !.replicas = StatefulSetReplicasThisReconciliation(m),
                       !.version = m.version,
                       !.tls = s.tls \/ m.tls,
                       !.strategy = GetUpdateStrategyType(m)]
  IN  IF new = s THEN s ELSE [new EXCEPT !.observed = FALSE]

IsReady(s, expectedReplicas) ==
  /\ s.updated = expectedReplicas
  /\ s.ready = expectedReplicas
  /\ s.observed

-----------------------------------------------------------------------------
(* Reconcile *)

\* Reconcile returns: its locals are gone.
Return ==
  /\ pc' = "idle"
  /\ snap' = NoResource /\ inOrder' = TRUE
  /\ stsFound' = FALSE /\ curAC' = NoAC /\ target' = 0
  /\ podsRead' = 0 /\ podsNotFound' = 0

podLoop == <<podsRead, podsNotFound>>

SeenMdb == IF StaleReads THEN mdbCache ELSE mdb
SeenAC  == IF StaleReads THEN acCache ELSE ac
SeenSts == IF StaleReads THEN stsCache ELSE sts

\* A worker takes the resource from the queue, fetches and validates it.
Dequeue ==
  /\ pc = "idle" /\ queued
  /\ queued' = FALSE
  /\ snap' = SeenMdb
  /\ pc' = IF ValidSpec(snap') THEN "prepare" ELSE "failed"
  /\ UNCHANGED <<k8s, inOrder, stsFound, curAC, target, podLoop, faults, caches>>

\* The service, TLS and user resources are in place: deployMongoDBReplicaSet
\* decides which of its two halves goes first.
Prepare ==
  /\ pc = "prepare"
  /\ inOrder' = shouldRunInOrder(snap, SeenSts.exists)
  /\ pc' = IF inOrder' THEN "readAC" ELSE "writeSts"
  /\ UNCHANGED <<k8s, snap, stsFound, curAC, target, podLoop, queued, faults, caches>>

AfterAutomationConfig == IF inOrder THEN "writeSts" ELSE "reset"
AfterStatefulSet      == IF inOrder THEN "reset" ELSE "readAC"

\* deployAutomationConfig fetches the StatefulSet and the current config.
ReadAutomationConfig ==
  /\ pc = "readAC"
  /\ stsFound' = SeenSts.exists
  /\ curAC' = SeenAC
  /\ pc' = "ensureAC"
  /\ UNCHANGED <<k8s, snap, inOrder, target, podLoop, queued, faults, caches>>

\* EnsureSecret reads the secret again and creates it, leaves it alone, or
\* updates it; the API server refuses a create or update that is based on an
\* outdated read.
EnsureSecret ==
  /\ pc = "ensureAC"
  /\ LET desired == buildAutomationConfig(curAC, snap)
         existing == SeenAC
     IN  \/ /\ existing.version # 0 /\ AreEqual(desired, existing)
            /\ target' = existing.version
            /\ pc' = "agents"
            /\ UNCHANGED ac
         \/ /\ existing.version = 0 \/ ~AreEqual(desired, existing)
            /\ existing = ac
            /\ ac' = desired
            /\ target' = desired.version
            /\ pc' = "agents"
         \/ /\ existing.version = 0 \/ ~AreEqual(desired, existing)
            /\ existing # ac
            /\ pc' = "failed"
            /\ UNCHANGED <<ac, target>>
  /\ curAC' = NoAC
  /\ podsRead' = 0 /\ podsNotFound' = 0
  /\ UNCHANGED <<mdb, sts, pods, snap, inOrder, stsFound, queued, faults, caches>>

\* Deliberately wrong: a pod that does not exist is not counted.
Faulty_MissingIgnored == podsNotFound

\* The pods found missing so far, with the one that is read now.
NotFound ==
  IF pods[podsRead].up THEN podsNotFound ELSE podsNotFound + 1

\* agent.AllReachedGoalState reads one pod: one that is there has to report the
\* version.  After the last one, either all pods were found or none was.
AllReachedGoalState(expectedReplicas, version) ==
  LET behind == pods[podsRead].up /\ pods[podsRead].goal # version
      last == podsRead + 1 >= expectedReplicas
  IN  /\ podsNotFound' = NotFound
      /\ \/ /\ ~behind /\ ~last
            /\ podsRead' = podsRead + 1
            /\ UNCHANGED <<pc, stsFound, target>>
         \/ /\ behind \/ last
            /\ pc' = IF ~behind /\ podsNotFound' \in {0, expectedReplicas}
                     THEN AfterAutomationConfig ELSE "pending"
            /\ podsRead' = 0 /\ stsFound' = FALSE /\ target' = 0

\* A StatefulSet that was not found skips the check of the pod annotations
\* (isPreReadinessInitContainerStatefulSet holds of the empty object).
WaitForAgents ==
  /\ pc = "agents"
  /\ \/ /\ ~stsFound
        /\ pc' = AfterAutomationConfig
        /\ target' = 0
        /\ UNCHANGED <<stsFound, podLoop>>
     \/ /\ stsFound
        /\ AllReachedGoalState(StatefulSetReplicasThisReconciliation(snap), target)
  /\ UNCHANGED <<k8s, snap, inOrder, curAC, queued, faults, caches>>

CreateOrUpdateStatefulSet ==
  /\ pc = "writeSts"
  /\ \/ /\ SeenSts = sts
        /\ sts' = buildStatefulSet(sts, snap)
        /\ pc' = "stsStatus"
     \/ /\ SeenSts # sts
        /\ pc' = "failed"
        /\ UNCHANGED sts
  /\ UNCHANGED <<mdb, ac, pods, locals, queued, faults, caches>>

\* deployStatefulSet fetches the StatefulSet again; under OnDelete it does not
\* wait for the pods.
CheckStatefulSet ==
  /\ pc = "stsStatus"
  /\ pc' = IF ~SeenSts.exists THEN "failed"
           ELSE IF \/ IsReady(SeenSts, StatefulSetReplicasThisReconciliation(snap))
                   \/ SeenSts.strategy = "OnDelete"
           THEN AfterStatefulSet ELSE "pending"
  /\ UNCHANGED <<k8s, locals, queued, faults, caches>>

\* Deliberately wrong: leaves the strategy at OnDelete.
Faulty_ResetSkipped ==
  /\ pc = "reset"
  /\ pc' = "status"
  /\ UNCHANGED <<k8s, locals, queued, faults, caches>>

ResetUpdateStrategy ==
  /\ pc = "reset"
  /\ \/ /\ ~IsChangingVersion(snap)
        /\ pc' = "status"
        /\ UNCHANGED sts
     \/ /\ IsChangingVersion(snap) /\ SeenSts = sts
        /\ sts' = [sts EXCEPT !.strategy = "RollingUpdate",
                              !.observed = @ /\ sts.strategy = "RollingUpdate"]
        /\ pc' = "status"
     \/ /\ IsChangingVersion(snap) /\ SeenSts # sts
        /\ pc' = "failed"
        /\ UNCHANGED sts
  /\ UNCHANGED <<mdb, ac, pods, locals, queued, faults, caches>>

\* The status the code writes once both halves are deployed: the sizes of this
\* reconciliation and the phase.
Scaled(m, phase) ==
  [m EXCEPT !.currentMembers = AutomationConfigMembersThisReconciliation(m),
            !.currentReplicas = StatefulSetReplicasThisReconciliation(m),
            !.phase = phase]

\* Both halves are deployed: record the sizes.  While scaling, ask for another
\* reconciliation; otherwise the resource is Running.  A conflict is an error,
\* and the queue runs the reconciliation again.
UpdateStatus ==
  /\ pc = "status"
  /\ \/ /\ snap # mdb
        /\ Return /\ queued' = TRUE
        /\ UNCHANGED mdb
     \/ /\ snap = mdb
        /\ IsStillScaling(snap.currentReplicas, snap.members)
        /\ mdb' = Scaled(snap, "Pending")
        /\ Return /\ queued' = TRUE
     \/ /\ snap = mdb
        /\ ~IsStillScaling(snap.currentReplicas, snap.members)
        /\ mdb' = Scaled(snap, "Running")
        /\ pc' = "annotate"
        /\ UNCHANGED <<locals, queued>>
  /\ UNCHANGED <<ac, sts, pods, faults, caches>>

\* Not ready, or an error: record the phase and ask to be run again.
GiveUp ==
  /\ pc \in {"pending", "failed"}
  /\ mdb' = IF snap # mdb THEN mdb
            ELSE [mdb EXCEPT !.phase = IF pc = "pending" THEN "Pending" ELSE "Failed"]
  /\ Return /\ queued' = TRUE
  /\ UNCHANGED <<ac, sts, pods, faults, caches>>

\* updateLastSuccessfulConfiguration: both annotations in one patch, which
\* carries no resource version.
Annotate ==
  /\ pc = "annotate"
  /\ mdb' = [mdb EXCEPT !.lastVersion = snap.version, !.lastTLS = snap.tls]
  /\ Return
  /\ UNCHANGED <<ac, sts, pods, queued, faults, caches>>

\* An API call fails.
ApiError ==
  /\ "api" \in FaultKinds /\ faults < MaxFaults
  /\ faults' = faults + 1
  /\ pc \in Steps \ {"idle", "annotate", "status", "pending", "failed"}
  /\ pc' = "failed"
  /\ UNCHANGED <<k8s, locals, queued, caches>>

\* The read of the StatefulSet in shouldRunInOrder fails: any error counts as
\* "there is no StatefulSet" and the reconciliation goes on.
LookupError ==
  /\ "lookup" \in FaultKinds /\ faults < MaxFaults
  /\ faults' = faults + 1
  /\ pc = "prepare"
  /\ inOrder' = shouldRunInOrder(snap, FALSE)
  /\ pc' = IF inOrder' THEN "readAC" ELSE "writeSts"
  /\ UNCHANGED <<k8s, snap, stsFound, curAC, target, podLoop, queued, caches>>

\* The TLS secret or config map of the user is missing or incomplete.
TLSConfigNotValid ==
  /\ "tls" \in FaultKinds /\ faults < MaxFaults
  /\ faults' = faults + 1
  /\ pc = "prepare" /\ snap.tls
  /\ pc' = "pending"
  /\ UNCHANGED <<k8s, locals, queued, caches>>

\* The status write fails: the error is returned and the queue retries.
StatusError ==
  /\ "status" \in FaultKinds /\ faults < MaxFaults
  /\ faults' = faults + 1
  /\ pc \in {"status", "pending", "failed"}
  /\ Return /\ queued' = TRUE
  /\ UNCHANGED <<k8s, caches>>

\* The annotation patch fails: logged, nothing else.
AnnotateError ==
  /\ "annotate" \in FaultKinds /\ faults < MaxFaults
  /\ faults' = faults + 1
  /\ pc = "annotate"
  /\ Return
  /\ UNCHANGED <<k8s, queued, caches>>

\* The operator restarts: its caches are listed afresh and every resource is
\* reconciled.
Crash ==
  /\ "crash" \in FaultKinds /\ faults < MaxFaults
  /\ faults' = faults + 1
  /\ Return /\ queued' = TRUE
  /\ IF StaleReads THEN mdbCache' = mdb /\ acCache' = ac /\ stsCache' = sts
                   ELSE UNCHANGED caches
  /\ UNCHANGED k8s

Reconcile ==
  \/ Dequeue \/ Prepare \/ ReadAutomationConfig \/ EnsureSecret \/ WaitForAgents
  \/ CreateOrUpdateStatefulSet \/ CheckStatefulSet \/ ResetUpdateStrategy
  \/ UpdateStatus \/ GiveUp \/ Annotate

Faults ==
  \/ ApiError \/ LookupError \/ TLSConfigNotValid
  \/ StatusError \/ AnnotateError \/ Crash

-----------------------------------------------------------------------------
(* The user and the informers *)

\* The last edit is deployed and the operator's caches have caught up with it.
Settled ==
  /\ pc = "idle" /\ ~queued /\ mdb.phase = "Running"
  /\ SeenMdb = mdb /\ SeenAC = ac /\ SeenSts = sts

\* An edit of one of the kinds the user makes, to m members, version v, TLS t.
Edits(m, v, t) ==
  \/ "up" \in EditKinds      /\ m > mdb.members /\ v = mdb.version /\ t = mdb.tls
  \/ "down" \in EditKinds    /\ m < mdb.members /\ v = mdb.version /\ t = mdb.tls
  \/ "version" \in EditKinds /\ m = mdb.members /\ v # mdb.version /\ t = mdb.tls
  \/ "both" \in EditKinds    /\ m # mdb.members /\ v # mdb.version /\ t = mdb.tls
  \/ "tls" \in EditKinds     /\ m = mdb.members /\ v = mdb.version /\ t = ~mdb.tls

\* The user edits the spec; OnlyOnSpecChange lets the event through.  When
\* reads lag, the event arrives with the cached object (SyncMdb).
EditSpec ==
  /\ mdb.gen < MaxEdits
  /\ InFlightEdits \/ Settled
  /\ \E m \in Sizes, v \in Versions, t \in BOOLEAN :
       /\ Edits(m, v, t)
       /\ mdb' = [mdb EXCEPT !.members = m, !.version = v, !.tls = t,
                             !.gen = mdb.gen + 1]
  /\ queued' = (queued \/ ~StaleReads)
  /\ UNCHANGED <<ac, sts, pods, pc, locals, faults, caches>>

SyncMdb ==
  /\ StaleReads /\ mdbCache # mdb
  /\ mdbCache' = mdb
  /\ queued' = (queued \/ mdbCache.gen # mdb.gen)
  /\ UNCHANGED <<k8s, pc, locals, faults, acCache, stsCache>>

SyncAC ==
  /\ StaleReads /\ acCache # ac
  /\ acCache' = ac
  /\ UNCHANGED <<k8s, pc, locals, queued, faults, mdbCache, stsCache>>

SyncSts ==
  /\ StaleReads /\ stsCache # sts
  /\ stsCache' = sts
  /\ UNCHANGED <<k8s, pc, locals, queued, faults, mdbCache, acCache>>

-----------------------------------------------------------------------------
(* The StatefulSet controller: pods in ordinal order, each ready before the *)
(* next step (the default OrderedReady policy).                             *)

Expected == {i \in Ordinals : i < sts.replicas}
AllReady == \A i \in Expected : pods[i].up /\ pods[i].ready
FromTemplate(p) == p.version = sts.version /\ p.tls = sts.tls

podEnv == <<mdb, ac, sts, pc, locals, queued, faults, caches>>

CreatePod(i) ==
  /\ i \in Expected /\ ~pods[i].up
  /\ \A j \in Expected : j < i => pods[j].up /\ pods[j].ready
  /\ pods' = [pods EXCEPT ![i] = [NoPod EXCEPT !.up = TRUE,
                                               !.version = sts.version,
                                               !.tls = sts.tls]]
  /\ UNCHANGED podEnv

RemovePod(i) ==
  /\ i \notin Expected /\ pods[i].up
  /\ \A j \in Ordinals : j > i => ~pods[j].up
  /\ AllReady
  /\ pods' = [pods EXCEPT ![i] = NoPod]
  /\ UNCHANGED podEnv

\* The native rolling update: from the highest ordinal down.
RollPod(i) ==
  /\ sts.strategy = "RollingUpdate"
  /\ i \in Expected /\ AllReady
  /\ ~FromTemplate(pods[i])
  /\ \A j \in Expected : j > i => FromTemplate(pods[j])
  /\ pods' = [pods EXCEPT ![i] = NoPod]
  /\ UNCHANGED podEnv

\* The controller observes the spec and counts pods.
SyncStatefulSetStatus ==
  LET new == [sts EXCEPT
                !.observed = TRUE,
                !.updated = Cardinality({i \in Expected : pods[i].up /\ FromTemplate(pods[i])}),
                !.ready = Cardinality({i \in Ordinals : pods[i].up /\ pods[i].ready})]
  IN  /\ sts.exists /\ new # sts
      /\ sts' = new
      /\ UNCHANGED <<mdb, ac, pods, pc, locals, queued, faults, caches>>

-----------------------------------------------------------------------------
(* The agents, their readiness probe and the version-upgrade hook *)

IsMember(i) == i < ac.members
AllMembersUp == \A i \in Ordinals : IsMember(i) => pods[i].up

\* An agent whose process is not in the config has nothing to do; another one
\* needs a mongod of the configured version, the certificates, and the other
\* members (its plan waits in WaitAllRsMembersUp or WaitRsInit until then).
CanReachGoal(i) ==
  \/ ~IsMember(i)
  \/ /\ pods[i].version = ac.mongodb
     /\ ac.tls => pods[i].tls
     /\ AllMembersUp

\* The probe finds the agent in goal state and writes the pod annotation.
ReachGoal(i) ==
  /\ pods[i].up /\ CanReachGoal(i)
  /\ pods[i].goal # ac.version \/ ~pods[i].ready
  /\ pods' = [pods EXCEPT ![i].goal = ac.version, ![i].ready = TRUE]
  /\ UNCHANGED podEnv

WaitsForMembers(i) == IsMember(i) /\ ~AllMembersUp

\* The probe finds the agent waiting for members that are not up and lets the
\* StatefulSet controller go on; the annotation stays behind.
ReadyWhenDeadlocked(i) ==
  /\ pods[i].up /\ ~pods[i].ready /\ WaitsForMembers(i)
  /\ pods' = [pods EXCEPT ![i].ready = TRUE]
  /\ UNCHANGED podEnv

\* The probe finds the agent working on a newer config.
LoseReadiness(i) ==
  /\ pods[i].up /\ pods[i].ready /\ pods[i].goal # ac.version
  /\ ~WaitsForMembers(i)
  /\ pods' = [pods EXCEPT ![i].ready = FALSE]
  /\ UNCHANGED podEnv

\* The agent stops a mongod of the wrong version and the hook deletes the pod;
\* the agents take one member down at a time.
HookDeletesPod(i) ==
  /\ pods[i].up /\ IsMember(i) /\ pods[i].version # ac.mongodb
  /\ \A j \in Ordinals : IsMember(j) /\ j # i =>
       /\ pods[j].up
       /\ pods[j].version = ac.mongodb => pods[j].goal = ac.version
  /\ pods' = [pods EXCEPT ![i] = NoPod]
  /\ UNCHANGED podEnv

-----------------------------------------------------------------------------
Init ==
  /\ \E m \in Sizes, v \in InitVersions, t \in InitTLS :
       mdb = [members |-> m, version |-> v, tls |-> t, gen |-> 0,
              currentMembers |-> 0, currentReplicas |-> 0, phase |-> "",
              lastVersion |-> NoVersion, lastTLS |-> FALSE]
  /\ ac = NoAC /\ sts = NoSts /\ pods = [i \in Ordinals |-> NoPod]
  /\ pc = "idle" /\ queued = TRUE /\ faults = 0
  /\ snap = NoResource /\ inOrder = TRUE /\ stsFound = FALSE /\ curAC = NoAC /\ target = 0
  /\ podsRead = 0 /\ podsNotFound = 0
  /\ mdbCache = mdb /\ acCache = ac /\ stsCache = sts

StatefulSetController ==
  \/ SyncStatefulSetStatus
  \/ \E i \in Ordinals : CreatePod(i) \/ RemovePod(i) \/ RollPod(i)

Agents ==
  \E i \in Ordinals :
    ReachGoal(i) \/ ReadyWhenDeadlocked(i) \/ LoseReadiness(i) \/ HookDeletesPod(i)

Informers == SyncMdb \/ SyncAC \/ SyncSts

Next == Reconcile \/ Faults \/ EditSpec \/ Informers \/ StatefulSetController \/ Agents

\* The work queue, the informers, the StatefulSet controller, the kubelet's
\* probes and the agents all keep running; faults and edits need not happen.
Fairness ==
  /\ WF_vars(Reconcile)
  /\ WF_vars(SyncMdb) /\ WF_vars(SyncAC) /\ WF_vars(SyncSts)
  /\ WF_vars(SyncStatefulSetStatus)
  /\ \A i \in Ordinals :
       /\ WF_vars(CreatePod(i)) /\ WF_vars(RemovePod(i)) /\ WF_vars(RollPod(i))
       /\ WF_vars(ReachGoal(i)) /\ WF_vars(ReadyWhenDeadlocked(i))
       /\ WF_vars(HookDeletesPod(i))

Spec == Init /\ [][Next]_vars
FairSpec == Spec /\ Fairness

-----------------------------------------------------------------------------
(* Properties *)

\* The config and the StatefulSet are the ones the spec asks for.
Matches ==
  /\ ac.members = mdb.members /\ ac.mongodb = mdb.version /\ ac.tls = mdb.tls
  /\ sts.replicas = mdb.members /\ sts.version = mdb.version /\ (mdb.tls => sts.tls)
  /\ sts.strategy = "RollingUpdate"

AtGoal(n) == \A i \in Ordinals : i < n => pods[i].up /\ pods[i].goal = ac.version

Membership == INSTANCE MembershipChange
  WITH Smallest <- MinMembers, Largest <- MaxMembers,
       cfg <- ac.members, reps <- sts.replicas

\* Once the StatefulSet exists, the automation config names all of its replicas
\* or all but the last: never a member without a pod behind it.
MembersInStep == Membership!InStep

\* The sizes of the automation config and of the StatefulSet change as the
\* protocol for changing them allows, in every order of reads, writes and errors.
RefinesMembershipChange == Membership!MSpec

\* When the operator is done (it knows the latest spec, nothing is queued or
\* running) the resource is Running and the config and StatefulSet are what the
\* spec asks for: no edit, conflict, error or restart leaves an old deployment
\* and no pending work.
QuietMeansDeployed ==
  pc = "idle" /\ ~queued /\ SeenMdb.gen = mdb.gen => mdb.phase = "Running" /\ Matches

\* A change of an existing deployment is reported as Running only once every
\* agent has applied the config it resulted in, all at the same time.  The
\* exception is what the code does: it also goes on when it found no pod, each
\* one being missing when its turn came.
GoalBeforeRunning ==
  [][pc = "status" /\ pc' = "annotate" /\ mdb.currentMembers # 0 /\ podsNotFound = 0 =>
       AtGoal(mdb'.members)]_vars

\* The StatefulSet loses a replica only after the automation config has lost
\* the member and the remaining agents have all applied that config.
RemovedFromConfigFirst ==
  [][sts'.replicas < sts.replicas =>
       /\ ac.members <= sts'.replicas
       /\ \A i \in Ordinals : i < sts'.replicas /\ pods[i].up =>
            pods[i].goal = ac.version]_vars

\* A config the running agents cannot apply with the pod template they will be
\* restarted from is never published.
TemplateBeforeConfig ==
  [][ac' # ac /\ sts.exists =>
       /\ sts.version = ac'.mongodb
       /\ ac'.tls => sts.tls]_vars

\* Kubernetes itself never replaces a pod to change its mongod version.
NoNativeUpgrade ==
  [][\A i \in Ordinals :
       pods[i].up /\ ~pods'[i].up /\ i < sts.replicas /\ sts.strategy = "RollingUpdate"
         => pods[i].version = sts.version]_vars

\* A config version stands for one config: whatever changes the config bumps it.
ConfigVersionBumped ==
  [][ac' # ac => ac'.version = ac.version + 1 /\ ~AreEqual(ac, ac')]_vars

\* Once the user stops editing, at a spec that passes validation, the deployment
\* reaches the spec, every agent applies the config, and it stays Running.
Converges ==
  <>[](ValidSpec(mdb) => mdb.phase = "Running" /\ Matches /\ AtGoal(mdb.members))

-----------------------------------------------------------------------------
(* Inductive invariants behind the theorems of ReplicaSetController_proofs.  *)
(* Each one is the property it implies plus what the reconciliation knows    *)
(* at each of its steps.                                                     *)

\* The config a reconciliation builds on is the one in the secret.
ConfigInv ==
  /\ TypeOK
  /\ ac.version = 0 => ac = NoAC
  /\ pc = "ensureAC" => curAC = ac

ConfigMatches(m) ==
  /\ ac.members = AutomationConfigMembersThisReconciliation(m)
  /\ ac.mongodb = m.version /\ ac.tls = m.tls

StatefulSetMatches(m) ==
  /\ sts.replicas = StatefulSetReplicasThisReconciliation(m)
  /\ sts.version = m.version /\ (m.tls => sts.tls)

\* Which half is deployed at this step of the reconciliation.
ConfigDeployed ==
  \/ pc \in {"agents", "reset", "status"}
  \/ inOrder /\ pc \in {"writeSts", "stsStatus"}
StatefulSetDeployed ==
  \/ pc \in {"stsStatus", "reset", "status"}
  \/ ~inOrder /\ pc \in {"readAC", "ensureAC", "agents"}

\* What is deployed is what the fetched resource asks for, half by half; and
\* when a reconciliation ends without asking for another, the resource is the
\* one it fetched.
DeployedInv ==
  /\ ConfigInv
  /\ mdb.currentReplicas = mdb.currentMembers
  /\ snap.currentReplicas = snap.currentMembers
  /\ ConfigDeployed => ConfigMatches(snap)
  /\ StatefulSetDeployed =>
       /\ StatefulSetMatches(snap)
       /\ sts.strategy \in {GetUpdateStrategyType(snap), "RollingUpdate"}
  /\ pc = "status" => sts.strategy = "RollingUpdate"
  /\ pc = "annotate" \/ pc = "idle" => queued \/ (mdb.phase = "Running" /\ Matches)

\* The config a resource asks for at its recorded size.
AsksFor(m) ==
  [members |-> AutomationConfigMembersThisReconciliation(m),
   mongodb |-> m.version, tls |-> m.tls]

\* How far the config c is from the one m ends with.
Remaining(m, c) ==
  IF c.mongodb = m.version /\ c.tls = m.tls
  THEN IF c.members <= m.members THEN m.members - c.members
                                 ELSE c.members - m.members
  ELSE MaxMembers

\* On the way to what m asks for, c is b or comes after it.
Follows(m, b, c) == AreEqual(b, c) \/ Remaining(m, c) < Remaining(m, b)

\* The cached config, the one in the secret, and those the fetched, the cached
\* and the current resource ask for lie in this order on the way of an edit.
OrderInv ==
  /\ Follows(mdb, acCache, ac)
  /\ Follows(mdb, ac, AsksFor(mdbCache))
  /\ Follows(mdb, AsksFor(mdbCache), AsksFor(mdb))
  /\ pc # "idle" => /\ Follows(mdb, ac, AsksFor(snap))
                    /\ Follows(mdb, AsksFor(snap), AsksFor(mdbCache))

\* DeployedInv for reads that lag and one edit at a time.
LagInv ==
  /\ TypeOK /\ OrderInv
  /\ mdb.currentReplicas = mdb.currentMembers
  /\ mdbCache.currentReplicas = mdbCache.currentMembers
  /\ snap.currentReplicas = snap.currentMembers
  /\ ConfigDeployed => ConfigMatches(snap)
  /\ StatefulSetDeployed =>
       /\ StatefulSetMatches(snap)
       /\ sts.strategy \in {GetUpdateStrategyType(snap), "RollingUpdate"}
  /\ pc = "status" => sts.strategy = "RollingUpdate"
  /\ pc = "annotate" \/ pc = "idle" =>
       \/ queued \/ mdbCache.gen # mdb.gen
       \/ mdb.phase = "Running" /\ Matches /\ mdb.currentMembers = mdb.members

\* Edits that a single reconciliation can deploy: no change of size, or only
\* between neighbouring sizes.
OneStepEdits ==
  \/ EditKinds \cap {"up", "down", "both"} = {}
  \/ MaxMembers <= MinMembers + 1

\* An edit changes the config once: it is already the last one, or it is still
\* the one before the edit, and then every copy of it is up to date.
BumpInv ==
  /\ LagInv
  /\ ac.version = 0 => ac = NoAC
  /\ AsksFor(mdb).members = mdb.members
  /\ Remaining(mdb, AsksFor(mdbCache)) = 0 \/ AreEqual(ac, AsksFor(mdbCache))
  /\ pc # "idle" =>
       Remaining(mdb, AsksFor(snap)) = 0 \/ AreEqual(ac, AsksFor(snap))
  /\ \/ Remaining(mdb, ac) = 0
     \/ acCache = ac /\ (pc = "ensureAC" => curAC = ac)

\* The edits for which the sizes are safe: one at a time, and either never a
\* smaller size or never TLS.
SafeEdits ==
  /\ ~InFlightEdits
  /\ \/ EditKinds \cap {"down", "both"} = {}
     \/ InitTLS \subseteq {FALSE} /\ "tls" \notin EditKinds

\* The same, read back at once.
OneEditAtATime == SafeEdits /\ ~StaleReads

NextSize == AutomationConfigMembersThisReconciliation(mdb)

\* What the resource records, and what a reconciliation knows of it.
StatusInv ==
  /\ mdb.currentReplicas = mdb.currentMembers
  /\ mdb.currentMembers \in Sizes \cup {0}
  /\ mdb.lastVersion # NoVersion => mdb.currentMembers # 0
  /\ IF EditKinds \cap {"down", "both"} = {}
     THEN mdb.currentMembers <= mdb.members ELSE ~mdb.tls
  /\ pc \notin {"idle", "annotate"} => snap = mdb
  /\ pc = "annotate" \/ (pc = "idle" /\ ~queued) => mdb.currentMembers = mdb.members

\* The sizes move from the recorded size to the next one: first the side that
\* keeps every member on a replica, then the other.
SizesInv ==
  /\ TypeOK /\ StatusInv
  /\ sts.exists <=> sts.replicas # 0
  /\ ac.members \in {mdb.currentMembers, NextSize}
  /\ sts.replicas \in {mdb.currentMembers, NextSize}
  /\ IF mdb.currentMembers = 0 THEN sts.replicas <= ac.members
                               ELSE ac.members <= sts.replicas
  /\ ConfigDeployed => ac.members = NextSize
  /\ StatefulSetDeployed => sts.replicas = NextSize
  /\ pc \in {"readAC", "ensureAC", "agents", "writeSts", "stsStatus"} =>
       IF inOrder THEN mdb.currentMembers = 0 \/ NextSize <= mdb.currentMembers
       ELSE sts.exists /\ (mdb.currentMembers = 0 \/ mdb.currentMembers <= NextSize)

HasCurrentSizes(m) ==
  m.members = mdb.members /\ m.currentMembers = mdb.currentMembers

\* A copy of the resource with the current sizes, or one whose next size has
\* been deployed and recorded since.
Fetched(m) ==
  /\ m.currentMembers \in Sizes \cup {0}
  /\ m.lastVersion # NoVersion => m.currentMembers # 0
  /\ IF EditKinds \cap {"down", "both"} = {}
     THEN m.currentMembers <= m.members ELSE ~m.tls
  /\ \/ HasCurrentSizes(m)
     \/ /\ AutomationConfigMembersThisReconciliation(m) = mdb.currentMembers
        /\ ac.members = mdb.currentMembers /\ sts.replicas = mdb.currentMembers

\* SizesInv when reads lag: a reconciliation moves the sizes only if it fetched
\* the current ones.
LagSizesInv ==
  /\ LagInv
  /\ Fetched(mdb) /\ Fetched(mdbCache)
  /\ pc # "idle" =>
       Fetched(snap) /\ (HasCurrentSizes(snap) => HasCurrentSizes(mdbCache))
  /\ pc = "annotate" => mdb.currentMembers # 0
  /\ sts.exists <=> sts.replicas # 0
  /\ stsCache.exists => sts.exists
  /\ ac.members \in {mdb.currentMembers, NextSize}
  /\ sts.replicas \in {mdb.currentMembers, NextSize}
  /\ IF mdb.currentMembers = 0 THEN sts.replicas <= ac.members
                               ELSE ac.members <= sts.replicas
  /\ /\ pc \in {"readAC", "ensureAC", "agents", "writeSts", "stsStatus"}
     /\ HasCurrentSizes(snap)
     => IF inOrder THEN mdb.currentMembers = 0 \/ NextSize <= mdb.currentMembers
        ELSE sts.exists /\ (mdb.currentMembers = 0 \/ mdb.currentMembers <= NextSize)
=============================================================================
