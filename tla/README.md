# Formal model of the MongoDB Community Kubernetes Operator

TLA+ modules that model the operator's reconcile loop and the parts around it,
TLC configurations that check them on small instances, and theorems that TLAPS
checks for every value of the constants.

Paths such as `controllers/watch/watch.go` are relative to `src/`. The
correspondence of every definition to its lines is in `PROJECT.json`, "map".

## 1. The system and its parts

The operator turns a `MongoDBCommunity` resource into a running replica set. It
writes two things: the *automation config*, a secret that tells the MongoDB agent
in every pod what the replica set should look like, and the *StatefulSet* that
provides the pods. The two are separate objects, written by separate calls, read
by different parties, and they have to change in an order that depends on what
the user asks for.

| Part | State | Operations | Talks to |
| --- | --- | --- | --- |
| Reconcile loop (`controllers/replica_set_controller.go`) | none between runs, apart from the resource's status and annotations | one reconciliation: read, validate, deploy the two halves, reset the update strategy, write status and annotations | API server, work queue |
| Scaling (`pkg/util/scale`) | sizes recorded in the status | size of this reconciliation, "still scaling?" | reconcile loop |
| Agent readiness (`pkg/agent`) | pod annotations | have all agents reached the config version? | pods |
| Automation config (`pkg/automationconfig`) | the config secret | build from spec and previous config, compare, bump, write | agents |
| StatefulSet construction (`controllers/construct`, `pkg/kube/statefulset`) | the StatefulSet | build, write, readiness, update strategy | StatefulSet controller |
| Validation (`controllers/validation`) | none | is this spec, after the last deployed one, acceptable? | reconcile loop |
| SCRAM users (`controllers/mongodb_users.go`, `pkg/authentication`) | credentials, agent and connection-string secrets | derive, store, publish | secrets, config |
| TLS (`controllers/mongodb_tls.go`) | operator-managed certificate secret | validate, combine, name the file in the config | secrets, pods |
| Secret watcher (`controllers/watch`) | in-memory map, no lock | register, turn events into reconciliations | informer, work queue |
| Readiness probe (`cmd/readiness`) | health file of the agent | is the pod ready? annotates the pod | kubelet |
| Version-upgrade hook (`cmd/versionhook`) | health file of the agent | waits for the agent, deletes its own pod | API server |
| State machine (`pkg/util/state`) | persisted state name | run the current state, pick a transition | used by its tests only |
| Merging (`pkg/util/merge`) | none | merge user overrides into the StatefulSet | construction |
| Entry point, builders, client wrappers | none | layout and plumbing | |

### What is hard about it

* Between any two API calls the user edits, pods come and go, agents apply
  configs, caches move and the operator may die.
* The order of the two writes is decided by TLS, scaling and version together.
* Progress is remembered only in the status and in two annotations, which are
  written last; a part of that write may fail with nothing but a log line.
* The operator waits for agents, agents wait for each other, the StatefulSet
  controller waits for readiness, and the hook waits for the agent.
* Reads come from caches; writes go to the API server and may conflict.
* The watcher forgets everything in a restart and is shared by three workers.

`PROJECT.json`, "hazards", lists these at the lines where they bite, with the
properties that cover them.

## 2. The modules

| Module | Models | Extends |
| --- | --- | --- |
| `Scale` | `pkg/util/scale/scale.go` as operators | |
| `MembershipChange` | the promise: how the two sizes may change (abstract specification) | |
| `ReplicaSetController` | the reconcile loop with the objects it drives | `Scale`; instantiates `MembershipChange` |
| `MCReplicaSetController` | symmetry for TLC | `ReplicaSetController` |
| `ReplicaSetController_proofs` | types, config versions, nothing left behind, the sizes and the refinement of `MembershipChange` | `ReplicaSetController` |
| `Rollout_proofs` | the order in which templates, configs and pods change | `ReplicaSetController_proofs` |
| `AutomationConfigBuilder` | what a config contains: votes, arbiters, FCV, horizons | `Scale` |
| `AutomationConfigBuilder_proofs` | types, FCV, votes | `AutomationConfigBuilder` |
| `ScramUsers` | password secrets to published users, with the watcher | |
| `ScramUsers_proofs` | all its safety properties | `ScramUsers` |
| `TLSRotation` | certificate rotation of resources sharing a secret, with the watcher | |
| `TLSRotation_proofs` | types, rotation for two resources | `TLSRotation` |
| `AgentPod` | one pod: health file, readiness probe, version hook | |
| `AgentPod_proofs` | types, annotation, readiness | `AgentPod` |
| `Merge` | `pkg/util/merge` as operators, and the shape of what they merge | |
| `Merge_proofs` | lemmas on every merge function | `Merge` |
| `StatefulSetBuilder` | the StatefulSet over a history of edits | `Merge` |
| `MCStatefulSetBuilder` | six overrides for TLC | `StatefulSetBuilder` |
| `StatefulSetBuilder_proofs` | all its properties | `StatefulSetBuilder`, `Merge_proofs` |

Operators marked "Deliberately wrong" or "The bug ..." are wrong variants of the
definition they precede. No specification uses them; replacing the definition by
one must make the property that `PROJECT.json`, "mutants", pairs it with fail.

### ReplicaSetController

State: `mdb` (spec, status and annotations of the resource), `ac` (automation
config secret), `sts` (StatefulSet), `pods`, the position `pc` of the
reconciliation with its locals, the work queue (`queued`) and, when
`StaleReads`, the informer caches of the first three.

| Step | Action | Code |
| --- | --- | --- |
| fetch, validate | `Dequeue` | `Reconcile`, `validateSpec` |
| service, TLS, users; choose the order | `Prepare` | `Reconcile`, `shouldRunInOrder` |
| read config | `ReadAutomationConfig` | `buildAutomationConfig` |
| write config | `EnsureSecret` | `EnsureSecret` |
| wait for agents | `WaitForAgents` | `deployAutomationConfig`, `AllReachedGoalState` |
| write StatefulSet | `CreateOrUpdateStatefulSet` | `createOrUpdateStatefulSet` |
| check it | `CheckStatefulSet` | `deployStatefulSet` |
| reset strategy | `ResetUpdateStrategy` | `ResetUpdateStrategy` |
| record | `UpdateStatus`, `GiveUp`, `Annotate` | `status.Update`, `updateLastSuccessfulConfiguration` |

Faults: an API error at any call, an error of the lookup inside
`shouldRunInOrder` (which the code takes for absence), missing TLS resources, a
failed status write, a failed annotation patch, a restart. The StatefulSet
controller (ordered creation and removal, RollingUpdate and OnDelete), the agents
and the hook are the environment, modelled from what the operator relies on.

Abstractions: a pod template is version and TLS volumes; a config is size,
version and TLS flag under a config version; a `resourceVersion` is the object's
content. A resource is never handed to two workers, as the work queue guarantees.
`WaitForAgents` reads one pod per step, as `AllReachedGoalState` does, so pods are
replaced between the reads. The TLS volumes of a template are never taken away
again, even if the StatefulSet outlives a resource that had them.

### AutomationConfigBuilder

State: the spec, the recorded size, the last config, the outcome of the last
reconciliation and the versions some member may still be running. `Build` is
validation plus `Builder.Build`, with its error paths: arbiters rejected, an FCV
that cannot be compared, an index past the end of the horizons. `Record` is the
status write, which conflicts if the spec was edited since it was read. The user
edits size and arbiters, alone or together, version and FCV, at any time. An FCV is
never set above a version in use.

### ScramUsers

State: password secrets and the informer's view of them, credentials secrets,
agent secrets, published config, connection strings, the watcher's registrations
and the position of the reconciliation. It is split at its API calls, one user at
a time, because the password is read three times (for the watch, the credentials
and the connection string), and the stored credentials twice: to be compared with
the password (`CompareCredentials`), and to be used (`ReuseCredentials`). All these
reads may differ. The users edit and delete passwords and damage credentials.

### TLSRotation

State per resource: operator-managed secret, file name in the config, mounted
file, the file mongod runs with, and the position of its reconciliation. Reading
certificate and key are two steps, as in `getCertAndKey`; `Watch` reads the map
in one step and writes it in another, because it has no lock and three workers
share it. The deployments already run with TLS, so the StatefulSet goes first.

### AgentPod

State: the automation config secret and the pod template, the pod with its
annotation and readiness, the agent's state in memory, the health file as last
dumped, the mongod container, the hook's polls and the locals of the probe. The
history variable `alone` says for the file, and for the copy the probe works on,
whether other members were down when it was dumped.

| Process | Actions | Code |
| --- | --- | --- |
| readiness probe | `ReadHealthFile`, `ReadAutomationConfigVersionFromSecret`, `PatchPodAnnotation`, `ProbeCallFails` | `cmd/readiness`, `pkg/readiness` |
| version hook | `waitForAgentHealthStatus`, `deletePod`, `deletePodFails` | `cmd/versionhook` |
| agent | `AgentLoads`, `AgentStopsMongod`, `AgentReachesGoal`, `AgentDumps` | external |
| operator, Kubernetes, other members | `ChangeTemplate`, `PublishConfig`, `CreatePod`, `LosePod`, `OthersDown`, `OthersUp` | external, or section ReplicaSetController |

The decision on a health file (`isPodReady` and what it calls) is translated with
all its cases; a health file is reduced to the flags these look at. Whether a step
has been running for 15 seconds is left to the clock, hence nondeterministic. The
agent dumps its file at moments of its own, so the file the probe and the hook see
may be old.

This module justifies what `ReplicaSetController` assumes of the pods: an
annotation is a config the agent has applied, and a pod whose agent waits for
other members is ready. `ChangeTemplate` and `PublishConfig` in turn follow the
order `TemplateBeforeConfig` of the controller.

### Merge and StatefulSetBuilder

`Merge` has one operator per merge function. A list that the code merges by a key
and sorts is a function from the key; a list whose order the code keeps is a
sequence; a struct is a function from the fields that are set, overridden field by
field. Topology spread constraints are collected from a Go map without
sorting, so their order is a nondeterministic choice.

`StatefulSetBuilder` applies the operator's modifications, then the override, to
the StatefulSet that exists, and writes it if the API server accepts it: the
immutable fields are as they were, and there are no parameters of a rolling update
next to the strategy OnDelete. At the end of a reconciliation the strategy is reset and,
in another step, the version recorded; edits come in between. The state is the resource, the operator's release, the
written set, and for which resource it was written. The user edits version,
override, TLS, CA and scale; the operator is upgraded; the set is deleted. The
initial set may be one of a release without the readiness probe container.
Container, volume and variable names are those of the code; values are tokens.

The predicates `ContainerTyped`, `TemplateTyped` and `SpecTyped` give the shapes the
Go types guarantee (every struct has all its fields, every list is a list). They are
the assumption on the overrides, and what the proofs carry through the merges.

## 3. What the runs check

Every number is the complete state space of the run.

| Run | Instance | States | Shows |
| --- | --- | --- | --- |
| `Scaling` | 1..3 members, 2 versions, 2 edits, 1 fault of five kinds | 850,038 | the safety properties and both inductive invariants; a jump of two is two single steps |
| `LaggingCache` | 1..2 members, 2 versions, 2 edits, caches lag | 1,155,258 | outdated reads are harmless to sizes, order and upgrades |
| `Convergence` | 1..3 members, with and without TLS, 1 edit, 1 fault | 318,895 | every edit converges; order of template and config; liveness |
| `AutomationConfigBuilder` | 1..8 members, 3 releases and an unparsable version, 2 edits | 440,419 | data-bearing voters are kept on the way to a new size; FCV supported by all that runs |
| `ScramUsers` | 2 users, 2 passwords, 2 edits, 1 fault | 509,300 | no password change of a watched secret is lost; generated secrets are stable; liveness |
| `TLSRotation` | 2 resources, 2 certificates, 1 edit, 1 fault | 290,426 | torn reads are repaired; registered deployments serve the new certificate; liveness |
| `AgentPod` | 3 configs, 2 versions, 1 fault | 443,809 | no annotation ahead of the agent; the pod settles at the last config and version; liveness |
| `StatefulSetBuilder` | 6 overrides, 2 versions, 2 releases, 2 scales, 2 CAs, 4 edits | 181,603 | no edit's leftovers win over the current resource; an idle operator writes the same set; which writes are rejected |
| `EditDuringCreation`, `HorizonPanic`, `PasswordAfterRestart`, `RotationDeadlock` | smallest that shows it | | section 5 |

The properties, by hazard:

* **Interleaving of the two writes.** `RefinesMembershipChange` (the sizes follow
  the protocol of `MembershipChange`), `MembersInStep`, `RemovedFromConfigFirst`.
* **Order of template and config.** `TemplateBeforeConfig`, `NoNativeUpgrade`.
* **Faults, conflicts and restarts.** `QuietMeansDeployed`: an operator with
  nothing left to do has deployed exactly the spec.
* **Reports put together from several reads.** `GoalBeforeRunning`,
  `ConfigVersionBumped`.
* **Waiting on each other.** `Converges`, `EventuallyFollow`, `RegisteredServe`,
  `Settles`.
* **Repeated reads.** `WatchedPasswordsFollow`, `ConnectionStringsFollow`,
  `RegisteredAreRotated`.
* **Partial failure.** `PublishedAreStored`, `CheckedKeysPublished`,
  `AgentSecretsStable`.
* **Long sequences of legal edits.** `DataBearingKept`, `FCVSupported`,
  `HistoryIndependent`, `RequiredParts`, `UpdatesAccepted`.
* **Stale files and late answers.** `AnnotationAchieved`, `ReadyAtGoalOrWaiting`.
* **A hook that times out, decides too early or fails.** `Settles`.
* **Repeating what was done.** `StableWithoutEdits`.

### Why the bounds are enough

Two sizes give one scaling step in each direction, three a jump of two, which the
code performs one at a time. Two edits make the second start from what the first
left behind, and versions are only compared for equality (hence the symmetry set, and in `Convergence`, where liveness rules symmetry out, one initial version: `InitVersions`). One fault can hit any step; recovery ends in a
state that the next fault could have started from. Eight members are the first
size beyond the limit of seven votes, and two edits raise them while arbiters are
changed, or upgrade while an upgrade is rolled out; with three releases one can be skipped. Two users are the first number at which a
loop can stop early, and two resources the first at which registrations collide
(with three, `RegisteredAreRotated` no longer holds: section 5). Three configs let
a probe hold a file of the first, compare it with the second and patch after the
third; a poll more than the hook's limit covers both of its exits. Four edits set
an override, replace it, remove it and change something else in between; the six
overrides between them touch every part of the set that the merge treats
differently. For most safety properties the theorems of section 4 remove the
bounds altogether. `TLSRotation` was also explored with two edits: 4,791,468 states, no error.

### Fairness

All fairness is weak, on actions that stay enabled until they are taken: the work
queue runs what is queued, informers deliver, the StatefulSet controller creates,
removes and rolls pods, the kubelet refreshes volumes, agents apply what they
can. In `AgentPod` the kubelet keeps running the probe, the container its hook, the
agent keeps acting and dumping, other members come back, and the operator
publishes the config for which it has changed the template. Nothing obliges the
user to edit, faults to happen, or a probe to fail. Each `Reconcile` is one fair
action, since a reconciliation that has started always has a next step.

Deadlock is checked only in `StatefulSetBuilder`, where the operator can always
reconcile again. Elsewhere it is not: with edits and faults used up, a deployment
that has converged has nothing left to do.

## 4. What is proved

TLAPS checks these theorems for every value of the constants: any sizes,
versions, users, overrides, numbers of configs, edits and faults.

| Theorem | Says | Hypotheses |
| --- | --- | --- |
| `ReplicaSetController_proofs!TypeCorrect` | `Spec => []TypeOK` | none beyond the constants' assumptions |
| `VersionBumped` | `Spec => ConfigVersionBumped` | `~StaleReads`, or `~InFlightEdits` and `OneStepEdits` |
| `NothingLeftBehind` | `Spec => []QuietMeansDeployed` | `~StaleReads` or `~InFlightEdits` |
| `DeployedAlways`, `LagAlways` | `Spec => []DeployedInv`, `Spec => []LagInv` | `~StaleReads`; `StaleReads` and `~InFlightEdits` |
| `InStepAlways`, `Refinement` | `Spec => []MembersInStep`, `Spec => RefinesMembershipChange` | `SafeEdits` |
| `SizesAlways` | `Spec => []SizesInv` | `OneEditAtATime` |
| `TemplateFirst` | `Spec => TemplateBeforeConfig` | `TemplateFollows` |
| `ConfigFirst` | `Spec => RemovedFromConfigFirst` | `OneEditAtATime`, `RolloutFollows` |
| `RunningAtGoal` | `Spec => GoalBeforeRunning` | `RolloutFollows` |
| `HookUpgrades` | `Spec => NoNativeUpgrade` | `RolloutFollows`; no version edits, or no scaling down |
| `AutomationConfigBuilder_proofs!TypeCorrect`, `FCVAlwaysSupported` | `[]TypeOK`, `[]FCVSupported` | none |
| `DataBearingAlways` | `Spec => DataBearingKept` | none |
| `FirstEightVote` | `Spec => []FirstVote`: of any number of members, exactly the first eight vote | none |
| `ScramUsers_proofs!TypeCorrect`, `WatchedFollow`, `ConnectionsFollow`, `PublishedStored` | `[]TypeOK`, `[]WatchedPasswordsFollow`, `[]ConnectionStringsFollow`, `[]PublishedAreStored` | none |
| `OnlyCheckedPublished` | `Spec => []CheckedKeysPublished` | none |
| `AgentSecretsKept` | `Spec => AgentSecretsStable` | none |
| `TLSRotation_proofs!TypeCorrect` | `Spec => []TypeOK` | none |
| `RegisteredRotated` | `Spec => []RegisteredAreRotated` | at most two resources on the secret |
| `AgentPod_proofs!TypeCorrect`, `AnnotationBacked`, `ReadyJustified` | `[]TypeOK`, `[]AnnotationAchieved`, `ReadyAtGoalOrWaiting` | none |
| `RequiredAlways`, `UpdatesAlwaysAccepted` | `Spec => []RequiredParts`, `Spec => []UpdatesAccepted` | overrides have the shape of a StatefulSet spec (an assumption of the module) |
| `HistoryIndependentAlways` | `Spec => []HistoryIndependent` | no override gives a variable both a value and a source |
| `StatefulSetBuilder_proofs!TypeCorrect`, `IdleStable` | `Spec => []TypeOK`, `Spec => StableWithoutEdits` | the same, and `None` is not a StatefulSet spec |

`~StaleReads` says that a read returns the current object. `~InFlightEdits` says
that the user waits for an edit to be deployed before making the next. Either one
allows every fault and every interleaving. `SafeEdits` is `~InFlightEdits`, and
either no scaling down or no TLS; `OneEditAtATime` is `SafeEdits` and `~StaleReads`.
`OneStepEdits` says that sizes do not change or lie next to each other, so that
one reconciliation deploys an edit. Section 5 shows that each of these is needed.

`TemplateFollows` says that reads are current, that edits come one at a time and
change one thing, that no annotation patch fails while versions change, and that no
lookup fails while TLS is turned on. `RolloutFollows` adds that no annotation patch
fails while TLS is turned on. TLC has a counterexample to `TemplateBeforeConfig`
without each part of `TemplateFollows` (section 5). The other theorems inherit
these hypotheses from the invariant they share: without the extra part of
`RolloutFollows`, and with lost annotations during version edits, TLC found no
violation of `GoalBeforeRunning` or `RemovedFromConfigFirst` with up to three
members and two edits, so there they may be stronger than needed. Their own
hypotheses are needed: edits "up", "down" and "version" (three of them, without any
fault) break `NoNativeUpgrade`, because a removed pod may outlive a version change and be
taken back by a scale up, and then Kubernetes rolls it.

That a variable has a value or a source, not both, is what the API server demands
of a pod; the operator's CRD does not check it, hence the hypothesis. That
`None` is no spec cannot be evaluated by TLC, where `None` is a model value, so
it is a hypothesis of the theorems and not an assumption of the module.

The argument:

* `ConfigInv` says that the config a reconciliation builds on is the one in the
  secret. Without it a bumped version could be one that is already taken.
* `DeployedInv` relates the objects to `snap`, the resource as this
  reconciliation fetched it, half by half: which half is deployed at which step
  depends on the order. `QuietMeansDeployed` says nothing about these steps, so it
  is not inductive. The last conjunct is the point: a reconciliation ends without
  asking for another only if its status write did not conflict, and then `snap`
  is the resource.
* `LagInv` replaces it when reads lag. Each half may then be compared with an
  outdated copy, and the danger is an outdated config that equals the desired one:
  the write would be left out. `OrderInv` excludes this. Along one edit the config in
  the cache, the one in the secret, and those that the fetched, the cached and the current
  resource ask for lie in this order, each equal to the one before or closer to the
  end of the edit (`Follows`). So if the first equals the third, the second does too.
  An edit while another is deployed can turn the order round, and then the property
  fails. `BumpInv` adds, for `OneStepEdits`, that the config changes once per edit;
  until then all its copies are current.
* `SizesInv` says that both sizes are the recorded or the next one, and which
  side is ahead. The order chosen at the start is what makes the right side move
  first, so the invariant carries it through the steps in between. `MembershipStep`
  then maps each step to an action of `MembershipChange` or a stutter.
  `LagSizesInv` does the same for lagging reads: a copy of the resource has the current
  sizes, or its next size has been deployed and recorded since, and then a
  reconciliation that fetched it writes sizes that are already there.
* `FCVInv` (`AutomationConfigBuilder`) adds that the FCV in the spec is supported
  by the spec's version and by all that runs, because either may be published next.
* `FollowInv` and `ConnectionInv` (`ScramUsers`) say that, while the resource is not
  queued, what a watched user's credentials were computed from is what the cache
  holds: in the config under construction as far as the loop has come, in the
  published one afterwards. The property speaks of idle states only. An event
  between two of the three reads would break the invariant, and is exactly what
  queues the resource. `StoredInv` and `AgentInv` say that store and config under
  construction change together, and `CheckedInv` that what is under construction
  has the checked keys, which the second read establishes whatever the first one saw.
* `FreshInv` (`TLSRotation`) is the same argument for the two halves of a file and
  the two places it is written to. It needs `ListInv`: a list that a `Watch` is
  about to write back names no other resource that has lost its registration. With
  two resources the only other writer is that resource itself; with three this
  fails, and so does the property.
* `AchievedInv` (`AgentPod`) says that each place a config version passes through
  on its way from the agent to the annotation (file, probe, patch, pod) is behind
  the agent; `OrderInv` that the agent applies configs in the order of their
  versions, so that being behind is kept; `FreshInv` that a new pod starts with
  nothing of the old one. `WaitingInv` says that a file in which a step waits for
  other members was dumped while they were down, and the same of the probe's copy.
* `TemplateInv` and `FetchedInv` (`Rollout_proofs`) say that a template behind the
  spec belongs to a version change that is still to be rolled out, and that the
  reconciliation in progress looks at the resource as it is. `RolloutInv` places
  config, template and sizes relative to each other at every step.
* `PodsInv` and `WaitedInv` bring in the pods. A pod that the config and the
  template agree on is taken down by no action: not removed, because it is among the
  expected ones, not rolled, because it is from the template, not deleted by
  the hook, because its version is the config's. So the pods that the loop over the
  agents has found at the goal stay there while it reads the next ones (`WaitedInv`
  counts them with `podsRead`). While a version changes, at most one pod of
  several is down; when the loop ends having found none, the last pod it read is still
  down and the others are up and from the template (`AlmostRolled`). A deployment that is about to
  shrink has at most its last pod down, which the loop does not read, so there the
  exception does not occur. `IsReady` compares two counts; that the counts being equal means
  that all pods are rolled is a cardinality argument. What a reconciliation has waited
  for is therefore still true when it reports Running. `NativeInv` adds that under
  RollingUpdate all pods have the template's version.
* `SizeInv` (`AutomationConfigBuilder`) says that a config has at most one member more
  than are recorded. So the next config on the way up is no smaller than the last one,
  and on the way down it is no smaller than the validated size. What `totalVotes` counts is proved by induction
  over the members (see below).
* `BuiltInv` (`StatefulSetBuilder`) is one invariant for most of its properties: a set
  that is recorded as written for a resource by a release is a build for this resource by
  this release, from *some* well-formed set. What the earlier set was is
  forgotten, which is the point: `BuiltParts` shows that every such build has the
  required parts, `SetWithin` that it agrees with a build from nothing,
  `BuildTwice` that building again changes only the order of the topology
  spread constraints. These rest on one lemma per merge function (types, merging again,
  what survives) and one per modification. `CreatedInv` gives the immutable part of
  the set in terms of the override it was created with, which makes an update with the
  same immutable fields acceptable, and `ClashBuilt` gives the strategy of every build,
  left-overs of earlier overrides included. `SourcesInv` and `PresentInv` complete the types.

Attempting these proofs corrected three statements: which claims of a
removed override stay (`ClaimsIn`), that only the operator's own containers are
reset to the operator's command (`ContainersIn`), and the shapes overrides
are assumed to have.

Two proofs need induction over data: the folds of `Merge` and the count of
`totalVotes`. The library's induction theorems take an operator as a parameter,
which no installed prover can instantiate. The lemma `Least` does instead: a nonempty set of
natural numbers has a least element (`WFMin`), so a statement about all prefixes
holds because a shortest counterexample would have a shorter one. That a recursive
function has values at all is shown by exhibiting a solution of its equation
(`FoldExists`).

`Scaling` checks `SizesInv` and `DeployedInv` as invariants as well; `ConfigInv`
is a conjunct of the latter. The other inductive invariants were checked by TLC on
the instances of the runs before they were proved; those of `Rollout_proofs` on
instances with 1 to 3 members, up to 3 edits and 2 faults that satisfy its
hypotheses; `LagInv` and `QuietMeansDeployed` on 1 to 3 members with 2 edits and on
1 to 2 members with every kind of edit and fault, `BumpInv` and `LagSizesInv`
on up to 4.2 million states each. `BuiltInv` quantifies over all sets and TLC cannot evaluate it; its
consequences are what the run checks.

Only model-checked:

* all liveness: `Converges`, `EventuallyFollow`, `RegisteredServe`, `Settles`. TLAPS
  has no backend for fairness and ENABLED here;
* `RemovedFromConfigFirst`, `TemplateBeforeConfig` and `NoNativeUpgrade` under
  `StaleReads` (`LaggingCache`);
* `HistoryIndependent`, `StableWithoutEdits`, `GoalBeforeRunning` and the others
  outside the hypotheses of their theorems.

## 5. Where the code and its documentation differ

Four runs are expected to violate a property that a comment, a message or a
document states. `PROJECT.json`, "findings", quotes the lines.

* `EditDuringCreation`: until the first Running status the recorded size is 0, so
  a larger size asked for during creation goes into the config at once while the
  StatefulSet keeps the old one. The operator waits for a pod that nobody creates.
* `HorizonPanic`: scaling down by two or more, with horizons shortened to match,
  makes `Build` index past the end of the list in the first of the steps.
* `PasswordAfterRestart`: a deleted password secret is not watched after a
  restart, so creating it again changes nothing.
* `RotationDeadlock`: a pod that restarts after the certificate was replaced and
  before the config names the new file cannot start mongod, and the config waits
  for that pod.

The passing runs and theorems have preconditions. Each comes from a behaviour of
the code; these settings show it:

| Settings | Property that fails | Why |
| --- | --- | --- |
| `ReplicaSetController`, `InitTLS = {TRUE}`, edit "down" | `RemovedFromConfigFirst` | with TLS `shouldRunInOrder` returns before it looks at scaling |
| edit "both" (smaller size and new version) | `TemplateBeforeConfig` | the scaling branch comes before the version branch |
| fault "lookup" with edit "tls" | `TemplateBeforeConfig` | a failed lookup counts as "no StatefulSet" |
| fault "annotate" with edit "version" | `Converges`, `TemplateBeforeConfig`, `NoNativeUpgrade` | without the annotation a version change is not noticed |
| edit "version", `GoalBeforeRunning` without `podsNotFound = 0` | that property | all pods missing counts as all agents ready; with several members each may be missing in turn |
| `InFlightEdits = TRUE`, edits "up" and "down" | `RefinesMembershipChange` | sizes are computed from the recorded size. TLC's shortest trace edits during creation, when it is 0 (as `EditDuringCreation`); with edits only after creation it still fails, e.g. 2 to 3 overtaken by an edit to 1 takes the StatefulSet from 3 to 1 |
| `StaleReads` and `InFlightEdits`, one member, a version edited there and back | `QuietMeansDeployed` | the cached config equals the desired one while the secret holds the other; the write is left out |
| `StaleReads`, sizes above 2, edit "up" | `ConfigVersionBumped` | two reads of the config secret in one reconciliation |
| `ScramUsers`, `CheckedKeysPublished` for every key | that property | the check names the SHA-1 server key twice and the stored key never |
| `AutomationConfigBuilder`, `MaxMembers = 8` | `VoteLimit` (stated in the module, in no run) | the comparison lets the eighth member vote; the comment of `newReplicaSetMember` says seven |
| `TLSRotation`, three resources, no faults | `RegisteredAreRotated` | a registration that one `Watch` has overwritten comes back with the stale list of another, after the event was missed |
| `AutomationConfigBuilder`, `DataBearingKept` without its bounds on the arbiters | that property | arbiters are validated against the final size, but configs are built for every size on the way; from eight arbiters on, all votes are theirs |

Two more cannot be expressed by settings. A missing password ends the loop over the connection strings, so
users after it keep an old one; hence `ConnectionStringsFollow` excludes
reconciliations that logged an error. Two concurrent registrations for one secret
can lose one of them; hence `RegisteredAreRotated` speaks of registered resources.

Likewise `StatefulSetBuilder` leaves out of `HistoryIndependent` what the code does
keep from earlier edits. `WithVolume` leaves an existing volume as it is, so pods
go on mounting the old CA ConfigMap after the reference is changed. What only a
removed override had added stays, the fields it had set in a volume claim
included. Arguments of a user's container accumulate. The
order of two or more topology spread constraints changes by itself, hence the exception in
`StableWithoutEdits`. An override with parameters of a rolling update and no type is
accepted until the version changes: the operator sets OnDelete, the merge leaves the
parameters, and the API server rejects the set. `UpdatesAccepted` says that
this is the only clash. In `AgentPod`, a pod that left the config and comes back can be
annotated with a config its agent has not applied; hence the history variable
`stayed`. And a pod may be made ready for a wait that is over, because the
verdict is as old as the health file; hence `ReadyAtGoalOrWaiting` speaks of the
moment the file was dumped.

## 6. What is not modelled

* Lagging caches of pods and of the secrets the operator writes itself.
* Deletion of the resource: owner references leave it to garbage collection.
* Edits in flight in the passing runs of `ReplicaSetController`: the conflicts they
  cause are covered by `NothingLeftBehind`, `DeployedAlways` and `VersionBumped`, which
  allow them, and by the run `EditDuringCreation`.
* The service (it is created in `Prepare`, and nothing reads it), the entry point, plain field setters and client wrappers: layout.
* The SCRAM computation: a function of password and salt.
* The process arguments, the lists of versions and builds and the additional mongod
  configuration in the automation config: layout that nothing else depends on.
* The checks of connection-string secret names and authentication modes in
  `controllers/validation`: predicates of one spec, without state or order.
* `pkg/util/state`, the state machine: nothing in this repository uses it outside
  its own tests, so there are no states and transitions to be faithful to.
* The order of the items in secret and ConfigMap volumes after a merge.
* Annotations that others put on a pod: the operator reads only its own.
* Arbiters in `AgentPod`: which replication state the agent publishes for one is
  not in this repository, and the probe takes only primary and secondary for ready.
* Overrides of replicas and update strategy in `ReplicaSetController`: they win over
  the values the operator scales and upgrades with, by design of the merge.

## 7. Further work

1. The theorems of `Rollout_proofs` under `StaleReads`: `LagInv` with the pods and
   the template in it.
2. `ReplicaSetController` with `AgentPod` in the place of its abstract pods, for one
   member; the abstract actions `ReachGoal`, `ReadyWhenDeadlocked` and
   `HookDeletesPod` as a refinement.
3. Lagging reads of the secrets the operator writes itself, in `ScramUsers`.
