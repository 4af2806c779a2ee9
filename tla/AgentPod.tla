------------------------------ MODULE AgentPod ------------------------------
(* One pod of the replica set: the agent and the health file it dumps, the   *)
(* readiness probe that reads the file and annotates the pod                 *)
(* (cmd/readiness, pkg/readiness), and the hook that runs before mongod and  *)
(* deletes the pod during a version change (cmd/versionhook).                *)
(*                                                                           *)
(* The agent, the kubelet and the StatefulSet controller are external.  They *)
(* do what the probe and the hook expect of them: the agent dumps its state  *)
(* now and then, writes no plans for a process that is not in the config,    *)
(* and stops mongod to change its version.                                   *)
EXTENDS Integers

CONSTANTS
  Images,      \* versions of mongod, each with its image
  None,        \* no value
  MaxConfigs,  \* bound: automation configs published
  MaxPolls,    \* pollingDuration / pollingInterval of the hook
  MaxFaults    \* bound: lost pods, failed calls, other members going down

ASSUME BoundsAssumption ==
  /\ MaxConfigs \in Nat \ {0} /\ MaxPolls \in Nat /\ MaxFaults \in Nat
  /\ Images # {} /\ None \notin Images /\ None \notin Int

VARIABLES
  secret,    \* the automation config: version, mongod version, this pod in it?
  template,  \* the image in the StatefulSet's pod template
  pod,       \* the pod object
  agent,     \* the agent's state in memory
  file,      \* the health file as last dumped, or None
  mongod,    \* "none", "hook" running, "waiting" for its files, "up"
  hook,      \* what the hook does, and the polls it has made
  others,    \* are the other members up?
  probe,     \* the locals of the probe process
  stayed,    \* history: in every config since the pod was created
  alone,     \* history: when the file was dumped, and when the one was that the
             \* probe works on, had the agent a config to apply and were other
             \* members down?
  faults

operator == <<secret, template, stayed>>
vars == <<operator, pod, agent, file, mongod, hook, others, probe, alone, faults>>

Configs == [version : 1..MaxConfigs, mongodb : Images, member : BOOLEAN]
NotAchieved == -1

NoPod == [up |-> FALSE, image |-> None, version |-> None, ready |-> FALSE]
NewAgent == [cfg |-> None, last |-> 0, plan |-> "none", change |-> FALSE, known |-> FALSE]
NewHook == [pc |-> "poll", polls |-> 0]
NotAlone == [file |-> FALSE, probe |-> FALSE]
NoProbe == [pc |-> "idle", health |-> None, target |-> 0, current |-> 0, outcome |-> "unready"]

\* What the probe and the hook use of the health file: is this process in
\* "statuses" and in "mmsStatus", and the fields they look at.
Health ==
  [status : BOOLEAN, inGoal : BOOLEAN, expectedUp : BOOLEAN, serving : BOOLEAN,
   plans : BOOLEAN, last : 0..MaxConfigs, completed : BOOLEAN, waiting : BOOLEAN, change : BOOLEAN]

ASSUME NoneAssumption == None \notin Configs /\ None \notin Health

Pods ==
  [up : BOOLEAN, image : Images \cup {None},
   version : (NotAchieved..MaxConfigs) \cup {None}, ready : BOOLEAN]

Agents ==
  [cfg : Configs \cup {None}, last : 0..MaxConfigs,
   plan : {"none", "running", "done"}, change : BOOLEAN, known : BOOLEAN]

Hooks == [pc : {"poll", "delete", "blocked"}, polls : 0..MaxPolls + 1]

Probes ==
  [pc : {"idle", "target", "patch"}, health : Health \cup {None}, target : 0..MaxConfigs,
   current : NotAchieved..MaxConfigs, outcome : {"goal", "deadlock", "unready"}]

\* The types of the variables.  A config version stays below its bound, and the
\* hook polls at most once more than MaxPolls times.
TypeOK ==
  /\ secret \in Configs /\ template \in Images /\ stayed \in BOOLEAN
  /\ pod \in Pods /\ agent \in Agents /\ file \in Health \cup {None}
  /\ mongod \in {"none", "hook", "waiting", "up"} /\ hook \in Hooks
  /\ others \in BOOLEAN /\ probe \in Probes
  /\ alone \in [file : BOOLEAN, probe : BOOLEAN] /\ faults \in 0..MaxFaults

-----------------------------------------------------------------------------
(* The readiness probe: what it makes of a health file *)

\* One process is expected in "mmsStatus"; its last plan counts unless it is
\* completed.  A risky step is one of WaitAllRsMembersUp and WaitRsInit.
findCurrentStep(h) ==
  IF ~h.plans \/ h.completed THEN "none"
  ELSE IF h.waiting THEN "risky" ELSE "other"

\* The bug a probe that takes any long step for a deadlock would be.
isDeadlockedAnyStep(step, old) == step # "none" /\ old

\* Has the step been running for more than 15 seconds?  The clock decides.
isDeadlocked(step, old) == step = "risky" /\ old

hasDeadlockedSteps(h, old) == isDeadlocked(findCurrentStep(h), old)

\* Serving: mongod was seen within the last minute, and is primary or secondary
\* (IsReadyState).
isInReadyState(h) == ~h.status \/ ~h.expectedUp \/ h.serving

\* The bug a probe that asks for the goal state before the plans would be.
readCurrentAgentInfoGoalFirst(h, targetVersion) ==
  IF h.status /\ h.inGoal THEN targetVersion ELSE h.last

readCurrentAgentInfo(h, targetVersion) ==
  CASE h.plans -> h.last
    [] ~h.plans /\ h.status /\ h.inGoal -> targetVersion
    [] ~h.plans /\ h.status /\ ~h.inGoal -> NotAchieved
    [] OTHER -> targetVersion

isInGoalState(h, targetVersion) == readCurrentAgentInfo(h, targetVersion) = targetVersion

isPodReady(h, targetVersion, old) ==
  LET inGoalState == isInGoalState(h, targetVersion)
  IN  CASE inGoalState /\ isInReadyState(h) -> "goal"
        [] ~inGoalState /\ hasDeadlockedSteps(h, old) -> "deadlock"
        [] OTHER -> "unready"

-----------------------------------------------------------------------------
(* The probe process.  The kubelet runs one at a time. *)

probeEnv == <<operator, agent, file, mongod, hook, others>>

\* The probe ends with the pod annotated.  A failed probe makes the pod unready after FailureThreshold failures.
ProbeResult(ready, version) ==
  /\ probe' = NoProbe /\ alone' = [alone EXCEPT !.probe = FALSE]
  /\ \/ ready /\ pod' = [pod EXCEPT !.version = version, !.ready = TRUE]
     \/ ~ready /\ \E r \in {pod.ready, FALSE} : pod' = [pod EXCEPT !.version = version, !.ready = r]

ReadHealthFile ==
  /\ pod.up /\ probe.pc = "idle"
  /\ IF file = None
       THEN ProbeResult(FALSE, pod.version)
       ELSE /\ probe' = [probe EXCEPT !.pc = "target", !.health = [file EXCEPT !.change = FALSE]]
            /\ alone' = [alone EXCEPT !.probe = alone.file]
            /\ UNCHANGED pod
  /\ UNCHANGED <<probeEnv, faults>>

\* From here on the probe works on what it has read; its answer is only used
\* after the patch.
ReadAutomationConfigVersionFromSecret ==
  /\ probe.pc = "target"
  /\ \E old \in BOOLEAN :
       probe' = [pc |-> "patch", health |-> None, target |-> secret.version,
                 current |-> readCurrentAgentInfo(probe.health, secret.version),
                 outcome |-> isPodReady(probe.health, secret.version, old)]
  /\ UNCHANGED <<probeEnv, pod, alone, faults>>

PatchPodAnnotation ==
  /\ probe.pc = "patch"
  /\ ProbeResult(probe.outcome # "unready", probe.current)
  /\ UNCHANGED <<probeEnv, faults>>

\* A call to the API fails: the probe panics.
ProbeCallFails ==
  /\ probe.pc \in {"target", "patch"} /\ faults < MaxFaults
  /\ ProbeResult(FALSE, pod.version)
  /\ faults' = faults + 1
  /\ UNCHANGED probeEnv

-----------------------------------------------------------------------------
(* The version upgrade hook, run by the mongod container before mongod *)

hookEnv == <<operator, agent, others, alone>>

\* The bug a hook that waits for the plan to be completed would be.
isWaitingToBeDeletedCompleted(h) == h.change /\ h.completed

\* The last plan has a ChangeVersion move, completed or not.
isWaitingToBeDeleted(h) == h.change

shouldDeletePod(h) == h.plans /\ isWaitingToBeDeleted(h)

\* Outcomes of a poll: the hook gives up, polls again or has its answer.
HookReturns == mongod' = "waiting" /\ hook' = NewHook
PollAgain == hook' = [hook EXCEPT !.polls = hook.polls + 1] /\ UNCHANGED mongod
Decide(h) ==
  IF shouldDeletePod(h) THEN hook' = [hook EXCEPT !.pc = "delete"] /\ UNCHANGED mongod
                       ELSE HookReturns

\* The bug a hook without the polling limit would be.
waitForAgentHealthStatusForever ==
  /\ mongod = "hook" /\ hook.pc = "poll"
  /\ CASE file = None -> HookReturns
       [] file # None ->
            CASE ~file.status -> HookReturns
              [] file.status /\ file.inGoal -> PollAgain
              [] file.status /\ ~file.inGoal -> Decide(file)
  /\ UNCHANGED <<hookEnv, pod, file, probe, faults>>

waitForAgentHealthStatus ==
  /\ mongod = "hook" /\ hook.pc = "poll"
  /\ CASE hook.polls > MaxPolls \/ file = None -> HookReturns
       [] hook.polls <= MaxPolls /\ file # None ->
            CASE ~file.status -> HookReturns
              [] file.status /\ file.inGoal -> PollAgain
              [] file.status /\ ~file.inGoal -> Decide(file)
  /\ UNCHANGED <<hookEnv, pod, file, probe, faults>>

\* The pod's containers, volumes and annotations go with it.
PodGone ==
  /\ pod' = NoPod /\ agent' = NewAgent /\ file' = None
  /\ mongod' = "none" /\ hook' = NewHook /\ probe' = NoProbe /\ alone' = NotAlone
  /\ UNCHANGED <<operator, others>>

deletePod ==
  /\ mongod = "hook" /\ hook.pc = "delete"
  /\ PodGone
  /\ UNCHANGED faults

\* The error is logged and the hook waits for somebody to restart the pod.
deletePodFails ==
  /\ mongod = "hook" /\ hook.pc = "delete" /\ faults < MaxFaults
  /\ hook' = [hook EXCEPT !.pc = "blocked"] /\ faults' = faults + 1
  /\ UNCHANGED <<hookEnv, pod, file, mongod, probe>>

-----------------------------------------------------------------------------
(* The mongod container after the hook, and the agent *)

agentEnv == <<operator, pod, probe, others, faults>>

InConfig == agent.cfg # None /\ agent.cfg.member

\* Its config file and the keyfile are there once the agent has a config for it.
MongodStarts ==
  /\ mongod = "waiting" /\ InConfig
  /\ mongod' = "up"
  /\ UNCHANGED <<agentEnv, agent, file, hook, alone>>

\* A config for a pod that runs another version needs a ChangeVersion move.
AgentLoads ==
  /\ pod.up /\ agent.cfg # secret
  /\ agent' = [agent EXCEPT
                 !.cfg = secret,
                 !.plan = IF secret.member THEN "running" ELSE "none",
                 !.change = secret.member /\ pod.image # secret.mongodb,
                 !.known = agent.known \/ secret.member]
  /\ UNCHANGED <<agentEnv, file, mongod, hook, alone>>

\* mongod is stopped to change its version, while the other members are up, or
\* because the process is no longer in the config.  The container starts again.
AgentStopsMongod ==
  /\ mongod = "up" /\ agent.cfg # None
  /\ (agent.change /\ others) \/ ~agent.cfg.member
  /\ mongod' = "hook" /\ hook' = NewHook
  /\ UNCHANGED <<agentEnv, agent, file, alone>>

AgentReachesGoal ==
  /\ agent.plan = "running" /\ ~agent.change /\ mongod = "up" /\ others
  /\ agent' = [agent EXCEPT !.plan = "done", !.last = agent.cfg.version]
  /\ UNCHANGED <<agentEnv, file, mongod, hook, alone>>

\* What the agent would dump now.  A process that left the config is in goal
\* state once it is stopped; one that was never in it has no status at all.
Snapshot(serving) ==
  [status |-> agent.known,
   inGoal |-> agent.known /\ IF InConfig THEN agent.plan = "done" ELSE mongod # "up",
   expectedUp |-> InConfig,
   serving |-> serving,
   plans |-> InConfig,
   last |-> IF InConfig THEN agent.last ELSE 0,
   completed |-> InConfig /\ agent.plan = "done",
   waiting |-> InConfig /\ agent.plan = "running" /\ ~others,
   change |-> agent.change]

\* A mongod at its goal serves; it may become unreadable when the others are
\* down.  Nothing depends on this flag while a plan is running.
AgentDumps ==
  /\ agent.cfg # None
  /\ \E serving \in {agent.plan = "done", agent.plan = "done" /\ others} :
       /\ file # Snapshot(serving)
       /\ file' = Snapshot(serving)
  /\ alone' = [alone EXCEPT !.file = ~others /\ InConfig /\ agent.last < agent.cfg.version]
  /\ UNCHANGED <<agentEnv, agent, mongod, hook>>

-----------------------------------------------------------------------------
(* The operator, the StatefulSet controller and the surroundings *)

podState == <<pod, agent, file, mongod, hook, probe, alone>>

\* The template is written before the config that needs it (TemplateBeforeConfig
\* in ReplicaSetController).
ChangeTemplate ==
  /\ template = secret.mongodb /\ secret.version < MaxConfigs
  /\ template' \in Images \ {template}
  /\ UNCHANGED <<secret, stayed, podState, others, faults>>

PublishConfig ==
  /\ secret.version < MaxConfigs
  /\ \E m \in BOOLEAN :
       /\ secret' = [version |-> secret.version + 1, mongodb |-> template, member |-> m]
       /\ stayed' = (stayed /\ m)
  /\ UNCHANGED <<template, podState, others, faults>>

CreatePod ==
  /\ ~pod.up
  /\ pod' = [NoPod EXCEPT !.up = TRUE, !.image = template]
  /\ mongod' = "hook"
  /\ stayed' = secret.member
  /\ UNCHANGED <<secret, template, agent, file, hook, probe, others, alone, faults>>

LosePod ==
  /\ pod.up /\ faults < MaxFaults
  /\ PodGone
  /\ faults' = faults + 1

OthersDown ==
  /\ others /\ faults < MaxFaults
  /\ others' = FALSE /\ faults' = faults + 1
  /\ UNCHANGED <<operator, podState>>

OthersUp ==
  /\ ~others /\ others' = TRUE
  /\ UNCHANGED <<operator, podState, faults>>

-----------------------------------------------------------------------------
Init ==
  /\ template = CHOOSE i \in Images : TRUE
  /\ \E m \in BOOLEAN : secret = [version |-> 1, mongodb |-> template, member |-> m]
  /\ stayed = secret.member
  /\ pod = NoPod /\ agent = NewAgent /\ file = None
  /\ mongod = "none" /\ hook = NewHook /\ others = FALSE
  /\ probe = NoProbe /\ alone = NotAlone /\ faults = 0

Probe ==
  ReadHealthFile \/ ReadAutomationConfigVersionFromSecret \/ PatchPodAnnotation

Hook == waitForAgentHealthStatus \/ deletePod

Agent == AgentLoads \/ AgentStopsMongod \/ AgentReachesGoal

Next ==
  \/ Probe \/ ProbeCallFails
  \/ Hook \/ deletePodFails
  \/ Agent \/ AgentDumps \/ MongodStarts
  \/ ChangeTemplate \/ PublishConfig \/ CreatePod \/ LosePod
  \/ OthersDown \/ OthersUp

\* The processes keep running, pods are created and the members come up.  The
\* operator publishes the config it has changed the template for.
Fairness ==
  /\ WF_vars(Probe) /\ WF_vars(Hook)
  /\ WF_vars(Agent) /\ WF_vars(AgentDumps) /\ WF_vars(MongodStarts)
  /\ WF_vars(template # secret.mongodb /\ PublishConfig)
  /\ WF_vars(CreatePod) /\ WF_vars(OthersUp)

Spec == Init /\ [][Next]_vars
FairSpec == Spec /\ Fairness

-----------------------------------------------------------------------------
(* Properties *)

\* The operator believes the annotation (ReachedGoalState in pkg/agent).  In a
\* pod that has been in every config since its creation, it names no config that
\* the agent has not applied, however old the health file is that the probe read
\* and whatever was published between its reads.
AnnotationAchieved ==
  stayed /\ pod.version # None => pod.version <= agent.last

\* Such a pod is made ready before its agent has applied the config that the
\* probe compared it with only if other members were really down when the agent
\* dumped the file the probe has read (hasDeadlockedSteps).  They may be up again
\* by now: the verdict is as old as the file.
ReadyAtGoalOrWaiting ==
  [][stayed /\ pod'.ready /\ ~pod.ready /\ agent.last < probe.target => alone.probe]_vars

\* Once the configs stop changing, the pod runs the version the config asks for
\* and is ready and annotated with the config, unless the call with which the
\* hook deletes the pod failed: then the pod waits for somebody to restart it.
\* No stale file, timeout or early restart of the old mongod stops an upgrade.
Settles ==
  \/ <>[](/\ pod.up /\ pod.ready /\ pod.version = secret.version
          /\ secret.member => pod.image = secret.mongodb /\ mongod = "up")
  \/ <>[](hook.pc = "blocked")
=============================================================================
