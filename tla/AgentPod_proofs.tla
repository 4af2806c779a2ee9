--------------------------- MODULE AgentPod_proofs ---------------------------
(* Proofs about AgentPod: what the operator may conclude from an annotation, *)
(* for any number of configs, polls and faults and any set of versions.      *)
EXTENDS AgentPod, TLAPS

-----------------------------------------------------------------------------
(* Types *)

\* What the probe makes of a health file.
LEMMA ProbeTypes ==
  ASSUME NEW h \in Health, NEW v \in 0..MaxConfigs, NEW old \in BOOLEAN
  PROVE  /\ readCurrentAgentInfo(h, v) \in NotAchieved..MaxConfigs
         /\ isPodReady(h, v, old) \in {"goal", "deadlock", "unready"}
<1>1. readCurrentAgentInfo(h, v) \in NotAchieved..MaxConfigs
  BY BoundsAssumption DEF readCurrentAgentInfo, Health, NotAchieved
<1>2. isPodReady(h, v, old) \in {"goal", "deadlock", "unready"}
  BY DEF isPodReady
<1>3. QED
  BY <1>1, <1>2

\* What the agent dumps is a health file.
LEMMA SnapshotType ==
  ASSUME TypeOK, NEW serving \in BOOLEAN
  PROVE  Snapshot(serving) \in Health
<1>1. InConfig \in BOOLEAN
  BY DEF TypeOK, InConfig, Configs, Agents
<1>2. /\ agent.known \in BOOLEAN /\ agent.change \in BOOLEAN /\ others \in BOOLEAN
      /\ (IF InConfig THEN agent.last ELSE 0) \in 0..MaxConfigs
  BY BoundsAssumption DEF TypeOK, Agents
<1>3. (IF InConfig THEN agent.plan = "done" ELSE mongod # "up") \in BOOLEAN
  BY <1>1
<1>4. QED
  BY <1>1, <1>2, <1>3 DEF Snapshot, Health

\* The values the variables start with have their types.
LEMMA InitialTypes ==
  /\ NoPod \in Pods /\ NewAgent \in Agents /\ NewHook \in Hooks /\ NoProbe \in Probes
  /\ NotAlone \in [file : BOOLEAN, probe : BOOLEAN]
BY BoundsAssumption DEF NotAlone, NoPod, NewAgent, NewHook, NoProbe, NotAchieved,
                        Pods, Agents, Hooks, Probes

\* Initially the types are right.
LEMMA TypeInit == Init => TypeOK
<1> SUFFICES ASSUME Init PROVE TypeOK
  OBVIOUS
<1>1. template \in Images
  BY BoundsAssumption DEF Init
<1>2. secret \in Configs
  BY <1>1, BoundsAssumption DEF Init, Configs
<1>3. stayed \in BOOLEAN
  BY <1>2 DEF Init, Configs
<1>4. others \in BOOLEAN
  BY Zenon DEF Init
<1>7. faults \in 0..MaxFaults
  BY BoundsAssumption DEF Init
<1>5. /\ pod \in Pods /\ agent \in Agents /\ file \in Health \cup {None}
      /\ mongod \in {"none", "hook", "waiting", "up"} /\ hook \in Hooks /\ probe \in Probes
      /\ alone \in [file : BOOLEAN, probe : BOOLEAN]
  BY InitialTypes DEF Init
<1>6. QED
  BY <1>1, <1>2, <1>3, <1>4, <1>5, <1>7, Zenon DEF TypeOK

\* How a probe ends.
LEMMA ProbeResultType ==
  ASSUME TypeOK, NEW ready \in BOOLEAN, NEW v \in (NotAchieved..MaxConfigs) \cup {None},
         ProbeResult(ready, v)
  PROVE  /\ pod' \in Pods /\ probe' \in Probes
         /\ alone' \in [file : BOOLEAN, probe : BOOLEAN]
<1>1. probe' \in Probes
  BY InitialTypes DEF ProbeResult
<1>4. alone' \in [file : BOOLEAN, probe : BOOLEAN]
  BY DEF ProbeResult, TypeOK
<1>2. PICK r \in BOOLEAN : pod' = [pod EXCEPT !.version = v, !.ready = r]
  BY DEF ProbeResult, TypeOK, Pods
<1>3. QED
  BY <1>1, <1>2, <1>4 DEF TypeOK, Pods

\* What a step relies on finding: the probe has a health file to work on, and an
\* agent with a plan has a config.
Present ==
  /\ probe.pc = "target" => probe.health # None
  /\ agent.plan = "running" => agent.cfg # None

\* Every step keeps the types.
LEMMA TypeNext == TypeOK /\ Present /\ [Next]_vars => TypeOK'
<1> SUFFICES ASSUME TypeOK, Present, [Next]_vars PROVE TypeOK'
  OBVIOUS
<1>1. CASE ReadHealthFile
  <2>1. CASE file = None
    <3>1. pod.version \in (NotAchieved..MaxConfigs) \cup {None}
      BY DEF TypeOK, Pods
    <3>2. pod' \in Pods /\ probe' \in Probes /\ alone' \in [file : BOOLEAN, probe : BOOLEAN]
      BY <1>1, <2>1, <3>1, ProbeResultType DEF ReadHealthFile
    <3>3. QED
      BY <1>1, <3>2 DEF ReadHealthFile, TypeOK, probeEnv, operator
  <2>2. CASE file # None
    <3>1. [file EXCEPT !.change = FALSE] \in Health
      BY <2>2 DEF TypeOK, Health
    <3>2. probe' \in Probes
      BY <1>1, <2>2, <3>1 DEF ReadHealthFile, TypeOK, Probes
    <3>4. alone' \in [file : BOOLEAN, probe : BOOLEAN]
      BY <1>1, <2>2 DEF ReadHealthFile, TypeOK
    <3>3. QED
      BY <1>1, <2>2, <3>2, <3>4 DEF ReadHealthFile, TypeOK, probeEnv, operator
  <2>3. QED
    BY <2>1, <2>2
<1>2. CASE ReadAutomationConfigVersionFromSecret
  <2>1. PICK old \in BOOLEAN :
          probe' = [pc |-> "patch", health |-> None, target |-> secret.version,
                    current |-> readCurrentAgentInfo(probe.health, secret.version),
                    outcome |-> isPodReady(probe.health, secret.version, old)]
    BY <1>2 DEF ReadAutomationConfigVersionFromSecret
  <2>2. probe.health \in Health /\ secret.version \in 0..MaxConfigs
    BY <1>2, BoundsAssumption
    DEF ReadAutomationConfigVersionFromSecret, Present, TypeOK, Probes, Configs
  <2>3. probe' \in Probes
    BY <2>1, <2>2, ProbeTypes DEF Probes
  <2>4. QED
    BY <1>2, <2>3 DEF ReadAutomationConfigVersionFromSecret, TypeOK, probeEnv, operator
<1>3. CASE PatchPodAnnotation
  <2>1. /\ (probe.outcome # "unready") \in BOOLEAN
        /\ probe.current \in (NotAchieved..MaxConfigs) \cup {None}
    BY DEF TypeOK, Probes
  <2>2. pod' \in Pods /\ probe' \in Probes /\ alone' \in [file : BOOLEAN, probe : BOOLEAN]
    BY <1>3, <2>1, ProbeResultType DEF PatchPodAnnotation
  <2>3. QED
    BY <1>3, <2>2 DEF PatchPodAnnotation, TypeOK, probeEnv, operator
<1>4. CASE ProbeCallFails
  <2>1. pod.version \in (NotAchieved..MaxConfigs) \cup {None}
    BY DEF TypeOK, Pods
  <2>2. pod' \in Pods /\ probe' \in Probes /\ alone' \in [file : BOOLEAN, probe : BOOLEAN]
    BY <1>4, <2>1, ProbeResultType DEF ProbeCallFails
  <2>3. faults' \in 0..MaxFaults
    BY <1>4, BoundsAssumption DEF ProbeCallFails, TypeOK
  <2>4. QED
    BY <1>4, <2>2, <2>3 DEF ProbeCallFails, TypeOK, probeEnv, operator
<1>5. CASE waitForAgentHealthStatus
  <2>1. /\ mongod' \in {"none", "hook", "waiting", "up"}
        /\ hook' \in Hooks
    <3>1. CASE HookReturns
      BY <3>1, InitialTypes DEF HookReturns
    <3>2. CASE PollAgain /\ hook.polls <= MaxPolls
      BY <3>2, BoundsAssumption DEF PollAgain, TypeOK, Hooks
    <3>3. CASE Decide(file)
      BY <3>3, InitialTypes DEF Decide, HookReturns, TypeOK, Hooks
    <3>4. HookReturns \/ (PollAgain /\ hook.polls <= MaxPolls) \/ Decide(file)
      <4>1. CASE hook.polls > MaxPolls \/ file = None
        BY <1>5, <4>1, BoundsAssumption DEF waitForAgentHealthStatus, TypeOK, Hooks
      <4>2. CASE hook.polls <= MaxPolls /\ file # None
        <5>1. file.status \in BOOLEAN /\ file.inGoal \in BOOLEAN
          BY <4>2 DEF TypeOK, Health
        <5>2. QED
          BY <1>5, <4>2, <5>1 DEF waitForAgentHealthStatus
      <4>3. QED
        BY <4>1, <4>2, BoundsAssumption DEF TypeOK, Hooks
    <3>5. QED
      BY <3>1, <3>2, <3>3, <3>4
  <2>2. QED
    BY <1>5, <2>1 DEF waitForAgentHealthStatus, TypeOK, hookEnv, operator
<1>6. CASE deletePod
  BY <1>6, InitialTypes DEF deletePod, PodGone, TypeOK, operator
<1>7. CASE deletePodFails
  <2>1. hook' \in Hooks
    BY <1>7 DEF deletePodFails, TypeOK, Hooks
  <2>2. faults' \in 0..MaxFaults
    BY <1>7, BoundsAssumption DEF deletePodFails, TypeOK
  <2>3. QED
    BY <1>7, <2>1, <2>2 DEF deletePodFails, TypeOK, hookEnv, operator
<1>8. CASE MongodStarts
  BY <1>8 DEF MongodStarts, TypeOK, agentEnv, operator
<1>9. CASE AgentLoads
  <2> DEFINE plan == IF secret.member THEN "running" ELSE "none"
             change == secret.member /\ pod.image # secret.mongodb
             known == agent.known \/ secret.member
  <2>1. agent' \in Agents
    <3>1. secret.member \in BOOLEAN /\ agent.known \in BOOLEAN
      BY DEF TypeOK, Configs, Agents
    <3>2. plan \in {"none", "running", "done"} /\ change \in BOOLEAN /\ known \in BOOLEAN
      BY <3>1
    <3>3. agent' = [agent EXCEPT !.cfg = secret, !.plan = plan, !.change = change, !.known = known]
      BY <1>9 DEF AgentLoads
    <3> HIDE DEF plan, change, known
    <3>4. QED
      BY <3>2, <3>3 DEF TypeOK, Agents
  <2>2. QED
    BY <1>9, <2>1 DEF AgentLoads, TypeOK, agentEnv, operator
<1>10. CASE AgentStopsMongod
  BY <1>10, InitialTypes DEF AgentStopsMongod, TypeOK, agentEnv, operator
<1>11. CASE AgentReachesGoal
  <2>1. agent' \in Agents
    <3>1. agent.cfg \in Configs
      BY <1>11 DEF AgentReachesGoal, Present, TypeOK, Agents
    <3>2. agent.cfg.version \in 0..MaxConfigs
      BY <3>1, BoundsAssumption DEF Configs
    <3>3. QED
      BY <1>11, <3>2 DEF AgentReachesGoal, TypeOK, Agents
  <2>2. QED
    BY <1>11, <2>1 DEF AgentReachesGoal, TypeOK, agentEnv, operator
<1>12. CASE AgentDumps
  <2>1. PICK serving \in BOOLEAN : file' = Snapshot(serving)
    BY <1>12 DEF AgentDumps, TypeOK
  <2>2. file' \in Health
    BY <2>1, SnapshotType
  <2>4. alone' \in [file : BOOLEAN, probe : BOOLEAN]
    <3>1. (~others /\ InConfig /\ agent.last < agent.cfg.version) \in BOOLEAN
      OBVIOUS
    <3> DEFINE new == ~others /\ InConfig /\ agent.last < agent.cfg.version
    <3>2. alone' = [alone EXCEPT !.file = new]
      BY <1>12 DEF AgentDumps
    <3> HIDE DEF new
    <3>3. QED
      BY <3>1, <3>2 DEF TypeOK, new
  <2>3. QED
    BY <1>12, <2>2, <2>4 DEF AgentDumps, TypeOK, agentEnv, operator
<1>13. CASE ChangeTemplate
  BY <1>13 DEF ChangeTemplate, TypeOK, podState
<1>14. CASE PublishConfig
  <2>1. secret' \in Configs
    BY <1>14, BoundsAssumption DEF PublishConfig, TypeOK, Configs
  <2>2. stayed' \in BOOLEAN
    BY <1>14 DEF PublishConfig, TypeOK
  <2>3. QED
    BY <1>14, <2>1, <2>2 DEF PublishConfig, TypeOK, podState
<1>15. CASE CreatePod
  <2>1. pod' \in Pods
    BY <1>15, InitialTypes DEF CreatePod, TypeOK, Pods
  <2>2. stayed' \in BOOLEAN
    BY <1>15 DEF CreatePod, TypeOK, Configs
  <2>3. QED
    BY <1>15, <2>1, <2>2 DEF CreatePod, TypeOK
<1>16. CASE LosePod
  <2>1. faults' \in 0..MaxFaults
    BY <1>16, BoundsAssumption DEF LosePod, TypeOK
  <2>2. QED
    BY <1>16, <2>1, InitialTypes DEF LosePod, PodGone, TypeOK, operator
<1>17. CASE OthersDown
  <2>1. faults' \in 0..MaxFaults
    BY <1>17, BoundsAssumption DEF OthersDown, TypeOK
  <2>2. QED
    BY <1>17, <2>1 DEF OthersDown, TypeOK, podState, operator
<1>18. CASE OthersUp
  BY <1>18 DEF OthersUp, TypeOK, podState, operator
<1>19. CASE UNCHANGED vars
  BY <1>19 DEF vars, TypeOK, operator
<1>20. QED
  BY <1>1, <1>2, <1>3, <1>4, <1>5, <1>6, <1>7, <1>8, <1>9, <1>10, <1>11, <1>12, <1>13,
     <1>14, <1>15, <1>16, <1>17, <1>18, <1>19 DEF Next, Probe, Hook, Agent

\* Every step leaves what the next one relies on.
LEMMA PresentNext == TypeOK /\ Present /\ [Next]_vars => Present'
<1> SUFFICES ASSUME TypeOK, Present, [Next]_vars PROVE Present'
  OBVIOUS
<1> USE DEF Present
<1>1. CASE ReadHealthFile
  <2>1. CASE file = None
    BY <1>1, <2>1 DEF ReadHealthFile, ProbeResult, NoProbe, probeEnv
  <2>2. CASE file # None
    <3>1. [file EXCEPT !.change = FALSE] # None
      <4>1. [file EXCEPT !.change = FALSE] \in Health
        BY <2>2 DEF TypeOK, Health
      <4>2. QED
        BY <4>1, NoneAssumption
    <3>2. QED
      BY <1>1, <2>2, <3>1 DEF ReadHealthFile, TypeOK, Probes, probeEnv
  <2>3. QED
    BY <2>1, <2>2
<1>2. CASE ReadAutomationConfigVersionFromSecret
  BY <1>2 DEF ReadAutomationConfigVersionFromSecret, probeEnv
<1>3. CASE PatchPodAnnotation \/ ProbeCallFails
  BY <1>3 DEF PatchPodAnnotation, ProbeCallFails, ProbeResult, NoProbe, probeEnv
<1>4. CASE waitForAgentHealthStatus \/ deletePodFails
  BY <1>4 DEF waitForAgentHealthStatus, deletePodFails, hookEnv
<1>5. CASE deletePod \/ LosePod
  BY <1>5 DEF deletePod, LosePod, PodGone, NewAgent, NoProbe
<1>6. CASE AgentLoads
  <2>1. secret # None
    BY NoneAssumption DEF TypeOK
  <2>2. QED
    BY <1>6, <2>1 DEF AgentLoads, TypeOK, Agents, agentEnv
<1>7. CASE AgentReachesGoal
  BY <1>7 DEF AgentReachesGoal, TypeOK, Agents, agentEnv
<1>8. CASE MongodStarts \/ AgentStopsMongod \/ AgentDumps
  BY <1>8 DEF MongodStarts, AgentStopsMongod, AgentDumps, agentEnv
<1>9. CASE ChangeTemplate \/ PublishConfig \/ CreatePod \/ OthersDown \/ OthersUp
  BY <1>9 DEF ChangeTemplate, PublishConfig, CreatePod, OthersDown, OthersUp, podState
<1>10. CASE UNCHANGED vars
  BY <1>10 DEF vars
<1>11. QED
  BY <1>1, <1>2, <1>3, <1>4, <1>5, <1>6, <1>7, <1>8, <1>9, <1>10
  DEF Next, Probe, Hook, Agent

-----------------------------------------------------------------------------
(* What the annotation rests on *)

\* A health file that shows plans, and no config the agent has not applied.
Backed(h) == h.plans /\ h.last <= agent.last

\* Without a pod nothing is left of its containers, so that what a new one shows
\* was written after it was created.
FreshInv ==
  ~pod.up => pod = NoPod /\ agent = NewAgent /\ file = None /\ probe = NoProbe

\* The agent applies configs in the order of their versions, so that what it has
\* applied only grows.
OrderInv ==
  /\ agent.last <= secret.version
  /\ agent.cfg # None =>
       agent.last <= agent.cfg.version /\ agent.cfg.version <= secret.version

\* A pod that was never left out is in the agent's config: its health files have
\* plans, and each place a version passes through on its way from the agent to
\* the annotation (file, probe, patch, pod) is behind the agent.
AchievedInv ==
  /\ probe.pc = "patch" /\ probe.outcome = "goal" => probe.current = probe.target
  /\ stayed =>
       /\ secret.member
       /\ agent.cfg # None => agent.cfg.member
       /\ file # None => Backed(file)
       /\ probe.pc = "target" => Backed(probe.health)
       /\ probe.pc = "patch" => probe.current <= agent.last
       /\ pod.version # None => pod.version <= agent.last

\* An agent with a plan has a config to apply: no two configs have one version.
PlanInv ==
  /\ agent.cfg = None => agent.last = 0
  /\ agent.cfg # None => agent.cfg = secret \/ agent.cfg.version < secret.version
  /\ agent.plan = "running" => agent.last < agent.cfg.version

\* A file in which the agent waits was dumped while other members were down, and
\* so was the one behind a deadlock that the probe has found.
WaitingInv ==
  /\ file # None /\ file.waiting => alone.file
  /\ probe.pc = "target" /\ probe.health.waiting => alone.probe
  /\ probe.pc = "patch" /\ probe.outcome = "deadlock" => alone.probe

IInv == TypeOK /\ Present /\ FreshInv /\ OrderInv /\ AchievedInv /\ PlanInv /\ WaitingInv

\* A file that shows plans is judged by its own version, not by the target.
LEMMA PlansDecide ==
  ASSUME NEW h \in Health, NEW v \in 0..MaxConfigs, NEW old \in BOOLEAN
  PROVE  /\ h.plans => readCurrentAgentInfo(h, v) = h.last
         /\ isPodReady(h, v, old) = "goal" => readCurrentAgentInfo(h, v) = v
         /\ isPodReady(h, v, old) = "deadlock" => h.waiting
<1>1. h.plans => readCurrentAgentInfo(h, v) = h.last
  BY DEF readCurrentAgentInfo
<1>2. isPodReady(h, v, old) = "goal" => readCurrentAgentInfo(h, v) = v
  BY DEF isPodReady, isInGoalState
<1>4. isPodReady(h, v, old) = "deadlock" => h.waiting
  BY DEF isPodReady, hasDeadlockedSteps, isDeadlocked, findCurrentStep
<1>3. QED
  BY <1>1, <1>2, <1>4

\* The invariant holds initially.
LEMMA IInvInit == Init => IInv
<1> SUFFICES ASSUME Init PROVE IInv
  OBVIOUS
<1>1. TypeOK
  BY TypeInit
<1>2. Present /\ FreshInv
  BY DEF Init, Present, FreshInv, NoProbe, NewAgent
<1>3. OrderInv
  BY <1>1, BoundsAssumption DEF Init, OrderInv, NewAgent, TypeOK, Configs
<1>4. AchievedInv
  BY DEF Init, AchievedInv, NoProbe, NewAgent, NoPod
<1>5. PlanInv /\ WaitingInv
  BY DEF Init, PlanInv, WaitingInv, NoProbe, NewAgent
<1>6. QED
  BY <1>1, <1>2, <1>3, <1>4, <1>5 DEF IInv

\* A pod that is lost takes everything with it.
LEMMA GoneAchieved ==
  ASSUME IInv, PodGone
  PROVE  FreshInv' /\ OrderInv' /\ AchievedInv' /\ PlanInv' /\ WaitingInv'
<1>1. secret.version \in Nat
  BY BoundsAssumption DEF IInv, TypeOK, Configs
<1>2. QED
  BY <1>1 DEF IInv, PodGone, operator, FreshInv, OrderInv, AchievedInv, PlanInv, WaitingInv,
              NoPod, NewAgent, NoProbe

\* Without a pod, nothing is going on.
LEMMA FreshNext == IInv /\ [Next]_vars => FreshInv'
<1> SUFFICES ASSUME IInv, [Next]_vars PROVE FreshInv'
  OBVIOUS
<1> USE DEF FreshInv
<1> USE DEF IInv
<1>1. CASE ReadHealthFile
  BY <1>1 DEF ReadHealthFile, ProbeResult, TypeOK, Pods
<1>2. CASE ReadAutomationConfigVersionFromSecret
  BY <1>2 DEF ReadAutomationConfigVersionFromSecret, NoProbe, probeEnv
<1>3. CASE PatchPodAnnotation \/ ProbeCallFails
  <2>1. pod.up
    <3>1. probe.pc # NoProbe.pc
      BY <1>3 DEF PatchPodAnnotation, ProbeCallFails, NoProbe
    <3>2. QED
      BY <3>1, Zenon
  <2>2. PICK v, r : pod' = [pod EXCEPT !.version = v, !.ready = r]
    BY <1>3 DEF PatchPodAnnotation, ProbeCallFails, ProbeResult
  <2>3. pod'.up
    BY <2>1, <2>2 DEF TypeOK, Pods
  <2>4. QED
    BY <2>3
<1>5. CASE deletePod \/ LosePod
  BY <1>5, GoneAchieved DEF deletePod, LosePod
<1>6. CASE waitForAgentHealthStatus \/ deletePodFails
  BY <1>6 DEF waitForAgentHealthStatus, deletePodFails, hookEnv
<1>7. CASE AgentLoads \/ AgentReachesGoal \/ AgentDumps
  BY <1>7 DEF AgentLoads, AgentReachesGoal, AgentDumps, NewAgent, agentEnv
<1>8. CASE MongodStarts \/ AgentStopsMongod
  BY <1>8 DEF MongodStarts, AgentStopsMongod, agentEnv
<1>9. CASE CreatePod
  BY <1>9 DEF CreatePod, NoPod
<1>10. CASE ChangeTemplate \/ PublishConfig \/ OthersDown \/ OthersUp
  BY <1>10 DEF ChangeTemplate, PublishConfig, OthersDown, OthersUp, podState
<1>11. CASE UNCHANGED vars
  BY <1>11 DEF vars
<1>12. QED
  BY <1>1, <1>2, <1>3, <1>5, <1>6, <1>7, <1>8, <1>9, <1>10, <1>11
  DEF Next, Probe, Hook, Agent

\* What the agent has applied stays behind what it has loaded, and that behind
\* what is published.
LEMMA OrderNext == IInv /\ [Next]_vars => OrderInv'
<1> SUFFICES ASSUME IInv, [Next]_vars PROVE OrderInv'
  OBVIOUS
<1> USE DEF OrderInv
<1>1. /\ secret.version \in Nat /\ agent.last \in Nat
      /\ agent.cfg # None => agent.cfg.version \in Nat
  BY BoundsAssumption DEF IInv, TypeOK, Configs, Agents
<1>2. CASE AgentLoads
  BY <1>1, <1>2 DEF AgentLoads, IInv, TypeOK, Agents, agentEnv, operator
<1>3. CASE AgentReachesGoal
  BY <1>1, <1>3 DEF AgentReachesGoal, IInv, Present, TypeOK, Agents, agentEnv, operator
<1>4. CASE PublishConfig
  BY <1>1, <1>4 DEF PublishConfig, IInv, podState
<1>5. CASE deletePod \/ LosePod
  BY <1>5, GoneAchieved DEF deletePod, LosePod
<1>6. CASE UNCHANGED <<secret, agent>>
  BY <1>6 DEF IInv
<1>7. QED
  BY <1>2, <1>3, <1>4, <1>5, <1>6
  DEF Next, Probe, Hook, Agent, ReadHealthFile, ReadAutomationConfigVersionFromSecret,
      PatchPodAnnotation, ProbeCallFails, waitForAgentHealthStatus, deletePodFails,
      AgentStopsMongod, AgentDumps, MongodStarts, ChangeTemplate, CreatePod,
      OthersDown, OthersUp, probeEnv, hookEnv, agentEnv, podState, operator, vars

\* How a probe ends: the annotation is the one it has found, or the one given.
LEMMA ProbeResultAchieved ==
  ASSUME IInv, NEW ready \in BOOLEAN, NEW v, ProbeResult(ready, v), UNCHANGED probeEnv,
         stayed /\ v # None => v <= agent.last
  PROVE  AchievedInv'
<1>1. probe'.pc = "idle" /\ pod'.version = v
  BY DEF ProbeResult, NoProbe, IInv, TypeOK, Pods
<1>2. QED
  BY <1>1 DEF IInv, AchievedInv, Backed, probeEnv, operator

\* No step leaves a version anywhere that is ahead of the agent.
LEMMA AchievedNext == IInv /\ [Next]_vars => AchievedInv'
<1> SUFFICES ASSUME IInv, [Next]_vars PROVE AchievedInv'
  OBVIOUS
<1>1. CASE ReadHealthFile
  <2>1. CASE file = None
    BY <1>1, <2>1, ProbeResultAchieved DEF ReadHealthFile, IInv, AchievedInv
  <2>2. CASE file # None
    <3>1. /\ probe'.pc = "target" /\ probe'.health = [file EXCEPT !.change = FALSE]
          /\ UNCHANGED <<pod, probeEnv>>
      BY <1>1, <2>2 DEF ReadHealthFile, IInv, TypeOK, Probes
    <3>2. probe'.health.plans = file.plans /\ probe'.health.last = file.last
      BY <2>2, <3>1 DEF IInv, TypeOK, Health
    <3>3. QED
      BY <2>2, <3>1, <3>2 DEF IInv, AchievedInv, Backed, probeEnv, operator
  <2>3. QED
    BY <2>1, <2>2
<1>2. CASE ReadAutomationConfigVersionFromSecret
  <2>1. PICK old \in BOOLEAN :
          probe' = [pc |-> "patch", health |-> None, target |-> secret.version,
                    current |-> readCurrentAgentInfo(probe.health, secret.version),
                    outcome |-> isPodReady(probe.health, secret.version, old)]
    BY <1>2 DEF ReadAutomationConfigVersionFromSecret
  <2>2. probe.health \in Health /\ secret.version \in 0..MaxConfigs
    BY <1>2, BoundsAssumption
    DEF ReadAutomationConfigVersionFromSecret, IInv, Present, TypeOK, Probes, Configs
  <2>3. /\ probe'.pc = "patch"
        /\ probe.health.plans => probe'.current = probe.health.last
        /\ probe'.outcome = "goal" => probe'.current = probe'.target
    BY <2>1, <2>2, PlansDecide
  <2>4. QED
    BY <1>2, <2>3 DEF ReadAutomationConfigVersionFromSecret, IInv, AchievedInv, Backed,
                      probeEnv, operator
<1>3. CASE PatchPodAnnotation
  BY <1>3, ProbeResultAchieved DEF PatchPodAnnotation, IInv, AchievedInv
<1>4. CASE ProbeCallFails
  BY <1>4, ProbeResultAchieved DEF ProbeCallFails, IInv, AchievedInv
<1>5. CASE deletePod \/ LosePod
  BY <1>5, GoneAchieved DEF deletePod, LosePod
<1>6. CASE AgentLoads
  <2>1. agent'.cfg = secret /\ agent'.last = agent.last
    BY <1>6 DEF AgentLoads, IInv, TypeOK, Agents
  <2>2. QED
    BY <1>6, <2>1 DEF AgentLoads, IInv, AchievedInv, Backed, agentEnv, operator
<1>7. CASE AgentReachesGoal
  <2>1. /\ agent'.cfg = agent.cfg /\ agent.last <= agent'.last
        /\ agent.last \in Int /\ agent'.last \in Int
    BY <1>7, BoundsAssumption
    DEF AgentReachesGoal, IInv, Present, OrderInv, TypeOK, Agents, Configs
  <2>2. /\ file # None => file.last \in Int
        /\ probe.health # None => probe.health.last \in Int
        /\ probe.current \in Int
        /\ pod.version # None => pod.version \in Int
    BY BoundsAssumption DEF IInv, TypeOK, Health, Probes, Pods, NotAchieved
  <2>3. QED
    BY <1>7, <2>1, <2>2
    DEF AgentReachesGoal, IInv, Present, AchievedInv, Backed, agentEnv, operator
<1>8. CASE AgentDumps
  <2>1. stayed => file'.plans /\ file'.last = agent.last
    <3>1. PICK serving : file' = Snapshot(serving)
      BY <1>8 DEF AgentDumps
    <3>2. stayed => InConfig
      BY <1>8 DEF AgentDumps, InConfig, IInv, AchievedInv
    <3>3. QED
      BY <3>1, <3>2 DEF Snapshot
  <2>2. agent.last \in Int
    BY DEF IInv, TypeOK, Agents
  <2>3. QED
    BY <1>8, <2>1, <2>2 DEF AgentDumps, IInv, AchievedInv, Backed, agentEnv, operator
<1>9. CASE PublishConfig
  <2>1. stayed' => stayed /\ secret'.member
    BY <1>9 DEF PublishConfig, IInv, TypeOK
  <2>2. UNCHANGED <<agent, file, probe, pod>>
    BY <1>9 DEF PublishConfig, podState
  <2>3. QED
    BY <2>1, <2>2 DEF IInv, AchievedInv, Backed
<1>10. CASE CreatePod
  BY <1>10 DEF CreatePod, IInv, FreshInv, AchievedInv, NoPod, NewAgent, NoProbe
<1>11. CASE UNCHANGED <<secret, stayed, agent, file, probe, pod>>
  BY <1>11 DEF IInv, AchievedInv, Backed
<1>12. QED
  BY <1>1, <1>2, <1>3, <1>4, <1>5, <1>6, <1>7, <1>8, <1>9, <1>10, <1>11
  DEF Next, Probe, Hook, Agent, waitForAgentHealthStatus, deletePodFails,
      AgentStopsMongod, MongodStarts, ChangeTemplate, OthersDown, OthersUp,
      hookEnv, agentEnv, podState, operator, vars

\* An agent never has a plan for a config it has applied.
LEMMA PlanNext == IInv /\ [Next]_vars => PlanInv'
<1> SUFFICES ASSUME IInv, [Next]_vars PROVE PlanInv'
  OBVIOUS
<1>1. /\ secret.version \in Nat \ {0} /\ agent.last \in Nat
      /\ agent.cfg # None => agent.cfg.version \in Nat
      /\ secret # None
  BY BoundsAssumption, NoneAssumption DEF IInv, TypeOK, Configs, Agents
<1>2. CASE AgentLoads
  <2>1. agent'.cfg = secret /\ agent'.last = agent.last
    BY <1>2 DEF AgentLoads, IInv, TypeOK, Agents
  <2>2. agent.last < secret.version
    BY <1>1, <1>2 DEF AgentLoads, IInv, PlanInv, OrderInv
  <2>3. QED
    BY <1>1, <1>2, <2>1, <2>2 DEF AgentLoads, PlanInv, agentEnv, operator
<1>3. CASE AgentReachesGoal
  <2>1. agent'.cfg = agent.cfg /\ agent'.plan = "done" /\ agent.cfg # None
    BY <1>3 DEF AgentReachesGoal, IInv, TypeOK, Agents, Present
  <2>2. QED
    BY <1>3, <2>1 DEF AgentReachesGoal, IInv, PlanInv, agentEnv, operator
<1>4. CASE PublishConfig
  <2>1. secret'.version = secret.version + 1 /\ agent' = agent
    BY <1>4 DEF PublishConfig, podState
  <2>2. QED
    BY <1>1, <2>1 DEF IInv, PlanInv
<1>5. CASE deletePod \/ LosePod
  BY <1>5, GoneAchieved DEF deletePod, LosePod
<1>6. CASE UNCHANGED <<secret, agent>>
  BY <1>6 DEF IInv, PlanInv
<1>7. QED
  BY <1>2, <1>3, <1>4, <1>5, <1>6
  DEF Next, Probe, Hook, Agent, ReadHealthFile, ReadAutomationConfigVersionFromSecret,
      PatchPodAnnotation, ProbeCallFails, waitForAgentHealthStatus, deletePodFails,
      AgentStopsMongod, AgentDumps, MongodStarts, ChangeTemplate, CreatePod,
      OthersDown, OthersUp, probeEnv, hookEnv, agentEnv, podState, operator, vars

\* What the probe takes for a wait was one when the file was dumped.
LEMMA WaitingNext == IInv /\ [Next]_vars => WaitingInv'
<1> SUFFICES ASSUME IInv, [Next]_vars PROVE WaitingInv'
  OBVIOUS
<1>1. CASE ReadHealthFile /\ file # None
  <2>1. /\ probe'.pc = "target" /\ probe'.health = [file EXCEPT !.change = FALSE]
        /\ file' = file /\ alone' = [alone EXCEPT !.probe = alone.file]
    BY <1>1 DEF ReadHealthFile, IInv, TypeOK, Probes, probeEnv
  <2>2. probe'.health.waiting = file.waiting
    BY <1>1, <2>1 DEF IInv, TypeOK, Health
  <2>3. alone'.file = alone.file /\ alone'.probe = alone.file
    BY <2>1 DEF IInv, TypeOK
  <2>4. QED
    BY <1>1, <2>1, <2>2, <2>3 DEF IInv, WaitingInv
<1>2. CASE ReadAutomationConfigVersionFromSecret
  <2>1. PICK old \in BOOLEAN :
          probe' = [pc |-> "patch", health |-> None, target |-> secret.version,
                    current |-> readCurrentAgentInfo(probe.health, secret.version),
                    outcome |-> isPodReady(probe.health, secret.version, old)]
    BY <1>2 DEF ReadAutomationConfigVersionFromSecret
  <2>2. probe.health \in Health /\ secret.version \in 0..MaxConfigs
    BY <1>2, BoundsAssumption
    DEF ReadAutomationConfigVersionFromSecret, IInv, Present, TypeOK, Probes, Configs
  <2>3. probe'.pc = "patch" /\ (probe'.outcome = "deadlock" => probe.health.waiting)
    BY <2>1, <2>2, PlansDecide
  <2>4. QED
    BY <1>2, <2>3 DEF ReadAutomationConfigVersionFromSecret, IInv, WaitingInv, probeEnv
<1>3. CASE PatchPodAnnotation \/ ProbeCallFails \/ (ReadHealthFile /\ file = None)
  <2>1. probe'.pc = "idle" /\ file' = file /\ alone' = [alone EXCEPT !.probe = FALSE]
    BY <1>3 DEF PatchPodAnnotation, ProbeCallFails, ReadHealthFile, ProbeResult, NoProbe, probeEnv
  <2>2. alone'.file = alone.file
    BY <2>1 DEF IInv, TypeOK
  <2>3. QED
    BY <2>1, <2>2 DEF IInv, WaitingInv
<1>4. CASE AgentDumps
  <2>1. PICK serving : file' = Snapshot(serving)
    BY <1>4 DEF AgentDumps
  <2>2. file'.waiting => ~others /\ InConfig /\ agent.last < agent.cfg.version
    BY <2>1 DEF Snapshot, IInv, PlanInv
  <2>3. /\ alone'.file = (~others /\ InConfig /\ agent.last < agent.cfg.version)
        /\ alone'.probe = alone.probe
    BY <1>4 DEF AgentDumps, IInv, TypeOK
  <2>4. QED
    BY <1>4, <2>2, <2>3 DEF AgentDumps, IInv, WaitingInv, agentEnv
<1>5. CASE deletePod \/ LosePod
  BY <1>5, GoneAchieved DEF deletePod, LosePod
<1>6. CASE UNCHANGED <<file, probe, alone>>
  BY <1>6 DEF IInv, WaitingInv
<1>7. QED
  BY <1>1, <1>2, <1>3, <1>4, <1>5, <1>6
  DEF Next, Probe, Hook, Agent, waitForAgentHealthStatus, deletePodFails, AgentLoads,
      AgentReachesGoal, AgentStopsMongod, MongodStarts, ChangeTemplate, PublishConfig,
      CreatePod, OthersDown, OthersUp, hookEnv, agentEnv, podState, vars

\* The invariant is inductive.
LEMMA Inductive == Spec => []IInv
<1>1. IInv /\ [Next]_vars => IInv'
  BY TypeNext, PresentNext, FreshNext, OrderNext, AchievedNext, PlanNext, WaitingNext DEF IInv
<1>2. QED
  BY <1>1, IInvInit, PTL DEF Spec

-----------------------------------------------------------------------------
(* The theorems *)

\* Every variable of the pod keeps its type: in particular the hook stops polling
\* (waitForAgentHealthStatus).
THEOREM TypeCorrect == Spec => []TypeOK
<1>1. IInv => TypeOK
  BY DEF IInv
<1>2. QED
  BY <1>1, Inductive, PTL

\* The annotation that the operator waits for (ReachedGoalState) never names a
\* config that the agent of a pod that stayed in the config has not applied.
THEOREM AnnotationBacked == Spec => []AnnotationAchieved
<1>1. IInv => AnnotationAchieved
  BY DEF IInv, AchievedInv, AnnotationAchieved
<1>2. QED
  BY <1>1, Inductive, PTL

\* The probe makes such a pod ready before the agent is at the config it was
\* compared with only on a file that was dumped while other members were down, for
\* any number of configs and faults (isPodReady, hasDeadlockedSteps).
THEOREM ReadyJustified == Spec => ReadyAtGoalOrWaiting
<1> DEFINE A == stayed /\ pod'.ready /\ ~pod.ready /\ agent.last < probe.target => alone.probe
<1>1. IInv /\ [Next]_vars => [A]_vars
  <2> SUFFICES ASSUME IInv, Next, stayed, pod'.ready, ~pod.ready, agent.last < probe.target
              PROVE  alone.probe
    BY DEF vars
  <2>1. CASE PatchPodAnnotation
    <3>1. /\ probe.pc = "patch" /\ probe.current <= agent.last
          /\ probe.outcome = "goal" => probe.current = probe.target
          /\ probe.outcome = "deadlock" => alone.probe
      BY <2>1 DEF PatchPodAnnotation, IInv, AchievedInv, WaitingInv
    <3>2. probe.outcome # "unready"
      BY <2>1 DEF PatchPodAnnotation, ProbeResult, IInv, TypeOK, Pods
    <3>3. /\ probe.outcome \in {"goal", "deadlock", "unready"}
          /\ probe.target \in Int /\ agent.last \in Int
      BY DEF IInv, TypeOK, Probes, Agents
    <3>4. QED
      BY <3>1, <3>2, <3>3
  <2>2. CASE ReadHealthFile \/ ProbeCallFails
    <3>1. CASE UNCHANGED pod
      BY <3>1
    <3>2. CASE ProbeResult(FALSE, pod.version)
      <4>1. PICK r \in {pod.ready, FALSE} : pod' = [pod EXCEPT !.version = pod.version, !.ready = r]
        BY <3>2 DEF ProbeResult
      <4>2. pod'.ready = r
        BY <4>1 DEF IInv, TypeOK, Pods
      <4>3. QED
        BY <4>2
    <3>3. QED
      BY <2>2, <3>1, <3>2 DEF ReadHealthFile, ProbeCallFails
  <2>3. CASE deletePod \/ LosePod \/ CreatePod
    <3>1. NoPod.ready = FALSE /\ [NoPod EXCEPT !.up = TRUE, !.image = template].ready = FALSE
      BY DEF NoPod
    <3>2. \/ pod' = NoPod
          \/ pod' = [NoPod EXCEPT !.up = TRUE, !.image = template]
      BY <2>3 DEF deletePod, LosePod, PodGone, CreatePod
    <3>3. QED
      BY <3>1, <3>2, Zenon
  <2>4. CASE UNCHANGED pod
    BY <2>4
  <2>5. QED
    BY <2>1, <2>2, <2>3, <2>4
    DEF Next, Probe, Hook, Agent, ReadAutomationConfigVersionFromSecret,
        waitForAgentHealthStatus, deletePodFails, AgentLoads, AgentReachesGoal,
        AgentStopsMongod, AgentDumps, MongodStarts, ChangeTemplate, PublishConfig,
        OthersDown, OthersUp, agentEnv, podState
<1>2. QED
  BY <1>1, Inductive, PTL DEF Spec, ReadyAtGoalOrWaiting
=============================================================================
