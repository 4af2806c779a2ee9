---------------------- MODULE StatefulSetBuilder_proofs ----------------------
(***************************************************************************)
(* What StatefulSetBuilder promises, for every set of overrides, versions, *)
(* releases and every number of edits.                                     *)
(*                                                                         *)
(* The lemmas of Merge_proofs say what the merges do when they are done    *)
(* twice.  The first part here says what one build makes of the set it     *)
(* starts from (IsBuilt), the second compares a build with a build from    *)
(* nothing, and the last one reads the properties off one invariant: a     *)
(* written set is a build, of the resource and release it is recorded for, *)
(* from some well-formed set.                                              *)
(***************************************************************************)
EXTENDS StatefulSetBuilder, Merge_proofs

USE Zenon

-----------------------------------------------------------------------------
(* The containers of a template *)

\* The containers with the operator's plan for each it knows.
Planned(cs, plan) ==
  [k \in DOMAIN cs \cup DOMAIN plan |->
     IF k \in DOMAIN plan THEN Overlaid(At(cs, k), plan[k]) ELSE cs[k]]

\* A planned container is overlaid with a plan.
LEMMA PlannedAt ==
  ASSUME NEW cs, ContainersTyped(cs), NEW plan, PlansTyped(plan),
         NEW k \in DOMAIN cs \cup DOMAIN plan
  PROVE  \E c, p : /\ ContainerTyped(c) /\ PlanTyped(p)
                   /\ p = IF k \in DOMAIN plan THEN plan[k] ELSE NoPlan
                   /\ c = At(cs, k)
                   /\ Planned(cs, plan)[k] = Overlaid(c, p)
<1>1. ContainerTyped(At(cs, k))
  BY EmptyContainerTyped DEF At, ContainersTyped
<1>2. CASE k \in DOMAIN plan
  BY <1>1, <1>2 DEF Planned, PlansTyped
<1>3. CASE k \notin DOMAIN plan
  BY <1>1, <1>3, OverlaidNothing DEF Planned, At
<1>4. QED
  BY <1>2, <1>3

\* Planning and merging again changes nothing.
LEMMA ContainersTwice ==
  ASSUME NEW cs, ContainersTyped(cs), NEW plan, PlansTyped(plan),
         NEW o, ContainersTyped(o), NEW first, first = Containers(Planned(cs, plan), o)
  PROVE  /\ ContainersTyped(first)
         /\ OneSources(o) => Containers(Planned(first, plan), o) = first
<1> DEFINE D == DOMAIN cs \cup DOMAIN plan
<1>1. /\ DOMAIN Planned(cs, plan) = D
      /\ DOMAIN first = D \cup DOMAIN o
      /\ IsMap(first)
  BY DEF Planned, Containers, ByKey, IsMap
<1>2. \A k \in D \cup DOMAIN o :
        first[k] = IF k \notin DOMAIN o THEN Planned(cs, plan)[k]
                   ELSE IF k \notin D THEN o[k] ELSE Container(Planned(cs, plan)[k], o[k])
  BY <1>1 DEF Containers, ByKey
<1>3. PICK again : again = Containers(Planned(first, plan), o)
  OBVIOUS
<1>4. /\ DOMAIN again = D \cup DOMAIN o
      /\ IsMap(again)
      /\ \A k \in D \cup DOMAIN o :
            LET c == IF k \in DOMAIN plan THEN Overlaid(first[k], plan[k]) ELSE first[k]
            IN  again[k] = IF k \notin DOMAIN o THEN c ELSE Container(c, o[k])
  BY <1>1, <1>3 DEF Planned, Containers, ByKey, IsMap, At
<1>5. ASSUME NEW k \in D \cup DOMAIN o
      PROVE  ContainerTyped(first[k]) /\ (OneSources(o) => again[k] = first[k])
  <2>1. CASE k \notin D
    <3>1. k \in DOMAIN o /\ first[k] = o[k] /\ ContainerTyped(o[k]) /\ again[k] = Container(o[k], o[k])
      BY <1>2, <1>4, <2>1 DEF ContainersTyped
    <3>2. QED
      BY <3>1, ContainerSelf DEF OneSources
  <2>2. CASE k \in D
    <3>1. PICK c, p : /\ ContainerTyped(c) /\ PlanTyped(p)
                      /\ p = IF k \in DOMAIN plan THEN plan[k] ELSE NoPlan
                      /\ Planned(cs, plan)[k] = Overlaid(c, p)
      BY SMT, <2>2, PlannedAt
    <3>2. CASE k \notin DOMAIN o
      <4>1. first[k] = Overlaid(c, p)
        BY <1>2, <3>1, <3>2
      <4>2. ContainerTyped(first[k])
        BY <3>1, <4>1, OverlaidTyped
      <4>3. again[k] = Overlaid(first[k], p)
        BY <1>4, <3>1, <3>2, <4>2, OverlaidNothing
      <4>4. QED
        BY <4>1, <4>2, <4>3, OverlaidTwice
    <3>3. CASE k \in DOMAIN o
      <4>1. first[k] = Container(Overlaid(c, p), o[k]) /\ ContainerTyped(o[k])
        BY <1>2, <2>2, <3>1, <3>3 DEF ContainersTyped
      <4>2. ContainerTyped(first[k])
        BY <3>1, <4>1, OverlaidTyped, MergedTyped
      <4>3. again[k] = Container(Overlaid(first[k], p), o[k])
        BY <1>4, <3>1, <3>3, <4>2, OverlaidNothing
      <4>4. QED
        BY SMT, <3>1, <3>3, <4>1, <4>2, <4>3, ContainerTwice DEF OneSources
    <3>4. QED
      BY <3>2, <3>3
  <2>3. QED
    BY <2>1, <2>2
<1>6. ContainersTyped(first)
  BY <1>1, <1>5 DEF ContainersTyped
<1>7. OneSources(o) => again = first
  BY <1>1, <1>4, <1>5, MapEqual
<1>8. QED
  BY <1>3, <1>6, <1>7

-----------------------------------------------------------------------------
(* The operator's plans *)

\* What the operator does to its containers; extra are the mounts of TLS.
AgentPlan(rel, extra) ==
  [fields    |-> [image |-> <<"agent", rel>>, imagePullPolicy |-> "Always"],
   env       |-> AgentEnvs,
   mounts    |-> StringToStringMap(AgentMounts, extra),
   readiness |-> DefaultReadiness,
   own       |-> IF Managed
                 THEN [command |-> <<"bash", "-c", "agent">>, resources |-> DefaultResources]
                 ELSE [command |-> <<"bash", "-c", "agent">>, resources |-> DefaultResources,
                       security |-> DefaultSecurityContext]]

MongodPlan(version, extra) ==
  [fields    |-> [image |-> getMongoDBImage(version)],
   env       |-> MongodEnvs,
   mounts    |-> StringToStringMap(MongodMounts, extra),
   readiness |-> Empty,
   own       |-> IF Managed
                 THEN [command |-> <<"sh", "-c", "hook; mongod">>, resources |-> DefaultResources]
                 ELSE [command |-> <<"sh", "-c", "hook; mongod">>, resources |-> DefaultResources,
                       security |-> DefaultSecurityContext]]

HookPlan(rel) ==
  [fields    |-> [image |-> <<"hook", rel>>, imagePullPolicy |-> "Always"],
   env       |-> Empty,
   mounts    |-> [m \in {<<"hooks", "/hooks">>} |-> Empty],
   readiness |-> Empty,
   own       |-> [command |-> <<"cp", "version-upgrade-hook">>]]

ProbePlan(rel) ==
  [fields    |-> [image |-> <<"probe", rel>>, imagePullPolicy |-> "Always"],
   env       |-> Empty,
   mounts    |-> [m \in {<<"agent-scripts", "/opt/scripts">>} |-> Empty],
   readiness |-> Empty,
   own       |-> [command |-> <<"cp", "readinessprobe">>]]

\* The modifications one by one.
LEMMA Modifications ==
  ASSUME NEW a, Shaped(a), NEW x
  PROVE  /\ SameBut(a, WithMounts(a, x), {"mounts"})
         /\ WithMounts(a, x).mounts = StringToStringMap(a.mounts, x)
         /\ SameBut(a, WithEnvs(a, x), {"env"})
         /\ WithEnvs(a, x).env = StringToStringMap(a.env, x)
         /\ SameBut(a, WithSecurityContext(a), {"security"})
         /\ WithSecurityContext(a).security =
              IF Managed THEN a.security ELSE DefaultSecurityContext
<1>1. {"mounts", "env", "security"} \subseteq DOMAIN a
  BY DEF Shaped, EmptyContainer
<1>2. PICK y : y = StringToStringMap(a.mounts, x)
  OBVIOUS
<1>3. WithMounts(a, x) = [a EXCEPT !.mounts = y]
  BY <1>1, <1>2 DEF WithMounts
<1>4. SameBut(a, WithMounts(a, x), {"mounts"}) /\ WithMounts(a, x).mounts = y
  BY <1>1, <1>3 DEF SameBut, Shaped, IsMap
<1>5. PICK z : z = StringToStringMap(a.env, x)
  OBVIOUS
<1>6. WithEnvs(a, x) = [a EXCEPT !.env = z]
  BY <1>1, <1>5 DEF WithEnvs, MergeWithOverride
<1>7. SameBut(a, WithEnvs(a, x), {"env"}) /\ WithEnvs(a, x).env = z
  BY <1>1, <1>6 DEF SameBut, Shaped, IsMap
<1>8. /\ SameBut(a, WithSecurityContext(a), {"security"})
      /\ WithSecurityContext(a).security =
           IF Managed THEN a.security ELSE DefaultSecurityContext
  BY <1>1 DEF WithSecurityContext, SameBut, Shaped, IsMap
<1>9. QED
  BY <1>2, <1>4, <1>5, <1>7, <1>8

\* The modifications of the agent's container and of mongod's.
LEMMA Modified ==
  ASSUME NEW a, Shaped(a), NEW mounts, NEW envs,
         NEW b, b = WithSecurityContext(WithEnvs(WithMounts(a, mounts), envs)),
         NEW d, d = WithMounts(b, TLSMounts)
  PROVE  /\ SameBut(a, b, {"mounts", "env", "security"})
         /\ SameBut(a, d, {"mounts", "env", "security"})
         /\ b.mounts = StringToStringMap(a.mounts, mounts)
         /\ d.mounts = StringToStringMap(b.mounts, TLSMounts)
         /\ b.env = StringToStringMap(a.env, envs) /\ d.env = b.env
         /\ b.security = (IF Managed THEN a.security ELSE DefaultSecurityContext)
         /\ d.security = b.security
<1>1. PICK x : x = WithMounts(a, mounts)
  OBVIOUS
<1>2. SameBut(a, x, {"mounts"}) /\ x.mounts = StringToStringMap(a.mounts, mounts)
  BY <1>1, Modifications
<1>3. PICK y : y = WithEnvs(x, envs)
  OBVIOUS
<1>4. SameBut(x, y, {"env"}) /\ y.env = StringToStringMap(x.env, envs)
  BY SMT, <1>2, <1>3, Modifications DEF SameBut
<1>5. b = WithSecurityContext(y)
  BY <1>1, <1>3
<1>6. /\ SameBut(y, b, {"security"})
      /\ b.security = IF Managed THEN y.security ELSE DefaultSecurityContext
  BY SMT, <1>4, <1>5, Modifications DEF SameBut
<1>7. SameBut(b, d, {"mounts"}) /\ d.mounts = StringToStringMap(b.mounts, TLSMounts)
  BY SMT, <1>6, Modifications DEF SameBut
<1>8. QED
  BY SMT, <1>2, <1>4, <1>6, <1>7 DEF SameBut, EmptyContainer

\* The modifications carry out the plans.
LEMMA AgentPlanned ==
  ASSUME NEW c, Shaped(c), NEW rel
  PROVE  /\ mongodbAgentContainer(c, rel) = Overlaid(c, AgentPlan(rel, Empty))
         /\ WithMounts(mongodbAgentContainer(c, rel), TLSMounts)
              = Overlaid(c, AgentPlan(rel, TLSMounts))
<1>1. PICK f, r : /\ f = Fields(c.fields, [image |-> <<"agent", rel>>, imagePullPolicy |-> "Always"])
                  /\ r = Fields(c.readiness, DefaultReadiness)
  OBVIOUS
<1>2. PICK a : a = [c EXCEPT !.fields = f, !.readiness = r, !.resources = DefaultResources,
                             !.command = <<"bash", "-c", "agent">>]
  OBVIOUS
<1>3. /\ SameBut(c, a, {"fields", "readiness", "resources", "command"})
      /\ a.fields = f /\ a.readiness = r /\ a.resources = DefaultResources
      /\ a.command = <<"bash", "-c", "agent">>
  <2>1. {"fields", "readiness", "resources", "command"} \subseteq DOMAIN c
    BY DEF Shaped, EmptyContainer
  <2>2. QED
    BY ZenonT(30), <1>2, <2>1 DEF SameBut, Shaped, IsMap
<1>4. PICK b : b = WithSecurityContext(WithEnvs(WithMounts(a, AgentMounts), AgentEnvs))
  OBVIOUS
<1>5. b = mongodbAgentContainer(c, rel)
  BY <1>1, <1>2, <1>4 DEF mongodbAgentContainer, Shaped, EmptyContainer
<1>6. PICK d : d = WithMounts(b, TLSMounts)
  OBVIOUS
<1>7. /\ SameBut(a, b, {"mounts", "env", "security"})
      /\ SameBut(a, d, {"mounts", "env", "security"})
      /\ b.mounts = StringToStringMap(a.mounts, AgentMounts)
      /\ d.mounts = StringToStringMap(b.mounts, TLSMounts)
      /\ b.env = StringToStringMap(a.env, AgentEnvs) /\ d.env = b.env
      /\ b.security = (IF Managed THEN a.security ELSE DefaultSecurityContext)
      /\ d.security = b.security
  <2>1. Shaped(a)
    BY <1>3 DEF SameBut
  <2>2. QED
    BY SMT, <1>4, <1>6, <2>1, Modified
<1>8. PICK p, q : p = AgentPlan(rel, Empty) /\ q = AgentPlan(rel, TLSMounts)
  OBVIOUS
<1>9. /\ b.mounts = StringToStringMap(c.mounts, p.mounts)
      /\ d.mounts = StringToStringMap(c.mounts, q.mounts)
  <2>1. a.mounts = c.mounts
    BY <1>3 DEF SameBut, EmptyContainer
  <2>2. /\ p.mounts = StringToStringMap(AgentMounts, Empty)
        /\ q.mounts = StringToStringMap(AgentMounts, TLSMounts)
    BY <1>8 DEF AgentPlan
  <2>3. QED
    BY SMT, <1>7, <2>1, <2>2, OverlayRounds
<1>10. b = Overlaid(c, p)
  <2>1. /\ Shaped(b) /\ b.fields = f /\ b.command = <<"bash", "-c", "agent">>
        /\ b.readiness = r /\ b.resources = DefaultResources
        /\ b.env = StringToStringMap(c.env, AgentEnvs)
        /\ b.security = (IF Managed THEN c.security ELSE DefaultSecurityContext)
        /\ \A i \in {"args", "ports", "devices", "liveness", "startup", "lifecycle"} : b[i] = c[i]
    BY <1>3, <1>7 DEF SameBut, EmptyContainer
  <2>2. /\ p.fields = [image |-> <<"agent", rel>>, imagePullPolicy |-> "Always"]
        /\ p.env = AgentEnvs /\ p.readiness = DefaultReadiness
    BY <1>8 DEF AgentPlan
  <2>3. /\ "command" \in DOMAIN p.own /\ p.own.command = <<"bash", "-c", "agent">>
        /\ "resources" \in DOMAIN p.own /\ p.own.resources = DefaultResources
        /\ "security" \in DOMAIN p.own <=> ~Managed
        /\ ~Managed => p.own.security = DefaultSecurityContext
    BY <1>8 DEF AgentPlan
  <2>4. b.security = (IF "security" \in DOMAIN p.own THEN p.own.security ELSE c.security)
    BY <2>1, <2>3
  <2>5. QED
    BY <1>1, <1>9, <2>1, <2>2, <2>3, <2>4, IsOverlaid
<1>11. d = Overlaid(c, q)
  <2>1. /\ Shaped(d) /\ d.fields = f /\ d.command = <<"bash", "-c", "agent">>
        /\ d.readiness = r /\ d.resources = DefaultResources
        /\ d.env = StringToStringMap(c.env, AgentEnvs)
        /\ d.security = (IF Managed THEN c.security ELSE DefaultSecurityContext)
        /\ \A i \in {"args", "ports", "devices", "liveness", "startup", "lifecycle"} : d[i] = c[i]
    BY <1>3, <1>7 DEF SameBut, EmptyContainer
  <2>2. /\ q.fields = [image |-> <<"agent", rel>>, imagePullPolicy |-> "Always"]
        /\ q.env = AgentEnvs /\ q.readiness = DefaultReadiness
    BY <1>8 DEF AgentPlan
  <2>3. /\ "command" \in DOMAIN q.own /\ q.own.command = <<"bash", "-c", "agent">>
        /\ "resources" \in DOMAIN q.own /\ q.own.resources = DefaultResources
        /\ "security" \in DOMAIN q.own <=> ~Managed
        /\ ~Managed => q.own.security = DefaultSecurityContext
    BY <1>8 DEF AgentPlan
  <2>4. d.security = (IF "security" \in DOMAIN q.own THEN q.own.security ELSE c.security)
    BY <2>1, <2>3
  <2>5. QED
    BY <1>1, <1>9, <2>1, <2>2, <2>3, <2>4, IsOverlaid
<1>12. QED
  BY <1>5, <1>6, <1>8, <1>10, <1>11

\* The modifications of the mongod container overlay its plan.
LEMMA MongodPlanned ==
  ASSUME NEW c, ContainerTyped(c), NEW version
  PROVE  /\ mongodbContainer(c, version) = Overlaid(c, MongodPlan(version, Empty))
         /\ WithMounts(mongodbContainer(c, version), TLSMounts)
              = Overlaid(c, MongodPlan(version, TLSMounts))
<1>0. Shaped(c) /\ c.readiness = Fields(c.readiness, Empty)
  BY MapAgain DEF ContainerTyped, Shaped, Fields
<1>1. PICK f : f = Fields(c.fields, [image |-> getMongoDBImage(version)])
  OBVIOUS
<1>2. PICK a : a = [c EXCEPT !.fields = f, !.resources = DefaultResources,
                             !.command = <<"sh", "-c", "hook; mongod">>]
  OBVIOUS
<1>3. /\ SameBut(c, a, {"fields", "resources", "command"})
      /\ a.fields = f /\ a.resources = DefaultResources
      /\ a.command = <<"sh", "-c", "hook; mongod">>
  <2>1. {"fields", "resources", "command"} \subseteq DOMAIN c
    BY <1>0 DEF Shaped, EmptyContainer
  <2>2. QED
    BY <1>0, <1>2, <2>1 DEF SameBut, Shaped, IsMap
<1>4. PICK b : b = WithSecurityContext(WithEnvs(WithMounts(a, MongodMounts), MongodEnvs))
  OBVIOUS
<1>5. b = mongodbContainer(c, version)
  BY <1>0, <1>1, <1>2, <1>4 DEF mongodbContainer, Shaped, EmptyContainer
<1>6. PICK d : d = WithMounts(b, TLSMounts)
  OBVIOUS
<1>7. /\ SameBut(a, b, {"mounts", "env", "security"})
      /\ SameBut(a, d, {"mounts", "env", "security"})
      /\ b.mounts = StringToStringMap(a.mounts, MongodMounts)
      /\ d.mounts = StringToStringMap(b.mounts, TLSMounts)
      /\ b.env = StringToStringMap(a.env, MongodEnvs) /\ d.env = b.env
      /\ b.security = (IF Managed THEN a.security ELSE DefaultSecurityContext)
      /\ d.security = b.security
  <2>1. Shaped(a)
    BY <1>3 DEF SameBut
  <2>2. QED
    BY SMT, <1>4, <1>6, <2>1, Modified
<1>8. PICK p, q : p = MongodPlan(version, Empty) /\ q = MongodPlan(version, TLSMounts)
  OBVIOUS
<1>9. /\ b.mounts = StringToStringMap(c.mounts, p.mounts)
      /\ d.mounts = StringToStringMap(c.mounts, q.mounts)
  <2>1. a.mounts = c.mounts
    BY <1>3 DEF SameBut, EmptyContainer
  <2>2. /\ p.mounts = StringToStringMap(MongodMounts, Empty)
        /\ q.mounts = StringToStringMap(MongodMounts, TLSMounts)
    BY <1>8 DEF MongodPlan
  <2>3. QED
    BY SMT, <1>7, <2>1, <2>2, OverlayRounds
<1>10. b = Overlaid(c, p)
  <2>1. /\ Shaped(b) /\ b.fields = f /\ b.command = <<"sh", "-c", "hook; mongod">>
        /\ b.resources = DefaultResources /\ b.env = StringToStringMap(c.env, MongodEnvs)
        /\ b.security = (IF Managed THEN c.security ELSE DefaultSecurityContext)
        /\ \A x \in {"args", "ports", "devices", "liveness", "readiness", "startup", "lifecycle"} :
              b[x] = c[x]
    BY <1>3, <1>7 DEF SameBut, EmptyContainer
  <2>2. /\ p.fields = [image |-> getMongoDBImage(version)]
        /\ p.env = MongodEnvs /\ p.readiness = Empty
    BY <1>8 DEF MongodPlan
  <2>3. /\ "command" \in DOMAIN p.own /\ p.own.command = <<"sh", "-c", "hook; mongod">>
        /\ "resources" \in DOMAIN p.own /\ p.own.resources = DefaultResources
        /\ "security" \in DOMAIN p.own <=> ~Managed
        /\ ~Managed => p.own.security = DefaultSecurityContext
    BY <1>8 DEF MongodPlan
  <2>4. b.security = (IF "security" \in DOMAIN p.own THEN p.own.security ELSE c.security)
    BY <2>1, <2>3
  <2>5. b.readiness = Fields(c.readiness, p.readiness)
    BY <1>0, <2>1, <2>2
  <2>6. QED
    BY <1>1, <1>9, <2>1, <2>2, <2>3, <2>4, <2>5, IsOverlaid
<1>11. d = Overlaid(c, q)
  <2>1. /\ Shaped(d) /\ d.fields = f /\ d.command = <<"sh", "-c", "hook; mongod">>
        /\ d.resources = DefaultResources /\ d.env = StringToStringMap(c.env, MongodEnvs)
        /\ d.security = (IF Managed THEN c.security ELSE DefaultSecurityContext)
        /\ \A x \in {"args", "ports", "devices", "liveness", "readiness", "startup", "lifecycle"} :
              d[x] = c[x]
    BY <1>3, <1>7 DEF SameBut, EmptyContainer
  <2>2. /\ q.fields = [image |-> getMongoDBImage(version)]
        /\ q.env = MongodEnvs /\ q.readiness = Empty
    BY <1>8 DEF MongodPlan
  <2>3. /\ "command" \in DOMAIN q.own /\ q.own.command = <<"sh", "-c", "hook; mongod">>
        /\ "resources" \in DOMAIN q.own /\ q.own.resources = DefaultResources
        /\ "security" \in DOMAIN q.own <=> ~Managed
        /\ ~Managed => q.own.security = DefaultSecurityContext
    BY <1>8 DEF MongodPlan
  <2>4. d.security = (IF "security" \in DOMAIN q.own THEN q.own.security ELSE c.security)
    BY <2>1, <2>3
  <2>5. d.readiness = Fields(c.readiness, q.readiness)
    BY <1>0, <2>1, <2>2
  <2>6. QED
    BY <1>1, <1>9, <2>1, <2>2, <2>3, <2>4, <2>5, IsOverlaid
<1>12. QED
  BY <1>5, <1>6, <1>8, <1>10, <1>11

\* The modifications of an init container overlay a plan of an image, mounts and a command.
LEMMA InitPlanned ==
  ASSUME NEW c, ContainerTyped(c), NEW a, SameBut(c, a, {"fields", "command"}),
         NEW fields, a.fields = Fields(c.fields, fields), NEW mounts,
         NEW p, p.fields = fields, p.env = Empty, p.mounts = mounts, p.readiness = Empty,
         "command" \in DOMAIN p.own, p.own.command = a.command,
         "resources" \notin DOMAIN p.own, "security" \notin DOMAIN p.own
  PROVE  WithMounts(a, mounts) = Overlaid(c, p)
<1>1. /\ Shaped(a) /\ c.readiness = Fields(c.readiness, Empty)
      /\ c.env = StringToStringMap(c.env, Empty)
  BY MapAgain DEF ContainerTyped, SameBut, Fields, EnvTyped, AreMaps
<1>2. PICK b : b = WithMounts(a, mounts)
  OBVIOUS
<1>3. SameBut(a, b, {"mounts"}) /\ b.mounts = StringToStringMap(a.mounts, mounts)
  BY <1>1, <1>2, Modifications
<1>4. /\ Shaped(b) /\ b.fields = a.fields /\ b.command = a.command
      /\ b.mounts = StringToStringMap(c.mounts, mounts)
      /\ \A x \in DOMAIN EmptyContainer \ {"fields", "command", "mounts"} : b[x] = c[x]
  BY <1>3 DEF SameBut, EmptyContainer
<1>5. QED
  BY SMT, <1>1, <1>2, <1>4, IsOverlaid DEF EmptyContainer

\* The modifications of the two init containers overlay their plans.
LEMMA HookPlanned ==
  ASSUME NEW c, ContainerTyped(c), NEW rel
  PROVE  /\ versionUpgradeHookInit(c, rel) = Overlaid(c, HookPlan(rel))
         /\ readinessProbeInit(c, rel) = Overlaid(c, ProbePlan(rel))
<1>0. {"fields", "command"} \subseteq DOMAIN c /\ Shaped(c)
  BY DEF ContainerTyped, Shaped, EmptyContainer
<1>1. versionUpgradeHookInit(c, rel) = Overlaid(c, HookPlan(rel))
  <2>1. PICK f, a, w, p :
          /\ f = [image |-> <<"hook", rel>>, imagePullPolicy |-> "Always"]
          /\ a = <<"cp", "version-upgrade-hook">>
          /\ w = [m \in {<<"hooks", "/hooks">>} |-> Empty]
          /\ p = HookPlan(rel)
    OBVIOUS
  <2>2. PICK x, y : x = Fields(c.fields, f) /\ y = [c EXCEPT !.fields = x, !.command = a]
    OBVIOUS
  <2>3. versionUpgradeHookInit(c, rel) = WithMounts(y, w)
    BY <1>0, <2>1, <2>2 DEF versionUpgradeHookInit
  <2>4. SameBut(c, y, {"fields", "command"}) /\ y.fields = Fields(c.fields, f) /\ y.command = a
    BY ZenonT(30), <1>0, <2>2 DEF SameBut, Shaped, IsMap
  <2>5. /\ p.fields = f /\ p.env = Empty /\ p.mounts = w /\ p.readiness = Empty
        /\ "command" \in DOMAIN p.own /\ p.own.command = a
        /\ "resources" \notin DOMAIN p.own /\ "security" \notin DOMAIN p.own
    BY <2>1 DEF HookPlan
  <2>6. p = HookPlan(rel)
    BY <2>1
  <2>7. QED
    BY SMT, <2>3, <2>4, <2>5, <2>6, InitPlanned
<1>2. readinessProbeInit(c, rel) = Overlaid(c, ProbePlan(rel))
  <2>1. PICK f, a, w, p :
          /\ f = [image |-> <<"probe", rel>>, imagePullPolicy |-> "Always"]
          /\ a = <<"cp", "readinessprobe">>
          /\ w = [m \in {<<"agent-scripts", "/opt/scripts">>} |-> Empty]
          /\ p = ProbePlan(rel)
    OBVIOUS
  <2>2. PICK x, y : x = Fields(c.fields, f) /\ y = [c EXCEPT !.fields = x, !.command = a]
    OBVIOUS
  <2>3. readinessProbeInit(c, rel) = WithMounts(y, w)
    BY <1>0, <2>1, <2>2 DEF readinessProbeInit
  <2>4. SameBut(c, y, {"fields", "command"}) /\ y.fields = Fields(c.fields, f) /\ y.command = a
    BY <1>0, <2>2 DEF SameBut, Shaped, IsMap
  <2>5. /\ p.fields = f /\ p.env = Empty /\ p.mounts = w /\ p.readiness = Empty
        /\ "command" \in DOMAIN p.own /\ p.own.command = a
        /\ "resources" \notin DOMAIN p.own /\ "security" \notin DOMAIN p.own
    BY <2>1 DEF ProbePlan
  <2>6. p = ProbePlan(rel)
    BY <2>1
  <2>7. QED
    BY SMT, <2>3, <2>4, <2>5, <2>6, InitPlanned
<1>3. QED
  BY <1>1, <1>2

\* The plans for the containers and the init containers of a template.
Extra(m) == IF m.tls THEN TLSMounts ELSE Empty

Plans(m, rel) ==
  [k \in {AgentName, MongodbName} |->
     IF k = AgentName THEN AgentPlan(rel, Extra(m)) ELSE MongodPlan(m.version, Extra(m))]

InitPlans(rel) ==
  [k \in {versionUpgradeHookName, ReadinessProbeContainerName} |->
     IF k = versionUpgradeHookName THEN HookPlan(rel) ELSE ProbePlan(rel)]

\* They are well-formed, and give a variable one source.
LEMMA PlansFormed ==
  ASSUME NEW m, NEW rel
  PROVE  /\ PlansTyped(Plans(m, rel)) /\ PlansTyped(InitPlans(rel))
         /\ \A k \in DOMAIN Plans(m, rel) : OneSource(Plans(m, rel)[k].env)
         /\ \A k \in DOMAIN InitPlans(rel) : OneSource(InitPlans(rel)[k].env)
<1>1. EnvTyped(AgentEnvs) /\ OneSource(AgentEnvs) /\ EnvTyped(MongodEnvs) /\ OneSource(MongodEnvs)
  BY SMT DEF EnvTyped, AreMaps, IsMap, OneSource, AgentEnvs, MongodEnvs
<1>2. EnvTyped(Empty) /\ OneSource(Empty)
  BY EmptyTyped DEF EnvTyped, OneSource
<1>3. AreMaps(TLSMounts) /\ AreMaps(AgentMounts) /\ AreMaps(MongodMounts) /\ AreMaps(Empty)
  <2>1. IsMap(ReadOnly) /\ IsMap(Empty) /\ AreMaps(Empty)
    BY EmptyTyped DEF ReadOnly, IsMap
  <2>2. IsMap(TLSMounts) /\ IsMap(AgentMounts) /\ IsMap(MongodMounts)
    BY DEF TLSMounts, AgentMounts, MongodMounts, IsMap
  <2>3. QED
    BY <2>1, <2>2 DEF AreMaps, TLSMounts, AgentMounts, MongodMounts
<1>4. /\ AreMaps(StringToStringMap(AgentMounts, Extra(m)))
      /\ AreMaps(StringToStringMap(MongodMounts, Extra(m)))
  BY <1>3, EntriesTyped DEF Extra
<1>5. IsMap(DefaultResources) /\ IsMap(DefaultSecurityContext)
  BY DEF DefaultResources, DefaultSecurityContext, IsMap
<1>6. /\ IsSlice(<<"bash", "-c", "agent">>) /\ IsSlice(<<"sh", "-c", "hook; mongod">>)
      /\ IsSlice(<<"cp", "version-upgrade-hook">>) /\ IsSlice(<<"cp", "readinessprobe">>)
  BY SliceLiteral
<1>7. PlanTyped(AgentPlan(rel, Extra(m))) /\ PlanTyped(MongodPlan(m.version, Extra(m)))
  BY <1>1, <1>4, <1>5, <1>6 DEF PlanTyped, AgentPlan, MongodPlan
<1>8. PlanTyped(HookPlan(rel)) /\ PlanTyped(ProbePlan(rel))
  <2>1. ASSUME NEW n PROVE AreMaps([x \in {n} |-> Empty])
    BY EmptyTyped DEF AreMaps, IsMap
  <2>2. QED
    BY <1>2, <1>6, <2>1 DEF PlanTyped, HookPlan, ProbePlan
<1>9. PlansTyped(Plans(m, rel)) /\ PlansTyped(InitPlans(rel))
  BY <1>7, <1>8 DEF PlansTyped, Plans, InitPlans
<1>10. /\ \A k \in DOMAIN Plans(m, rel) : OneSource(Plans(m, rel)[k].env)
       /\ \A k \in DOMAIN InitPlans(rel) : OneSource(InitPlans(rel)[k].env)
  BY <1>1, <1>2 DEF Plans, InitPlans, AgentPlan, MongodPlan, HookPlan, ProbePlan
<1>11. QED
  BY <1>9, <1>10

-----------------------------------------------------------------------------
(* The operator's part of a template *)

\* Replacing or adding two containers by their overlaid forms.
LEMMA TwoPlanned ==
  ASSUME NEW cs, IsMap(cs), NEW j, NEW k, j # k, NEW plan, DOMAIN plan = {j, k},
         NEW c, c = Overlaid(At(cs, j), plan[j]), NEW d, d = Overlaid(At(cs, k), plan[k])
  PROVE  WithContainer(WithContainer(cs, j, c), k, d) = Planned(cs, plan)
BY DEF WithContainer, Planned

\* The same two containers modified once more.
LEMMA TwoAgain ==
  ASSUME NEW cs, IsMap(cs), NEW j, NEW k, j # k, NEW plan, DOMAIN plan = {j, k},
         NEW more, DOMAIN more = {j, k},
         NEW new, IsMap(new), DOMAIN new = DOMAIN Planned(cs, plan),
         new[j] = Overlaid(At(cs, j), more[j]), new[k] = Overlaid(At(cs, k), more[k]),
         \A x \in DOMAIN new \ {j, k} : new[x] = Planned(cs, plan)[x]
  PROVE  new = Planned(cs, more)
BY DEF Planned, IsMap

\* The volumes the operator adds.
OperatorVolumes(m) ==
  IF m.tls THEN StringToStringMap(TLSVolumes(m.ca), Volumes0) ELSE Volumes0

\* The volumes of the operator are well-formed.
LEMMA OperatorVolumesTyped ==
  ASSUME NEW m
  PROVE  VolumesTyped(OperatorVolumes(m))
<1>1. ASSUME NEW v, VolumeTyped(v) PROVE /\ IsMap(v) /\ DOMAIN v = {"kind", "fields", "items"}
                                         /\ IsMap(v.fields) /\ AreMaps(v.items)
  BY <1>1 DEF VolumeTyped
<1>2. VolumeTyped(CreateVolumeFromEmptyDir)
  BY EmptyTyped DEF VolumeTyped, CreateVolumeFromEmptyDir, IsMap
<1>3. ASSUME NEW n PROVE VolumeTyped(CreateVolumeFromSecret(n)) /\ VolumeTyped(CreateVolumeFromConfigMap(n))
  BY EmptyTyped DEF VolumeTyped, CreateVolumeFromSecret, CreateVolumeFromConfigMap, IsMap
<1>4. IsMap(Volumes0) /\ \A k \in DOMAIN Volumes0 : VolumeTyped(Volumes0[k])
  BY <1>2, <1>3 DEF Volumes0, IsMap
<1>5. IsMap(TLSVolumes(m.ca)) /\ \A k \in DOMAIN TLSVolumes(m.ca) : VolumeTyped(TLSVolumes(m.ca)[k])
  BY <1>3 DEF TLSVolumes, IsMap
<1>6. IsMap(OperatorVolumes(m))
  BY <1>4, MapTyped DEF OperatorVolumes
<1>7. \A k \in DOMAIN OperatorVolumes(m) : VolumeTyped(OperatorVolumes(m)[k])
  BY <1>4, <1>5 DEF OperatorVolumes, StringToStringMap
<1>8. QED
  BY <1>1, <1>6, <1>7 DEF VolumesTyped

\* The parts of a template only the user writes.
UserParts == {"annotations", "ephemeral", "nodeSelector", "affinity", "tolerations",
              "hostAliases", "dnsConfig", "topology"}

\* d is t after the operator's modifications.
IsModified(t, d, m, rel) ==
  /\ d.labels = Labels
  /\ d.fields = Fields(t.fields, PodFields)
  /\ d.containers = Planned(t.containers, Plans(m, rel))
  /\ d.initContainers = Planned(t.initContainers, InitPlans(rel))
  /\ d.volumes = StringToStringMap(OperatorVolumes(m), t.volumes)
  /\ \A f \in UserParts : d[f] = t[f]

\* The container at a name is well-formed.
LEMMA AtTyped ==
  ASSUME NEW cs, ContainersTyped(cs), NEW k
  PROVE  ContainerTyped(At(cs, k)) /\ Shaped(At(cs, k))
BY EmptyContainerTyped DEF ContainersTyped, ContainerTyped, Shaped, At

\* The plans with and without TLS.
LEMMA PlansAre ==
  ASSUME NEW m, NEW rel
  PROVE  /\ AgentName # MongodbName /\ DOMAIN Plans(m, rel) = {AgentName, MongodbName}
         /\ Plans(m, rel)[AgentName] = AgentPlan(rel, Extra(m))
         /\ Plans(m, rel)[MongodbName] = MongodPlan(m.version, Extra(m))
         /\ versionUpgradeHookName # ReadinessProbeContainerName
         /\ DOMAIN InitPlans(rel) = {versionUpgradeHookName, ReadinessProbeContainerName}
         /\ InitPlans(rel)[versionUpgradeHookName] = HookPlan(rel)
         /\ InitPlans(rel)[ReadinessProbeContainerName] = ProbePlan(rel)
<1>1. AgentName # MongodbName
  BY DEF AgentName, MongodbName
<1>2. versionUpgradeHookName # ReadinessProbeContainerName
  BY DEF versionUpgradeHookName, ReadinessProbeContainerName
<1>3. QED
  BY <1>1, <1>2 DEF Plans, InitPlans

\* The modification without TLS: m's plans when it has none.
LEMMA PodTemplatePlanned ==
  ASSUME NEW t, TemplateTyped(t), NEW m, NEW rel,
         NEW plan, DOMAIN plan = {AgentName, MongodbName},
         plan[AgentName] = AgentPlan(rel, Empty),
         plan[MongodbName] = MongodPlan(m.version, Empty),
         NEW d, d = PodTemplate(t, m, rel)
  PROVE  /\ IsMap(d) /\ DOMAIN d = DOMAIN EmptyTemplate
         /\ d.labels = Labels
         /\ d.fields = Fields(t.fields, PodFields)
         /\ d.containers = Planned(t.containers, plan)
         /\ d.initContainers = Planned(t.initContainers, InitPlans(rel))
         /\ d.volumes = StringToStringMap(Volumes0, t.volumes)
         /\ \A f \in UserParts : d[f] = t[f]
<1>1. /\ IsMap(t) /\ DOMAIN t = DOMAIN EmptyTemplate
      /\ ContainersTyped(t.containers) /\ ContainersTyped(t.initContainers)
  BY DEF TemplateTyped
<1>2. PICK agent, mongod, hook, probe :
        /\ agent  = mongodbAgentContainer(At(t.containers, AgentName), rel)
        /\ mongod = mongodbContainer(At(t.containers, MongodbName), m.version)
        /\ hook = versionUpgradeHookInit(At(t.initContainers, versionUpgradeHookName), rel)
        /\ probe = readinessProbeInit(At(t.initContainers, ReadinessProbeContainerName), rel)
  OBVIOUS
<1>3. PICK f, cs, is :
        /\ f = Fields(t.fields, PodFields)
        /\ cs = WithContainer(WithContainer(t.containers, AgentName, agent), MongodbName, mongod)
        /\ is = WithContainer(WithContainer(t.initContainers, versionUpgradeHookName, hook),
                              ReadinessProbeContainerName, probe)
  OBVIOUS
<1>4. cs = Planned(t.containers, plan)
  <2>1. /\ agent = Overlaid(At(t.containers, AgentName), plan[AgentName])
        /\ mongod = Overlaid(At(t.containers, MongodbName), plan[MongodbName])
    BY <1>1, <1>2, AtTyped, AgentPlanned, MongodPlanned
  <2>2. IsMap(t.containers) /\ AgentName # MongodbName
    BY <1>1, PlansAre DEF ContainersTyped
  <2>3. WithContainer(WithContainer(t.containers, AgentName, agent), MongodbName, mongod)
          = Planned(t.containers, plan)
    BY SMT, <2>1, <2>2, TwoPlanned
  <2>4. QED
    BY <1>3, <2>3
<1>5. is = Planned(t.initContainers, InitPlans(rel))
  <2>1. /\ hook = Overlaid(At(t.initContainers, versionUpgradeHookName), HookPlan(rel))
        /\ probe = Overlaid(At(t.initContainers, ReadinessProbeContainerName), ProbePlan(rel))
    BY <1>1, <1>2, AtTyped, HookPlanned
  <2>2. PICK p : p = InitPlans(rel)
    OBVIOUS
  <2>3. /\ IsMap(t.initContainers) /\ versionUpgradeHookName # ReadinessProbeContainerName
        /\ DOMAIN p = {versionUpgradeHookName, ReadinessProbeContainerName}
        /\ p[versionUpgradeHookName] = HookPlan(rel)
        /\ p[ReadinessProbeContainerName] = ProbePlan(rel)
    BY <1>1, <2>2, PlansAre DEF ContainersTyped
  <2>4. WithContainer(WithContainer(t.initContainers, versionUpgradeHookName, hook),
                      ReadinessProbeContainerName, probe) = Planned(t.initContainers, p)
    BY SMT, <2>1, <2>3, TwoPlanned
  <2>5. QED
    BY <1>3, <2>2, <2>4
<1>6. {"fields", "labels", "containers", "initContainers", "volumes"} \cup UserParts = DOMAIN t
  BY <1>1 DEF EmptyTemplate, UserParts
<1>7. PICK u : u = [t EXCEPT !.fields = f, !.labels = Labels, !.containers = cs,
                             !.initContainers = is]
  OBVIOUS
<1>8. d = WithVolumes(u, Volumes0)
  BY <1>2, <1>3, <1>6, <1>7 DEF PodTemplate
<1>9. /\ IsMap(u) /\ DOMAIN u = DOMAIN t /\ u.fields = f /\ u.labels = Labels
      /\ u.containers = cs /\ u.initContainers = is
      /\ u.volumes = t.volumes /\ \A x \in UserParts : u[x] = t[x]
  BY <1>1, <1>6, <1>7 DEF UserParts, IsMap
<1>10. PICK v : v = StringToStringMap(Volumes0, u.volumes)
  OBVIOUS
<1>11. d = [u EXCEPT !.volumes = v]
  BY <1>8, <1>9, <1>10, <1>6 DEF WithVolumes
<1>12. /\ IsMap(d) /\ DOMAIN d = DOMAIN t /\ d.fields = f /\ d.labels = Labels
       /\ d.containers = cs /\ d.initContainers = is
       /\ d.volumes = v /\ \A x \in UserParts : d[x] = t[x]
  BY SMT, <1>6, <1>9, <1>11 DEF UserParts, IsMap
<1>13. QED
  BY <1>1, <1>3, <1>4, <1>5, <1>9, <1>10, <1>12

\* The whole modification.
LEMMA TemplateModified ==
  ASSUME NEW t, TemplateTyped(t), NEW m, NEW rel,
         NEW d, d = buildTLSPodSpecModification(PodTemplate(t, m, rel), m)
  PROVE  IsModified(t, d, m, rel)
<1>1. /\ AgentName # MongodbName /\ DOMAIN Plans(m, rel) = {AgentName, MongodbName}
      /\ Plans(m, rel)[AgentName] = AgentPlan(rel, Extra(m))
      /\ Plans(m, rel)[MongodbName] = MongodPlan(m.version, Extra(m))
  BY PlansAre
<1>2. PICK base : base = PodTemplate(t, m, rel)
  OBVIOUS
<1>3. CASE ~m.tls
  <2>1. Extra(m) = Empty /\ OperatorVolumes(m) = Volumes0
    BY <1>3 DEF Extra, OperatorVolumes
  <2>2. d = base
    BY <1>2, <1>3 DEF buildTLSPodSpecModification
  <2>3. /\ d.labels = Labels
        /\ d.fields = Fields(t.fields, PodFields)
        /\ d.containers = Planned(t.containers, Plans(m, rel))
        /\ d.initContainers = Planned(t.initContainers, InitPlans(rel))
        /\ d.volumes = StringToStringMap(Volumes0, t.volumes)
        /\ \A f \in UserParts : d[f] = t[f]
    BY SMT, <1>1, <1>2, <2>1, <2>2, PodTemplatePlanned
  <2>4. QED
    BY <2>1, <2>3 DEF IsModified
<1>4. CASE m.tls
  <2>1. Extra(m) = TLSMounts /\ OperatorVolumes(m) = StringToStringMap(TLSVolumes(m.ca), Volumes0)
    BY <1>4 DEF Extra, OperatorVolumes
  <2>2. PICK plan : plan = [k \in {AgentName, MongodbName} |->
                              IF k = AgentName THEN AgentPlan(rel, Empty)
                                               ELSE MongodPlan(m.version, Empty)]
    OBVIOUS
  <2>3. /\ DOMAIN plan = {AgentName, MongodbName} /\ plan[AgentName] = AgentPlan(rel, Empty)
        /\ plan[MongodbName] = MongodPlan(m.version, Empty)
    BY <1>1, <2>2
  <2>4. /\ IsMap(base) /\ DOMAIN base = DOMAIN EmptyTemplate
        /\ base.labels = Labels
        /\ base.fields = Fields(t.fields, PodFields)
        /\ base.containers = Planned(t.containers, plan)
        /\ base.initContainers = Planned(t.initContainers, InitPlans(rel))
        /\ base.volumes = StringToStringMap(Volumes0, t.volumes)
        /\ \A f \in UserParts : base[f] = t[f]
    BY SMT, <1>2, <2>3, PodTemplatePlanned
  <2>5. PICK agent, mongod : /\ agent = WithMounts(base.containers[AgentName], TLSMounts)
                             /\ mongod = WithMounts(base.containers[MongodbName], TLSMounts)
    OBVIOUS
  <2>6. IsMap(t.containers) /\ ContainersTyped(t.containers)
    BY DEF TemplateTyped, ContainersTyped
  <2>7. /\ agent = Overlaid(At(t.containers, AgentName), Plans(m, rel)[AgentName])
        /\ mongod = Overlaid(At(t.containers, MongodbName), Plans(m, rel)[MongodbName])
    <3>1. /\ base.containers[AgentName]
               = Overlaid(At(t.containers, AgentName), AgentPlan(rel, Empty))
          /\ base.containers[MongodbName]
               = Overlaid(At(t.containers, MongodbName), MongodPlan(m.version, Empty))
      BY <2>3, <2>4 DEF Planned
    <3>2. /\ ContainerTyped(At(t.containers, AgentName)) /\ Shaped(At(t.containers, AgentName))
          /\ ContainerTyped(At(t.containers, MongodbName))
      BY <2>6, AtTyped
    <3>3. QED
      BY SMT, <1>1, <2>1, <2>5, <3>1, <3>2, AgentPlanned, MongodPlanned
  <2>8. PICK cs : cs = [base.containers EXCEPT ![AgentName] = agent, ![MongodbName] = mongod]
    OBVIOUS
  <2>9. cs = Planned(t.containers, Plans(m, rel))
    <3>1. PICK more, old : more = Plans(m, rel) /\ old = t.containers
      OBVIOUS
    <3>2. /\ DOMAIN more = {AgentName, MongodbName} /\ IsMap(old)
          /\ agent = Overlaid(At(old, AgentName), more[AgentName])
          /\ mongod = Overlaid(At(old, MongodbName), more[MongodbName])
      BY <1>1, <2>6, <2>7, <3>1
    <3>3. DOMAIN plan = {AgentName, MongodbName} /\ AgentName # MongodbName
      BY <1>1, <2>3
    <3>4. base.containers = Planned(old, plan) /\ {AgentName, MongodbName} \subseteq DOMAIN base.containers
      BY <2>4, <3>1, <3>3 DEF Planned
    <3>5. /\ IsMap(cs) /\ DOMAIN cs = DOMAIN Planned(old, plan)
          /\ cs[AgentName] = agent /\ cs[MongodbName] = mongod
          /\ \A x \in DOMAIN cs \ {AgentName, MongodbName} : cs[x] = Planned(old, plan)[x]
      BY <2>8, <3>3, <3>4 DEF IsMap
    <3>6. cs = Planned(old, more)
      BY SMT, <3>2, <3>3, <3>5, TwoAgain
    <3>7. QED
      BY <3>1, <3>6
  <2>10. {"fields", "labels", "containers", "initContainers", "volumes"} \cup UserParts
           = DOMAIN base
    BY <2>4 DEF EmptyTemplate, UserParts
  <2>11. PICK u : u = [base EXCEPT !.containers = cs]
    OBVIOUS
  <2>12. d = WithVolumes(u, TLSVolumes(m.ca))
    BY <1>1, <1>2, <1>4, <2>5, <2>8, <2>10, <2>11 DEF buildTLSPodSpecModification
  <2>13. /\ IsMap(u) /\ DOMAIN u = DOMAIN base /\ u.fields = base.fields
         /\ u.labels = base.labels /\ u.containers = cs
         /\ u.initContainers = base.initContainers
         /\ u.volumes = base.volumes /\ \A x \in UserParts : u[x] = base[x]
    BY <2>4, <2>10, <2>11 DEF UserParts, IsMap
  <2>14. PICK v : v = StringToStringMap(TLSVolumes(m.ca), u.volumes)
    OBVIOUS
  <2>15. d = [u EXCEPT !.volumes = v]
    BY <2>10, <2>12, <2>13, <2>14 DEF WithVolumes
  <2>16. /\ d.fields = base.fields /\ d.labels = base.labels
         /\ d.containers = cs /\ d.initContainers = base.initContainers
         /\ d.volumes = v /\ \A x \in UserParts : d[x] = base[x]
    BY SMT, <2>10, <2>13, <2>15 DEF UserParts, IsMap
  <2>17. v = StringToStringMap(OperatorVolumes(m), t.volumes)
    BY SMT, <2>1, <2>4, <2>13, <2>14, OverlayRounds
  <2>18. QED
    BY <2>4, <2>9, <2>16, <2>17 DEF IsModified
<1>5. QED
  BY <1>3, <1>4

-----------------------------------------------------------------------------
(* A merged template *)

\* The containers of a list nobody but the user writes.
LEMMA UserContainers ==
  ASSUME NEW x, ContainersTyped(x), NEW o, ContainersTyped(o), NEW first, first = Containers(x, o)
  PROVE  ContainersTyped(first) /\ (OneSources(o) => Containers(first, o) = first)
<1>1. ASSUME NEW y, ContainersTyped(y) PROVE Planned(y, Empty) = y
  BY <1>1, EmptyTyped DEF Planned, ContainersTyped, IsMap
<1>2. PlansTyped(Empty)
  BY EmptyTyped DEF PlansTyped
<1>3. first = Containers(Planned(x, Empty), o)
  BY <1>1
<1>4. /\ ContainersTyped(first)
      /\ OneSources(o) => Containers(Planned(first, Empty), o) = first
  BY SMT, <1>2, <1>3, ContainersTwice
<1>5. QED
  BY <1>1, <1>4

OneSourceTemplate(o) ==
  OneSources(o.containers) /\ OneSources(o.initContainers) /\ OneSources(o.ephemeral)

\* Equal but for the order of the topology spread constraints.
SameTemplate(a, b) ==
  /\ IsMap(a) /\ IsMap(b) /\ DOMAIN a = DOMAIN EmptyTemplate /\ DOMAIN b = DOMAIN EmptyTemplate
  /\ \A f \in DOMAIN EmptyTemplate \ {"topology"} : a[f] = b[f]
  /\ Range(a.topology) = Range(b.topology)

\* The parts a plan leaves alone are merged again without a change.
LEMMA TemplateFirst ==
  ASSUME NEW t, TemplateTyped(t), NEW o, TemplateTyped(o), NEW m, NEW rel,
         NEW d, IsModified(t, d, m, rel), NEW first, IsMerged(d, o, first)
  PROVE  /\ first.labels = StringToStringMap(Labels, o.labels)
         /\ first.fields = Fields(Fields(t.fields, PodFields), o.fields)
         /\ first.containers = Containers(Planned(t.containers, Plans(m, rel)), o.containers)
         /\ first.initContainers = Containers(Planned(t.initContainers, InitPlans(rel)), o.initContainers)
         /\ first.volumes = Volumes(StringToStringMap(OperatorVolumes(m), t.volumes), o.volumes)
         /\ first.annotations = StringToStringMap(t.annotations, o.annotations)
         /\ first.ephemeral = Containers(t.ephemeral, o.ephemeral)
         /\ first.nodeSelector = StringToStringMap(t.nodeSelector, o.nodeSelector)
         /\ first.affinity = StringToStringMap(t.affinity, o.affinity)
         /\ first.tolerations = StringToStringMap(t.tolerations, o.tolerations)
         /\ first.hostAliases = HostAliases(t.hostAliases, o.hostAliases)
         /\ first.dnsConfig = PodDNSConfig(t.dnsConfig, o.dnsConfig)
         /\ first.topology \in TopologySpreadConstraints(t.topology, o.topology)
BY DEF IsModified, IsMerged, UserParts

\* A merged template is well-formed.
LEMMA TemplateKeepsType ==
  ASSUME NEW t, TemplateTyped(t), NEW o, TemplateTyped(o), NEW m, NEW rel,
         NEW d, IsModified(t, d, m, rel), NEW first, IsMerged(d, o, first)
  PROVE  TemplateTyped(first)
<1>1. /\ IsMap(first.labels) /\ IsMap(first.fields) /\ IsMap(first.annotations)
      /\ IsMap(first.nodeSelector) /\ IsMap(first.affinity) /\ IsMap(first.tolerations)
  <2>1. \A x, y : IsMap(StringToStringMap(x, y)) /\ IsMap(Fields(x, y))
    BY MapTyped DEF Fields
  <2>2. IsMap(first.labels) /\ IsMap(first.fields) /\ IsMap(first.annotations)
    BY SMT, <2>1, TemplateFirst
  <2>3. IsMap(first.nodeSelector) /\ IsMap(first.affinity) /\ IsMap(first.tolerations)
    BY SMT, <2>1, TemplateFirst
  <2>4. QED
    BY <2>2, <2>3
<1>2. /\ ContainersTyped(t.containers) /\ ContainersTyped(t.initContainers)
      /\ ContainersTyped(t.ephemeral) /\ ContainersTyped(o.containers)
      /\ ContainersTyped(o.initContainers) /\ ContainersTyped(o.ephemeral)
      /\ VolumesTyped(t.volumes) /\ VolumesTyped(o.volumes)
      /\ AliasesTyped(t.hostAliases) /\ AliasesTyped(o.hostAliases)
      /\ DNSTyped(t.dnsConfig) /\ DNSTyped(o.dnsConfig)
      /\ TopologyTyped(t.topology) /\ TopologyTyped(o.topology)
  BY DEF TemplateTyped, AliasesTyped
<1>3. /\ ContainersTyped(first.containers) /\ ContainersTyped(first.initContainers)
      /\ ContainersTyped(first.ephemeral)
  BY SMT, <1>2, TemplateFirst, PlansFormed, ContainersTwice, UserContainers
<1>4. VolumesTyped(first.volumes)
  BY SMT, <1>2, TemplateFirst, OperatorVolumesTyped, VolumesTwice
<1>5. AliasesTyped(first.hostAliases) /\ DNSTyped(first.dnsConfig) /\ TopologyTyped(first.topology)
  BY SMT, <1>2, TemplateFirst, AliasesTwice, DNSTwice, TopologyTwice
<1>6. IsMap(first) /\ DOMAIN first = DOMAIN EmptyTemplate
  BY DEF IsMerged
<1>7. QED
  BY <1>1, <1>3, <1>4, <1>5, <1>6 DEF TemplateTyped, AliasesTyped

\* Building a template again from the one that was built changes nothing.
LEMMA TemplateTwice ==
  ASSUME NEW t, TemplateTyped(t), NEW o, TemplateTyped(o), OneSourceTemplate(o),
         NEW m, NEW rel, NEW d, IsModified(t, d, m, rel), NEW first, IsMerged(d, o, first),
         NEW e, IsModified(first, e, m, rel), NEW again, IsMerged(e, o, again)
  PROVE  SameTemplate(again, first)
<1>1. TemplateTyped(first)
  BY TemplateKeepsType
<1>2. /\ ContainersTyped(t.containers) /\ ContainersTyped(t.initContainers)
      /\ ContainersTyped(t.ephemeral) /\ ContainersTyped(o.containers)
      /\ ContainersTyped(o.initContainers) /\ ContainersTyped(o.ephemeral)
      /\ VolumesTyped(t.volumes) /\ VolumesTyped(o.volumes)
      /\ AliasesTyped(t.hostAliases) /\ AliasesTyped(o.hostAliases)
      /\ DNSTyped(t.dnsConfig) /\ DNSTyped(o.dnsConfig)
      /\ TopologyTyped(t.topology) /\ TopologyTyped(o.topology)
  BY DEF TemplateTyped, AliasesTyped
<1>3. /\ again.labels = first.labels /\ again.fields = first.fields
      /\ again.annotations = first.annotations /\ again.nodeSelector = first.nodeSelector
      /\ again.affinity = first.affinity /\ again.tolerations = first.tolerations
  <2>1. ASSUME NEW x, NEW y, NEW z, y = StringToStringMap(x, z) PROVE StringToStringMap(y, z) = y
    BY <2>1 DEF StringToStringMap
  <2>2. again.labels = first.labels
    BY SMT, <1>1, TemplateFirst
  <2>3. again.fields = first.fields
    BY SMT, <1>1, TemplateFirst, MapTwice
  <2>4. again.annotations = first.annotations /\ again.nodeSelector = first.nodeSelector
    BY SMT, <1>1, <2>1, TemplateFirst
  <2>5. again.affinity = first.affinity /\ again.tolerations = first.tolerations
    BY SMT, <1>1, <2>1, TemplateFirst
  <2>6. QED
    BY <2>2, <2>3, <2>4, <2>5
<1>4. /\ again.containers = first.containers /\ again.initContainers = first.initContainers
      /\ again.ephemeral = first.ephemeral
  <2>1. OneSources(o.containers) /\ OneSources(o.initContainers) /\ OneSources(o.ephemeral)
    BY DEF OneSourceTemplate
  <2>2. again.containers = first.containers
    BY SMT, <1>1, <1>2, <2>1, TemplateFirst, PlansFormed, ContainersTwice
  <2>3. again.initContainers = first.initContainers
    BY SMT, <1>1, <1>2, <2>1, TemplateFirst, PlansFormed, ContainersTwice
  <2>4. again.ephemeral = first.ephemeral
    BY SMT, <1>1, <1>2, <2>1, TemplateFirst, UserContainers
  <2>5. QED
    BY <2>2, <2>3, <2>4
<1>5. again.volumes = first.volumes
  BY SMT, <1>1, <1>2, TemplateFirst, OperatorVolumesTyped, VolumesTwice
<1>6. again.hostAliases = first.hostAliases /\ again.dnsConfig = first.dnsConfig
  BY SMT, <1>1, <1>2, TemplateFirst, AliasesTwice, DNSTwice
<1>7. Range(again.topology) = Range(first.topology)
  BY SMT, <1>1, <1>2, TemplateFirst, TopologyTwice
<1>8. QED
  BY <1>3, <1>4, <1>5, <1>6, <1>7 DEF SameTemplate, IsMerged, EmptyTemplate

\* Nor does the order change where there is no other.
LEMMA OrderKept ==
  ASSUME NEW t, TemplateTyped(t), NEW o, TemplateTyped(o),
         NEW m, NEW rel, NEW d, IsModified(t, d, m, rel), NEW first, IsMerged(d, o, first),
         NEW e, IsModified(first, e, m, rel), NEW again, IsMerged(e, o, again),
         o.topology = Empty \/ ~(Len(first.topology) > 1)
  PROVE  again.topology = first.topology
<1>1. TemplateTyped(first)
  BY TemplateKeepsType
<1>2. TopologyTyped(t.topology) /\ TopologyTyped(o.topology)
  BY DEF TemplateTyped
<1>3. /\ first.topology \in TopologySpreadConstraints(t.topology, o.topology)
      /\ again.topology \in TopologySpreadConstraints(first.topology, o.topology)
  BY SMT, <1>1, TemplateFirst
<1>4. QED
  BY SMT, <1>2, <1>3, TopologyFixed

\* No variable of a merged template gets both a value and a source.
LEMMA TemplateSources ==
  ASSUME NEW t, TemplateTyped(t), NEW o, TemplateTyped(o), NEW m, NEW rel,
         NEW d, IsModified(t, d, m, rel), NEW first, IsMerged(d, o, first),
         OneSourceTemplate(o), OneSources(t.containers), OneSources(t.initContainers)
  PROVE  OneSources(first.containers) /\ OneSources(first.initContainers)
<1>1. ASSUME NEW cs, ContainersTyped(cs), OneSources(cs), NEW plan, PlansTyped(plan),
             \A k \in DOMAIN plan : OneSource(plan[k].env),
             NEW u, ContainersTyped(u), OneSources(u)
      PROVE  OneSources(Containers(Planned(cs, plan), u))
  <2> SUFFICES ASSUME NEW k \in DOMAIN cs \cup DOMAIN plan \cup DOMAIN u
              PROVE  OneSource(Containers(Planned(cs, plan), u)[k].env)
    BY DEF OneSources, Containers, ByKey, Planned
  <2>1. ASSUME k \in DOMAIN cs \cup DOMAIN plan
        PROVE  EnvTyped(Planned(cs, plan)[k].env) /\ OneSource(Planned(cs, plan)[k].env)
    <3>1. PICK c, p : /\ ContainerTyped(c) /\ PlanTyped(p)
                      /\ p = IF k \in DOMAIN plan THEN plan[k] ELSE NoPlan
                      /\ c = At(cs, k)
                      /\ Planned(cs, plan)[k] = Overlaid(c, p)
      BY <1>1, <2>1, PlannedAt
    <3>2. OneSource(c.env)
      BY <1>1, <3>1, EmptyTyped DEF At, OneSources, OneSource, EmptyContainer
    <3>3. OneSource(p.env)
      BY <1>1, <3>1, EmptyTyped DEF OneSource, NoPlan
    <3>4. EnvTyped(c.env) /\ EnvTyped(p.env)
      BY <3>1 DEF ContainerTyped, PlanTyped
    <3>5. Overlaid(c, p).env = StringToStringMap(c.env, p.env)
      BY DEF Overlaid
    <3>6. QED
      BY <3>1, <3>2, <3>3, <3>4, <3>5, EnvsTyped
  <2>2. ASSUME k \in DOMAIN u PROVE EnvTyped(u[k].env) /\ OneSource(u[k].env)
    BY <1>1, <2>2 DEF ContainersTyped, ContainerTyped, OneSources
  <2>3. ASSUME NEW a, NEW b PROVE Container(a, b).env = Envs(a.env, b.env)
    BY DEF Container
  <2>4. DOMAIN Planned(cs, plan) = DOMAIN cs \cup DOMAIN plan
    BY DEF Planned
  <2>5. Containers(Planned(cs, plan), u)[k] =
          IF k \notin DOMAIN u THEN Planned(cs, plan)[k]
          ELSE IF k \notin DOMAIN Planned(cs, plan) THEN u[k]
          ELSE Container(Planned(cs, plan)[k], u[k])
    BY <2>4 DEF Containers, ByKey
  <2>6. QED
    BY SMT, <2>1, <2>2, <2>3, <2>4, <2>5, EnvsTyped
<1>2. /\ ContainersTyped(t.containers) /\ ContainersTyped(t.initContainers)
      /\ ContainersTyped(o.containers) /\ ContainersTyped(o.initContainers)
  BY DEF TemplateTyped
<1>3. OneSources(o.containers) /\ OneSources(o.initContainers)
  BY DEF OneSourceTemplate
<1>4. OneSources(first.containers)
  BY SMT, <1>1, <1>2, <1>3, TemplateFirst, PlansFormed
<1>5. OneSources(first.initContainers)
  BY SMT, <1>1, <1>2, <1>3, TemplateFirst, PlansFormed
<1>6. QED
  BY <1>4, <1>5

-----------------------------------------------------------------------------
(* The set around the template *)

\* The scalar fields: the parameters of a rolling update go, the operator's
\* fields come.
BareFields(f) == Restrict(f, DOMAIN f \ {"rollingUpdate"})

OperatorFields(m) ==
  [serviceName |-> "svc", replicas |-> m.replicas, strategy |-> GetUpdateStrategyType(m)]

\* What two overlays over the bare fields give.
AreKept(x, p, o, first) ==
  /\ IsMap(first)
  /\ DOMAIN first = (DOMAIN x \ {"rollingUpdate"}) \cup DOMAIN p \cup DOMAIN o
  /\ \A k \in DOMAIN first :
       first[k] = IF k \in DOMAIN o THEN o[k] ELSE IF k \in DOMAIN p THEN p[k] ELSE x[k]

\* The fields of a build: the override first, then the operator, then what was there.
LEMMA FieldsKept ==
  ASSUME NEW x, NEW p, NEW o, NEW first, first = Fields(Fields(BareFields(x), p), o)
  PROVE  AreKept(x, p, o, first)
<1>1. /\ DOMAIN BareFields(x) = DOMAIN x \ {"rollingUpdate"}
      /\ \A k \in DOMAIN x \ {"rollingUpdate"} : BareFields(x)[k] = x[k]
  BY DEF BareFields, Restrict
<1>2. QED
  BY <1>1, MapTyped DEF AreKept, Fields, StringToStringMap

\* They come to rest after one build.
LEMMA FieldsTwice ==
  ASSUME NEW x, NEW p, NEW o, NEW first, first = Fields(Fields(BareFields(x), p), o)
  PROVE  Fields(Fields(BareFields(first), p), o) = first
<1>1. PICK again : again = Fields(Fields(BareFields(first), p), o)
  OBVIOUS
<1>2. AreKept(x, p, o, first) /\ AreKept(first, p, o, again)
  BY <1>1, FieldsKept
<1>3. DOMAIN again = DOMAIN first
  BY <1>2 DEF AreKept
<1>4. \A k \in DOMAIN again : again[k] = first[k]
  BY <1>2, <1>3 DEF AreKept
<1>5. QED
  BY <1>1, <1>2, <1>3, <1>4, MapEqual DEF AreKept

\* The selector the operator starts from, and what is merged over it.
KeptSelector(x, o) == LabelSelectors([nil |-> FALSE, labels |-> Labels, expressions |-> x.expressions], o)

\* Building the selector again with the same override changes nothing.
LEMMA SelectorTwice ==
  ASSUME NEW x, SelectorTyped(x), NEW o, SelectorTyped(o), NEW first, first = KeptSelector(x, o)
  PROVE  SelectorTyped(first) /\ KeptSelector(first, o) = first
<1>1. ExpressionsTyped(x.expressions) /\ ExpressionsTyped(o.expressions) /\ o.nil \in BOOLEAN
  BY DEF SelectorTyped, ExpressionsTyped
<1>2. IsMap(Labels)
  BY DEF Labels, IsMap
<1>3. CASE o.nil
  <2>1. first = [nil |-> FALSE, labels |-> Labels, expressions |-> x.expressions]
    BY <1>3 DEF KeptSelector, LabelSelectors
  <2>2. SelectorTyped(first)
    BY SMT, <1>1, <1>2, <2>1 DEF SelectorTyped, ExpressionsTyped, NoSelector, IsMap
  <2>3. KeptSelector(first, o) = [nil |-> FALSE, labels |-> Labels, expressions |-> first.expressions]
    BY <1>3 DEF KeptSelector, LabelSelectors
  <2>4. QED
    BY SMT, <2>1, <2>2, <2>3
<1>4. CASE ~o.nil
  <2>1. PICK l, e : /\ l = StringToStringMap(Labels, o.labels)
                    /\ e = LabelSelectorRequirements(x.expressions, o.expressions)
    OBVIOUS
  <2>2. first = [nil |-> FALSE, labels |-> l, expressions |-> e]
    BY <1>4, <2>1 DEF KeptSelector, LabelSelectors
  <2>3. ExpressionsTyped(e) /\ LabelSelectorRequirements(e, o.expressions) = e /\ IsMap(l)
    <3>1. IsMap(l)
      BY <2>1, MapTyped
    <3>2. ExpressionsTyped(e) /\ LabelSelectorRequirements(e, o.expressions) = e
      BY SMT, <1>1, <2>1, ExpressionsTwice
    <3>3. QED
      BY <3>1, <3>2
  <2>4. SelectorTyped(first)
    BY SMT, <2>2, <2>3 DEF SelectorTyped, ExpressionsTyped, NoSelector, IsMap
  <2>5. first.expressions = e
    BY SMT, <2>2
  <2>6. KeptSelector(first, o) =
          [nil |-> FALSE, labels |-> StringToStringMap(Labels, o.labels),
           expressions |-> LabelSelectorRequirements(first.expressions, o.expressions)]
    BY <1>4 DEF KeptSelector, LabelSelectors
  <2>7. QED
    BY <2>1, <2>2, <2>3, <2>4, <2>5, <2>6
<1>5. QED
  BY <1>1, <1>3, <1>4

\* What the operator makes of a claim: its own have a fixed mode and request.
OperatorClaims(claims) ==
  WithVolumeClaim(WithVolumeClaim(claims, DataVolumeName, "10G"), LogsVolumeName, "2G")

OwnClaims == {DataVolumeName, LogsVolumeName}

Requests(k) == [requests |-> IF k = LogsVolumeName THEN "2G" ELSE "10G"]

\* The fields a claim has before.
Had(claims, k) == IF k \in DOMAIN claims THEN claims[k].fields ELSE Empty

\* w is cs with the claim n set by the operator.
IsClaimed(cs, n, r, w) ==
  /\ IsMap(w) /\ DOMAIN w = DOMAIN cs \cup {n}
  /\ \A k \in DOMAIN cs \ {n} : w[k] = cs[k]
  /\ IsMap(w[n]) /\ DOMAIN w[n] = {"fields", "accessModes"}
  /\ w[n].accessModes = <<"ReadWriteOnce">>
  /\ w[n].fields = Fields(Had(cs, n), [requests |-> r])

\* y is x with both claims set by the operator.
AreClaimed(x, y) ==
  /\ ClaimsTyped(y) /\ DOMAIN y = DOMAIN x \cup OwnClaims
  /\ \A k \in DOMAIN y \ OwnClaims : y[k] = x[k]
  /\ \A k \in OwnClaims :
       /\ y[k].accessModes = <<"ReadWriteOnce">>
       /\ y[k].fields = Fields(Had(x, k), Requests(k))

\* The operator's modifications give its own claims their requests and their mode,
\* and leave the others alone.
LEMMA OperatorClaimsAre ==
  ASSUME NEW x, ClaimsTyped(x), NEW y, y = OperatorClaims(x)
  PROVE  AreClaimed(x, y)
<1>1. DataVolumeName # LogsVolumeName
  BY DEF DataVolumeName, LogsVolumeName
<1>2. ASSUME NEW cs, NEW n, NEW r, NEW w, w = WithVolumeClaim(cs, n, r)
      PROVE  IsClaimed(cs, n, r, w)
  <2>1. PICK f : f = Fields(Had(cs, n), [requests |-> r])
    OBVIOUS
  <2>2. /\ IsMap(w) /\ DOMAIN w = DOMAIN cs \cup {n}
        /\ \A k \in DOMAIN cs \ {n} : w[k] = cs[k]
        /\ w[n] = [fields |-> f, accessModes |-> <<"ReadWriteOnce">>]
    BY <1>2, <2>1 DEF WithVolumeClaim, Had, IsMap
  <2>3. QED
    BY SMT, <2>1, <2>2 DEF IsClaimed, IsMap
<1>3. IsSlice(<<"ReadWriteOnce">>)
  BY SMT DEF IsSlice, Range
<1>4. PICK w : w = WithVolumeClaim(x, DataVolumeName, "10G")
  OBVIOUS
<1>5. y = WithVolumeClaim(w, LogsVolumeName, "2G")
  BY <1>4 DEF OperatorClaims
<1>6. IsClaimed(x, DataVolumeName, "10G", w) /\ IsClaimed(w, LogsVolumeName, "2G", y)
  BY <1>2, <1>4, <1>5
<1>7. /\ y[DataVolumeName] = w[DataVolumeName]
      /\ LogsVolumeName \in DOMAIN w <=> LogsVolumeName \in DOMAIN x
      /\ LogsVolumeName \in DOMAIN x => w[LogsVolumeName] = x[LogsVolumeName]
      /\ DOMAIN y = DOMAIN x \cup OwnClaims
      /\ \A k \in DOMAIN y \ OwnClaims : y[k] = x[k]
  BY <1>1, <1>6 DEF OwnClaims, IsClaimed
<1>8. Had(w, LogsVolumeName) = Had(x, LogsVolumeName)
  BY <1>7 DEF Had
<1>9. Requests(DataVolumeName) = [requests |-> "10G"] /\ Requests(LogsVolumeName) = [requests |-> "2G"]
  BY <1>1 DEF Requests
<1>10. \A k \in OwnClaims :
         /\ y[k].accessModes = <<"ReadWriteOnce">>
         /\ y[k].fields = Fields(Had(x, k), Requests(k))
         /\ IsMap(y[k]) /\ DOMAIN y[k] = {"fields", "accessModes"}
  <2>1. ASSUME NEW k, k = DataVolumeName
        PROVE  /\ y[k].accessModes = <<"ReadWriteOnce">>
               /\ y[k].fields = Fields(Had(x, k), Requests(k))
               /\ IsMap(y[k]) /\ DOMAIN y[k] = {"fields", "accessModes"}
    BY <1>6, <1>7, <1>9, <2>1 DEF IsClaimed
  <2>2. ASSUME NEW k, k = LogsVolumeName
        PROVE  /\ y[k].accessModes = <<"ReadWriteOnce">>
               /\ y[k].fields = Fields(Had(x, k), Requests(k))
               /\ IsMap(y[k]) /\ DOMAIN y[k] = {"fields", "accessModes"}
    BY <1>6, <1>7, <1>8, <1>9, <2>2 DEF IsClaimed
  <2>3. QED
    BY <2>1, <2>2 DEF OwnClaims
<1>11. ClaimsTyped(y)
  <2>1. \A k \in OwnClaims : IsMap(y[k].fields) /\ IsSlice(y[k].accessModes)
    <3>1. \A a, c : IsMap(Fields(a, c))
      BY MapTyped DEF Fields
    <3>2. QED
      BY SMT, <1>3, <1>10, <3>1
  <2>2. QED
    BY SMT, <1>6, <1>7, <1>10, <2>1 DEF ClaimsTyped, IsClaimed
<1>12. QED
  BY <1>7, <1>10, <1>11 DEF AreClaimed

KeptClaims(x, o) == VolumeClaimTemplates(OperatorClaims(x), o)

\* Building the claims again with the same override changes nothing.
LEMMA ClaimsTwice ==
  ASSUME NEW x, ClaimsTyped(x), NEW o, ClaimsTyped(o), NEW first, first = KeptClaims(x, o)
  PROVE  ClaimsTyped(first) /\ KeptClaims(first, o) = first
<1>0. \A c : ClaimsTyped(c) <=> IsMap(c) /\ \A k \in DOMAIN c : ClaimTyped(c[k])
  BY DEF ClaimsTyped, ClaimTyped
<1>1. PICK y : y = OperatorClaims(x)
  OBVIOUS
<1>2. /\ ClaimsTyped(y) /\ DOMAIN y = DOMAIN x \cup OwnClaims
      /\ \A k \in DOMAIN y \ OwnClaims : y[k] = x[k]
      /\ \A k \in OwnClaims :
           /\ y[k].accessModes = <<"ReadWriteOnce">>
           /\ y[k].fields = Fields(Had(x, k), Requests(k))
  <2>1. AreClaimed(x, y)
    BY <1>1, OperatorClaimsAre
  <2>2. QED
    BY <2>1 DEF AreClaimed
<1>3. /\ IsMap(first) /\ DOMAIN first = DOMAIN y \cup DOMAIN o
      /\ \A k \in DOMAIN first :
           first[k] = IF k \notin DOMAIN o THEN y[k] ELSE IF k \notin DOMAIN y THEN o[k]
                      ELSE PersistentVolumeClaim(y[k], o[k])
  BY <1>1 DEF KeptClaims, VolumeClaimTemplates, ByKey, IsMap
<1>4. ClaimsTyped(first)
  BY SMT, <1>0, <1>2, <1>3, ClaimAgain
<1>5. PICK z : z = OperatorClaims(first)
  OBVIOUS
<1>6. /\ ClaimsTyped(z) /\ DOMAIN z = DOMAIN first
      /\ \A k \in DOMAIN z \ OwnClaims : z[k] = first[k]
      /\ \A k \in OwnClaims :
           /\ z[k].accessModes = <<"ReadWriteOnce">>
           /\ z[k].fields = Fields(first[k].fields, Requests(k))
  <2>1. /\ ClaimsTyped(z) /\ DOMAIN z = DOMAIN first \cup OwnClaims
        /\ \A k \in DOMAIN z \ OwnClaims : z[k] = first[k]
        /\ \A k \in OwnClaims :
             /\ z[k].accessModes = <<"ReadWriteOnce">>
             /\ z[k].fields = Fields(Had(first, k), Requests(k))
    <3>1. AreClaimed(first, z)
      BY <1>4, <1>5, OperatorClaimsAre
    <3>2. QED
      BY <3>1 DEF AreClaimed
  <2>2. OwnClaims \subseteq DOMAIN first
    BY <1>2, <1>3
  <2>3. \A k \in OwnClaims : Had(first, k) = first[k].fields
    BY <2>2 DEF Had
  <2>4. QED
    BY <2>1, <2>2, <2>3
<1>7. PICK again : again = KeptClaims(first, o)
  OBVIOUS
<1>8. /\ IsMap(again) /\ DOMAIN again = DOMAIN first
      /\ \A k \in DOMAIN first :
           again[k] = IF k \notin DOMAIN o THEN z[k] ELSE PersistentVolumeClaim(z[k], o[k])
  BY <1>3, <1>5, <1>6, <1>7 DEF KeptClaims, VolumeClaimTemplates, ByKey, IsMap
<1>9. ASSUME NEW k \in DOMAIN first \ OwnClaims PROVE again[k] = first[k]
  BY SMT, <1>0, <1>2, <1>3, <1>6, <1>8, <1>9, ClaimAgain
<1>10. ASSUME NEW k \in OwnClaims PROVE again[k] = first[k]
  <2>1. /\ ClaimTyped(y[k]) /\ ClaimTyped(z[k]) /\ ClaimTyped(first[k])
        /\ k \in DOMAIN first /\ k \in DOMAIN y
        /\ k \in DOMAIN o => ClaimTyped(o[k])
    BY <1>0, <1>2, <1>3, <1>4, <1>6, <1>10
  <2>2. PICK f : f = Had(x, k)
    OBVIOUS
  <2>3. y[k].fields = Fields(f, Requests(k)) /\ y[k].accessModes = <<"ReadWriteOnce">>
    BY <1>2, <1>10, <2>2
  <2>4. z[k].fields = Fields(first[k].fields, Requests(k)) /\ z[k].accessModes = <<"ReadWriteOnce">>
    BY <1>6, <1>10
  <2>5. ASSUME NEW a, ClaimTyped(a), NEW b, ClaimTyped(b),
               a.fields = b.fields, a.accessModes = b.accessModes
        PROVE  a = b
    BY <2>5, MapEqual DEF ClaimTyped
  <2>6. CASE k \notin DOMAIN o
    <3>1. first[k] = y[k] /\ again[k] = z[k]
      BY <1>3, <1>8, <2>1, <2>6
    <3>2. z[k].fields = y[k].fields
      BY SMT, <2>3, <2>4, <3>1 DEF Fields, StringToStringMap
    <3>3. QED
      BY <2>1, <2>3, <2>4, <2>5, <3>1, <3>2
  <2>7. CASE k \in DOMAIN o
    <3>1. first[k] = PersistentVolumeClaim(y[k], o[k]) /\ again[k] = PersistentVolumeClaim(z[k], o[k])
      BY <1>3, <1>8, <2>1, <2>7
    <3>2. /\ ClaimTyped(again[k])
          /\ first[k].fields = Fields(y[k].fields, o[k].fields)
          /\ first[k].accessModes = StringSlices(y[k].accessModes, o[k].accessModes)
          /\ again[k].fields = Fields(z[k].fields, o[k].fields)
          /\ again[k].accessModes = StringSlices(z[k].accessModes, o[k].accessModes)
      BY SMT, <2>1, <2>7, <3>1, ClaimAgain
    <3>3. again[k].fields = first[k].fields
      BY SMT, <2>3, <2>4, <3>2, MapTwice
    <3>4. QED
      BY SMT, <2>1, <2>3, <2>4, <2>5, <3>2, <3>3
  <2>8. QED
    BY <2>6, <2>7
<1>11. QED
  BY <1>3, <1>4, <1>7, <1>8, <1>9, <1>10, MapEqual

-----------------------------------------------------------------------------
(* A build of the whole set *)

\* b is a set built from set for the resource m.
IsBuilt(set, m, rel, b) ==
  /\ IsMap(b) /\ DOMAIN b = DOMAIN EmptySpec
  /\ b.fields = Fields(Fields(BareFields(set.fields), OperatorFields(m)), m.override.fields)
  /\ b.selector = KeptSelector(set.selector, m.override.selector)
  /\ b.claims = KeptClaims(set.claims, m.override.claims)
  /\ \E d : IsModified(set.template, d, m, rel) /\ IsMerged(d, m.override.template, b.template)

\* Every set buildStatefulSetModificationFunction may return is a build.
LEMMA BuildIs ==
  ASSUME NEW set, SpecTyped(set), NEW m, NEW rel,
         NEW b \in buildStatefulSetModificationFunction(set, m, rel)
  PROVE  IsBuilt(set, m, rel, b)
<1>1. PICK f, s, c, t, d :
        /\ f = Fields(BareFields(set.fields), OperatorFields(m))
        /\ s = [nil |-> FALSE, labels |-> Labels, expressions |-> set.selector.expressions]
        /\ c = OperatorClaims(set.claims)
        /\ t = PodTemplate(set.template, m, rel)
        /\ d = buildTLSPodSpecModification(t, m)
  OBVIOUS
<1>2. BuildMongoDBReplicaSetStatefulSetModificationFunction(set, m, rel)
        = [fields |-> f, selector |-> s, claims |-> c, template |-> t]
  BY <1>1 DEF BuildMongoDBReplicaSetStatefulSetModificationFunction, BareFields, OperatorFields,
              OperatorClaims
<1>3. PICK e : e = [fields |-> f, selector |-> s, claims |-> c, template |-> d]
  OBVIOUS
<1>4. b \in StatefulSetSpecs(e, m.override)
  <2>1. PICK x : x = [fields |-> f, selector |-> s, claims |-> c, template |-> t]
    OBVIOUS
  <2>2. buildTLSPodSpecModification(x.template, m) = d
    BY <1>1, <2>1
  <2>3. [x EXCEPT !.template = buildTLSPodSpecModification(x.template, m)] = e
    BY SMT, <1>3, <2>1, <2>2
  <2>4. QED
    BY <1>2, <2>1, <2>3 DEF buildStatefulSetModificationFunction
<1>5. /\ e.fields = f /\ e.selector = s /\ e.claims = c /\ e.template = d
  BY <1>3
<1>6. PICK u \in PodTemplateSpecs(d, m.override.template) :
        b = [fields   |-> Fields(f, m.override.fields),
             selector |-> LabelSelectors(s, m.override.selector),
             claims   |-> VolumeClaimTemplates(c, m.override.claims),
             template |-> u]
  BY <1>4, <1>5 DEF StatefulSetSpecs
<1>7. /\ IsMap(b) /\ DOMAIN b = DOMAIN EmptySpec
      /\ b.fields = Fields(f, m.override.fields)
      /\ b.selector = LabelSelectors(s, m.override.selector)
      /\ b.claims = VolumeClaimTemplates(c, m.override.claims)
      /\ b.template = u
  BY <1>6 DEF IsMap, EmptySpec
<1>8. IsModified(set.template, d, m, rel)
  BY <1>1, TemplateModified DEF SpecTyped
<1>9. IsMerged(d, m.override.template, b.template)
  BY <1>6, <1>7, MergedParts
<1>10. QED
  BY <1>1, <1>7, <1>8, <1>9 DEF IsBuilt, KeptSelector, KeptClaims

\* A build is well-formed.
LEMMA BuildTyped ==
  ASSUME NEW set, SpecTyped(set), NEW m, SpecTyped(m.override), NEW rel,
         NEW b, IsBuilt(set, m, rel, b)
  PROVE  SpecTyped(b)
<1>1. IsMap(b.fields)
  BY MapTyped DEF IsBuilt, Fields
<1>2. SelectorTyped(b.selector)
  BY SelectorTwice DEF IsBuilt, SpecTyped
<1>3. ClaimsTyped(b.claims)
  BY ClaimsTwice DEF IsBuilt, SpecTyped
<1>4. TemplateTyped(b.template)
  BY TemplateKeepsType DEF IsBuilt, SpecTyped
<1>5. QED
  BY <1>1, <1>2, <1>3, <1>4 DEF IsBuilt, SpecTyped

OneSourceSpec(o) == OneSourceTemplate(o.template)

\* Building again from a built set gives the same set, up to the order of two or more
\* topology spread constraints.
LEMMA BuildTwice ==
  ASSUME NEW set, SpecTyped(set), NEW m, SpecTyped(m.override), OneSourceSpec(m.override),
         NEW rel, NEW b, IsBuilt(set, m, rel, b), NEW c, IsBuilt(b, m, rel, c)
  PROVE  /\ UpToOrder(c) = UpToOrder(b)
         /\ m.override.template.topology = Empty \/ ~(Len(b.template.topology) > 1) => c = b
<1>1. SpecTyped(b)
  BY BuildTyped
<1>2. c.fields = b.fields
  BY SMT, FieldsTwice DEF IsBuilt
<1>3. c.selector = b.selector
  BY SMT, SelectorTwice DEF IsBuilt, SpecTyped
<1>4. c.claims = b.claims
  BY SMT, ClaimsTwice DEF IsBuilt, SpecTyped
<1>5. SameTemplate(c.template, b.template)
  <2>1. PICK d : IsModified(set.template, d, m, rel) /\ IsMerged(d, m.override.template, b.template)
    BY DEF IsBuilt
  <2>2. PICK e : IsModified(b.template, e, m, rel) /\ IsMerged(e, m.override.template, c.template)
    BY DEF IsBuilt
  <2>3. TemplateTyped(set.template) /\ TemplateTyped(m.override.template)
        /\ OneSourceTemplate(m.override.template)
    BY DEF SpecTyped, OneSourceSpec
  <2>4. QED
    BY <2>1, <2>2, <2>3, TemplateTwice
<1>6. PICK x, y : /\ x = [b.template EXCEPT !.topology = Range(b.template.topology)]
                  /\ y = [c.template EXCEPT !.topology = Range(c.template.topology)]
  OBVIOUS
<1>7. x = y
  <2>1. "topology" \in DOMAIN EmptyTemplate
    BY DEF EmptyTemplate
  <2>2. /\ IsMap(x) /\ DOMAIN x = DOMAIN EmptyTemplate /\ x.topology = Range(b.template.topology)
        /\ \A f \in DOMAIN EmptyTemplate \ {"topology"} : x[f] = b.template[f]
    BY <1>5, <1>6, <2>1 DEF SameTemplate, IsMap
  <2>3. /\ IsMap(y) /\ DOMAIN y = DOMAIN EmptyTemplate /\ y.topology = Range(c.template.topology)
        /\ \A f \in DOMAIN EmptyTemplate \ {"topology"} : y[f] = c.template[f]
    BY <1>5, <1>6, <2>1 DEF SameTemplate, IsMap
  <2>4. \A f \in DOMAIN x : x[f] = y[f]
    BY <1>5, <2>2, <2>3 DEF SameTemplate
  <2>5. QED
    BY <2>2, <2>3, <2>4, MapEqual
<1>8. DOMAIN b = DOMAIN EmptySpec /\ DOMAIN c = DOMAIN EmptySpec /\ IsMap(b) /\ IsMap(c)
  BY DEF IsBuilt
<1>9. UpToOrder(b) = [b EXCEPT !.template = x] /\ UpToOrder(c) = [c EXCEPT !.template = y]
  <2>1. ASSUME NEW s, IsMap(s), DOMAIN s = DOMAIN EmptySpec, IsMap(s.template),
               DOMAIN s.template = DOMAIN EmptyTemplate
        PROVE  UpToOrder(s) =
                 [s EXCEPT !.template = [s.template EXCEPT !.topology = Range(s.template.topology)]]
    BY <2>1 DEF UpToOrder, EmptySpec, EmptyTemplate
  <2>2. QED
    BY <1>5, <1>6, <1>8, <2>1 DEF SameTemplate
<1>10. \A f \in {"fields", "selector", "claims"} : b[f] = c[f]
  BY <1>2, <1>3, <1>4
<1>11. [b EXCEPT !.template = x] = [c EXCEPT !.template = y]
  BY <1>7, <1>8, <1>10 DEF EmptySpec, IsMap
<1>12. ASSUME m.override.template.topology = Empty \/ ~(Len(b.template.topology) > 1)
       PROVE  c = b
  <2>1. PICK d : IsModified(set.template, d, m, rel) /\ IsMerged(d, m.override.template, b.template)
    BY DEF IsBuilt
  <2>2. PICK e : IsModified(b.template, e, m, rel) /\ IsMerged(e, m.override.template, c.template)
    BY DEF IsBuilt
  <2>3. TemplateTyped(set.template) /\ TemplateTyped(m.override.template)
    BY DEF SpecTyped
  <2>4. c.template.topology = b.template.topology
    BY SMT, <1>12, <2>1, <2>2, <2>3, OrderKept
  <2>5. \A f \in DOMAIN EmptyTemplate : c.template[f] = b.template[f]
    BY <1>5, <2>4 DEF SameTemplate
  <2>6. c.template = b.template
    BY <1>5, <2>5, MapEqual DEF SameTemplate
  <2>7. \A f \in DOMAIN EmptySpec : c[f] = b[f]
    BY <1>2, <1>3, <1>4, <2>6 DEF EmptySpec
  <2>8. QED
    BY <1>8, <2>7, MapEqual
<1>13. QED
  BY <1>9, <1>11, <1>12

-----------------------------------------------------------------------------
(* What the API server does not let an update change *)

Mutable == {"replicas", "strategy", "rollingUpdate"}

FixedFields(f) == Restrict(f, DOMAIN f \ Mutable)

\* The immutable part of a build, from the immutable parts it is made of.
Kept(x, o) ==
  [fields   |-> Fields(Fields(x.fields, [serviceName |-> "svc"]), o.fields),
   selector |-> KeptSelector(x.selector, o.selector),
   claims   |-> KeptClaims(x.claims, o.claims)]

\* The parts Immutable reads.
LEMMA ImmutableParts ==
  ASSUME NEW s
  PROVE  /\ Immutable(s) = [fields |-> FixedFields(s.fields), selector |-> s.selector,
                            claims |-> s.claims]
         /\ Immutable(s).fields = FixedFields(s.fields)
         /\ Immutable(s).selector = s.selector /\ Immutable(s).claims = s.claims
BY DEF Immutable, FixedFields, Mutable

\* The fields of a build that stay.
LEMMA FixedBuilt ==
  ASSUME NEW x, NEW m, NEW o, NEW first,
         first = Fields(Fields(BareFields(x), OperatorFields(m)), o)
  PROVE  FixedFields(first) = Fields(Fields(FixedFields(x), [serviceName |-> "svc"]), FixedFields(o))
<1>1. AreKept(x, OperatorFields(m), o, first)
  BY FieldsKept
<1>2. /\ DOMAIN OperatorFields(m) = {"serviceName", "replicas", "strategy"}
      /\ OperatorFields(m).serviceName = "svc"
  BY DEF OperatorFields
<1>3. \A f : /\ IsMap(FixedFields(f)) /\ DOMAIN FixedFields(f) = DOMAIN f \ Mutable
             /\ \A k \in DOMAIN f \ Mutable : FixedFields(f)[k] = f[k]
  BY DEF FixedFields, Restrict, IsMap
<1>4. PICK s : s = [serviceName |-> "svc"]
  OBVIOUS
<1>5. DOMAIN s = {"serviceName"} /\ s.serviceName = "svc"
  BY <1>4
<1>6. PICK y : y = Fields(Fields(FixedFields(x), s), FixedFields(o))
  OBVIOUS
<1>7. /\ IsMap(y) /\ DOMAIN y = (DOMAIN x \ Mutable) \cup {"serviceName"} \cup (DOMAIN o \ Mutable)
      /\ \A k \in DOMAIN y :
           y[k] = IF k \in DOMAIN o THEN o[k] ELSE IF k = "serviceName" THEN "svc" ELSE x[k]
  <2>1. PICK u, v, w : u = FixedFields(x) /\ v = FixedFields(o) /\ w = Fields(u, s)
    OBVIOUS
  <2>2. /\ DOMAIN u = DOMAIN x \ Mutable /\ \A k \in DOMAIN u : u[k] = x[k]
        /\ DOMAIN v = DOMAIN o \ Mutable /\ \A k \in DOMAIN v : v[k] = o[k]
    BY <1>3, <2>1
  <2>3. /\ DOMAIN w = DOMAIN u \cup {"serviceName"}
        /\ \A k \in DOMAIN w : w[k] = IF k = "serviceName" THEN "svc" ELSE u[k]
    BY <1>5, <2>1 DEF Fields, StringToStringMap
  <2>4. /\ IsMap(y) /\ DOMAIN y = DOMAIN w \cup DOMAIN v
        /\ \A k \in DOMAIN y : y[k] = IF k \in DOMAIN v THEN v[k] ELSE w[k]
    BY <1>6, <2>1 DEF Fields, StringToStringMap, IsMap
  <2>5. "serviceName" \notin Mutable
    BY DEF Mutable
  <2>6. DOMAIN y = (DOMAIN x \ Mutable) \cup {"serviceName"} \cup (DOMAIN o \ Mutable)
    BY <2>2, <2>3, <2>4
  <2>7. QED
    BY SMT, <2>2, <2>3, <2>4, <2>5, <2>6
<1>9. DOMAIN FixedFields(first) = DOMAIN y
  BY <1>1, <1>2, <1>3, <1>7 DEF AreKept, Mutable
<1>10. \A k \in DOMAIN y : FixedFields(first)[k] = y[k]
  BY SMT, <1>1, <1>2, <1>3, <1>7, <1>9 DEF AreKept, Mutable
<1>11. QED
  BY SMT, <1>3, <1>4, <1>6, <1>7, <1>9, <1>10, MapEqual

\* The immutable part of a build depends on the immutable parts it is made of.
LEMMA ImmutableBuilt ==
  ASSUME NEW set, NEW m, NEW rel, NEW b, IsBuilt(set, m, rel, b)
  PROVE  Immutable(b) = Kept(Immutable(set), Immutable(m.override))
<1>1. PICK o : o = m.override
  OBVIOUS
<1>2. /\ b.fields = Fields(Fields(BareFields(set.fields), OperatorFields(m)), o.fields)
      /\ b.selector = KeptSelector(set.selector, o.selector)
      /\ b.claims = KeptClaims(set.claims, o.claims)
  BY <1>1 DEF IsBuilt
<1>3. FixedFields(b.fields)
        = Fields(Fields(FixedFields(set.fields), [serviceName |-> "svc"]), FixedFields(o.fields))
  BY SMT, <1>2, FixedBuilt
<1>4. PICK x, y : x = Immutable(set) /\ y = Immutable(o)
  OBVIOUS
<1>5. /\ x.fields = FixedFields(set.fields) /\ x.selector = set.selector /\ x.claims = set.claims
      /\ y.fields = FixedFields(o.fields) /\ y.selector = o.selector /\ y.claims = o.claims
  BY <1>4, ImmutableParts
<1>6. Immutable(b) = [fields |-> FixedFields(b.fields), selector |-> b.selector,
                      claims |-> b.claims]
  BY ImmutableParts
<1>7. Immutable(b) = Kept(x, y)
  BY <1>2, <1>3, <1>5, <1>6 DEF Kept
<1>8. QED
  BY <1>1, <1>4, <1>7

\* A build has the parameters of a rolling update next to OnDelete where the strategies
\* clash, whatever the set it was built from had.
LEMMA ClashBuilt ==
  ASSUME NEW set, NEW m, NEW rel, NEW b, IsBuilt(set, m, rel, b)
  PROVE  WellFormed(b) <=> ~StrategyClash(m)
<1>1. PICK o, g, f : /\ o = m.override.fields /\ g = GetUpdateStrategyType(m)
                     /\ f = Fields([strategy |-> g], o)
  OBVIOUS
<1>2. AreKept(set.fields, OperatorFields(m), o, b.fields)
  BY <1>1, FieldsKept DEF IsBuilt
<1>3. /\ DOMAIN OperatorFields(m) = {"serviceName", "replicas", "strategy"}
      /\ OperatorFields(m).strategy = g
  BY <1>1 DEF OperatorFields
<1>4. /\ "rollingUpdate" \in DOMAIN b.fields <=> "rollingUpdate" \in DOMAIN o
      /\ b.fields.strategy = IF "strategy" \in DOMAIN o THEN o.strategy ELSE g
  BY SMT, <1>2, <1>3 DEF AreKept
<1>5. /\ "rollingUpdate" \in DOMAIN f <=> "rollingUpdate" \in DOMAIN o
      /\ f.strategy = IF "strategy" \in DOMAIN o THEN o.strategy ELSE g
  BY SMT, <1>1 DEF Fields, StringToStringMap
<1>6. StrategyClash(m) <=> "rollingUpdate" \in DOMAIN f /\ f.strategy = "OnDelete"
  BY <1>1 DEF StrategyClash
<1>7. QED
  BY <1>4, <1>5, <1>6 DEF WellFormed

\* Building the immutable part again with the same override changes nothing.
LEMMA KeptTwice ==
  ASSUME NEW x, SelectorTyped(x.selector), ClaimsTyped(x.claims),
         NEW o, SelectorTyped(o.selector), ClaimsTyped(o.claims)
  PROVE  Kept(Kept(x, o), o) = Kept(x, o)
<1>1. PICK first : first = Kept(x, o)
  OBVIOUS
<1>2. /\ first.fields = Fields(Fields(x.fields, [serviceName |-> "svc"]), o.fields)
      /\ first.selector = KeptSelector(x.selector, o.selector)
      /\ first.claims = KeptClaims(x.claims, o.claims)
      /\ first = [fields |-> first.fields, selector |-> first.selector, claims |-> first.claims]
  BY <1>1 DEF Kept
<1>3. Fields(Fields(first.fields, [serviceName |-> "svc"]), o.fields) = first.fields
  BY SMT, <1>2, MapTwice
<1>4. KeptSelector(first.selector, o.selector) = first.selector
  BY SMT, <1>2, SelectorTwice
<1>5. KeptClaims(first.claims, o.claims) = first.claims
  BY SMT, <1>2, ClaimsTwice
<1>6. Kept(first, o) = first
  BY <1>2, <1>3, <1>4, <1>5 DEF Kept
<1>7. QED
  BY <1>1, <1>6

-----------------------------------------------------------------------------
(* The parts the operator needs *)

\* c has the mounts and the variables of the plan p.
Covers(c, p) == DOMAIN p.mounts \subseteq DOMAIN c.mounts /\ DOMAIN p.env \subseteq DOMAIN c.env

\* After the merge a planned container is there, with the plan's mounts and variables.
LEMMA PlansKept ==
  ASSUME NEW cs, NEW plan, NEW o, NEW k \in DOMAIN plan,
         NEW all, all = Containers(Planned(cs, plan), o)
  PROVE  k \in DOMAIN all /\ Covers(all[k], plan[k])
<1>0. \A a, b : DOMAIN StringToStringMap(a, b) = DOMAIN a \cup DOMAIN b
  BY ZenonT(30), MapTyped
<1>1. PICK d : d = Overlaid(At(cs, k), plan[k])
  OBVIOUS
<1>2. /\ d.mounts = StringToStringMap(At(cs, k).mounts, plan[k].mounts)
      /\ d.env = StringToStringMap(At(cs, k).env, plan[k].env)
  BY <1>1 DEF Overlaid
<1>3. DOMAIN plan[k].mounts \subseteq DOMAIN d.mounts /\ DOMAIN plan[k].env \subseteq DOMAIN d.env
  <2>1. /\ DOMAIN d.mounts = DOMAIN At(cs, k).mounts \cup DOMAIN plan[k].mounts
        /\ DOMAIN d.env = DOMAIN At(cs, k).env \cup DOMAIN plan[k].env
    BY <1>0, <1>2
  <2>2. QED
    BY <2>1
<1>4. /\ k \in DOMAIN all
      /\ all[k] = IF k \in DOMAIN o THEN Container(d, o[k]) ELSE d
  BY <1>1 DEF Containers, ByKey, Planned
<1>5. /\ Container(d, o[k]).mounts = VolumeMounts(d.mounts, o[k].mounts)
      /\ Container(d, o[k]).env = Envs(d.env, o[k].env)
  BY DEF Container
<1>6. /\ DOMAIN d.mounts \subseteq DOMAIN VolumeMounts(d.mounts, o[k].mounts)
      /\ DOMAIN d.env \subseteq DOMAIN Envs(d.env, o[k].env)
  BY DEF VolumeMounts, Envs, ByKey
<1>7. QED
  BY <1>3, <1>4, <1>5, <1>6 DEF Covers

\* Whatever well-formed set it starts from, a build has the required parts.
LEMMA BuiltParts ==
  ASSUME NEW set, SpecTyped(set), NEW m, SpecTyped(m.override), NEW rel,
         NEW b, IsBuilt(set, m, rel, b)
  PROVE  HasRequiredParts(b, m.tls)
<1>1. PICK d : IsModified(set.template, d, m, rel) /\ IsMerged(d, m.override.template, b.template)
  BY DEF IsBuilt
<1>2. /\ b.template.containers
           = Containers(Planned(set.template.containers, Plans(m, rel)), m.override.template.containers)
      /\ b.template.initContainers
           = Containers(Planned(set.template.initContainers, InitPlans(rel)),
                        m.override.template.initContainers)
      /\ b.template.volumes
           = Volumes(StringToStringMap(OperatorVolumes(m), set.template.volumes),
                     m.override.template.volumes)
  BY <1>1 DEF IsModified, IsMerged
<1>3. PICK agent, mongod, extra :
        /\ agent = b.template.containers[AgentName] /\ mongod = b.template.containers[MongodbName]
        /\ extra = IF m.tls THEN DOMAIN TLSMounts ELSE {}
  OBVIOUS
<1>4. DOMAIN Extra(m) = extra
  BY <1>3, EmptyTyped DEF Extra
<1>5. /\ {AgentName, MongodbName} \subseteq DOMAIN b.template.containers
      /\ DOMAIN AgentMounts \cup extra \subseteq DOMAIN agent.mounts
      /\ DOMAIN AgentEnvs \subseteq DOMAIN agent.env
      /\ DOMAIN MongodMounts \cup extra \subseteq DOMAIN mongod.mounts
      /\ DOMAIN MongodEnvs \subseteq DOMAIN mongod.env
  <2>1. /\ AgentName \in DOMAIN Plans(m, rel) /\ MongodbName \in DOMAIN Plans(m, rel)
        /\ Plans(m, rel)[AgentName] = AgentPlan(rel, Extra(m))
        /\ Plans(m, rel)[MongodbName] = MongodPlan(m.version, Extra(m))
    BY PlansAre
  <2>2. /\ AgentName \in DOMAIN b.template.containers
        /\ MongodbName \in DOMAIN b.template.containers
        /\ Covers(agent, AgentPlan(rel, Extra(m)))
        /\ Covers(mongod, MongodPlan(m.version, Extra(m)))
    BY <1>2, <1>3, <2>1, PlansKept
  <2>3. /\ AgentPlan(rel, Extra(m)).mounts = StringToStringMap(AgentMounts, Extra(m))
        /\ AgentPlan(rel, Extra(m)).env = AgentEnvs
        /\ MongodPlan(m.version, Extra(m)).mounts = StringToStringMap(MongodMounts, Extra(m))
        /\ MongodPlan(m.version, Extra(m)).env = MongodEnvs
    BY DEF AgentPlan, MongodPlan
  <2>4. \A a, c : DOMAIN StringToStringMap(a, c) = DOMAIN a \cup DOMAIN c
    BY MapTyped
  <2>5. QED
    BY <1>4, <2>2, <2>3, <2>4 DEF Covers
<1>6. {versionUpgradeHookName, ReadinessProbeContainerName} \subseteq DOMAIN b.template.initContainers
  BY SMT, <1>2, PlansAre, PlansKept
<1>7. /\ DOMAIN Volumes0 \subseteq DOMAIN b.template.volumes
      /\ m.tls => {"tls-ca", "tls-secret"} \subseteq DOMAIN b.template.volumes
  BY <1>2 DEF Volumes, ByKey, StringToStringMap, OperatorVolumes, TLSVolumes
<1>8. OwnClaims \subseteq DOMAIN b.claims
  <2>1. DOMAIN OperatorClaims(set.claims) = DOMAIN set.claims \cup OwnClaims
    BY OperatorClaimsAre DEF SpecTyped, AreClaimed
  <2>2. QED
    BY <2>1 DEF IsBuilt, KeptClaims, VolumeClaimTemplates, ByKey
<1>9. \A n \in DOMAIN AgentMounts \cup DOMAIN MongodMounts \cup extra :
        n[1] \in DOMAIN b.template.volumes \cup DOMAIN b.claims
  <2>1. \A n \in DOMAIN AgentMounts \cup DOMAIN MongodMounts : n[1] \in DOMAIN Volumes0 \cup OwnClaims
    BY SMT DEF AgentMounts, MongodMounts, Volumes0, OwnClaims
  <2>2. \A n \in DOMAIN TLSMounts : n[1] \in {"tls-ca", "tls-secret"}
    BY SMT DEF TLSMounts
  <2>3. QED
    BY <1>3, <1>7, <1>8, <2>1, <2>2
<1>10. QED
  BY <1>3, <1>5, <1>6, <1>9 DEF HasRequiredParts, isPreReadinessInitContainerStatefulSet

-----------------------------------------------------------------------------
(* What a build from nothing has, every build has *)

\* A list of containers.
LEMMA ContainersWithin ==
  ASSUME NEW cs, ContainersTyped(cs), NEW plan, PlansTyped(plan),
         \A k \in DOMAIN plan : "command" \in DOMAIN plan[k].own,
         NEW o, ContainersTyped(o), OneSources(o),
         NEW fresh, fresh = Containers(Planned(Empty, plan), o),
         NEW all, all = Containers(Planned(cs, plan), o)
  PROVE  ContainersIn(fresh, all, DOMAIN plan)
<1>1. DOMAIN Empty = {} /\ \A k : At(Empty, k) = EmptyContainer
  BY EmptyTyped DEF At
<1>2. DOMAIN fresh = DOMAIN plan \cup DOMAIN o /\ DOMAIN all = DOMAIN cs \cup DOMAIN plan \cup DOMAIN o
  BY <1>1 DEF Containers, ByKey, Planned
<1>3. ASSUME NEW k \in DOMAIN fresh PROVE Within(fresh[k], all[k], k \in DOMAIN plan)
  <2>1. k \in DOMAIN o => ContainerTyped(o[k]) /\ OneSource(o[k].env)
    BY DEF ContainersTyped, OneSources
  <2>2. CASE k \in DOMAIN plan
    <3>1. PICK c, p : c = At(cs, k) /\ p = plan[k]
      OBVIOUS
    <3>2. ContainerTyped(c) /\ PlanTyped(p) /\ "command" \in DOMAIN p.own
      BY <2>2, <3>1, AtTyped DEF PlansTyped
    <3>3. PICK f, d : f = Overlaid(EmptyContainer, p) /\ d = Overlaid(c, p)
      OBVIOUS
    <3>4. Within(f, d, TRUE) /\ ContainerTyped(f) /\ ContainerTyped(d)
      BY <3>2, <3>3, PlanWithin, OverlaidTyped, EmptyContainerTyped
    <3>5. /\ k \in DOMAIN o => fresh[k] = Container(f, o[k]) /\ all[k] = Container(d, o[k])
          /\ k \notin DOMAIN o => fresh[k] = f /\ all[k] = d
      BY <1>1, <2>2, <3>1, <3>3 DEF Containers, ByKey, Planned
    <3>6. Within(fresh[k], all[k], TRUE)
      BY ZenonT(30), <2>1, <3>4, <3>5, OverrideWithin
    <3>7. QED
      BY <2>2, <3>6 DEF Within
  <2>3. CASE k \notin DOMAIN plan
    <3>1. k \in DOMAIN o
      BY <1>2, <2>3
    <3>2. /\ fresh[k] = o[k]
          /\ k \in DOMAIN cs => all[k] = Container(cs[k], o[k])
          /\ k \notin DOMAIN cs => all[k] = o[k]
      BY <1>1, <2>3, <3>1 DEF Containers, ByKey, Planned
    <3>3. k \in DOMAIN cs => ContainerTyped(cs[k])
      BY DEF ContainersTyped
    <3>4. Within(fresh[k], all[k], FALSE)
      BY <2>1, <3>1, <3>2, <3>3, UserWithin
    <3>5. QED
      BY <2>3, <3>4 DEF Within
  <2>4. QED
    BY <2>2, <2>3
<1>4. DOMAIN fresh \subseteq DOMAIN all
  BY <1>2
<1>5. QED
  BY <1>3, <1>4 DEF ContainersIn, Within

\* The template.
LEMMA TemplateWithin ==
  ASSUME NEW t, TemplateTyped(t), NEW o, TemplateTyped(o), OneSourceTemplate(o), NEW m, NEW rel,
         NEW d, IsModified(EmptyTemplate, d, m, rel), NEW fresh, IsMerged(d, o, fresh),
         NEW e, IsModified(t, e, m, rel), NEW all, IsMerged(e, o, all)
  PROVE  TemplateIn(fresh, all)
<1>1. TemplateTyped(EmptyTemplate)
  BY EmptySpecTyped DEF SpecTyped, EmptySpec
<1>2. /\ EmptyTemplate.fields = Empty /\ EmptyTemplate.containers = Empty
      /\ EmptyTemplate.initContainers = Empty /\ EmptyTemplate.volumes = Empty
      /\ EmptyTemplate.annotations = Empty /\ EmptyTemplate.tolerations = Empty
      /\ EmptyTemplate.topology = Empty
  BY DEF EmptyTemplate
<1>3. fresh.labels = all.labels
  BY SMT, <1>1, TemplateFirst
<1>4. ContainersIn(fresh.containers, all.containers, {AgentName, MongodbName})
  <2>1. \A k \in DOMAIN Plans(m, rel) : "command" \in DOMAIN Plans(m, rel)[k].own
    <3>1. \A x : /\ "command" \in DOMAIN AgentPlan(rel, x).own
                 /\ "command" \in DOMAIN MongodPlan(m.version, x).own
      BY DEF AgentPlan, MongodPlan
    <3>2. QED
      BY <3>1, PlansAre
  <2>2. /\ fresh.containers = Containers(Planned(Empty, Plans(m, rel)), o.containers)
        /\ all.containers = Containers(Planned(t.containers, Plans(m, rel)), o.containers)
    BY SMT, <1>1, <1>2, TemplateFirst
  <2>3. ContainersIn(fresh.containers, all.containers, DOMAIN Plans(m, rel))
    BY <2>1, <2>2, PlansFormed, ContainersWithin DEF TemplateTyped, OneSourceTemplate
  <2>4. QED
    BY <2>3, PlansAre
<1>5. ContainersIn(fresh.initContainers, all.initContainers,
                   {versionUpgradeHookName, ReadinessProbeContainerName})
  <2>1. \A k \in DOMAIN InitPlans(rel) : "command" \in DOMAIN InitPlans(rel)[k].own
    <3>1. "command" \in DOMAIN HookPlan(rel).own /\ "command" \in DOMAIN ProbePlan(rel).own
      BY DEF HookPlan, ProbePlan
    <3>2. QED
      BY <3>1, PlansAre
  <2>2. /\ fresh.initContainers = Containers(Planned(Empty, InitPlans(rel)), o.initContainers)
        /\ all.initContainers = Containers(Planned(t.initContainers, InitPlans(rel)), o.initContainers)
    BY SMT, <1>1, <1>2, TemplateFirst
  <2>3. ContainersIn(fresh.initContainers, all.initContainers, DOMAIN InitPlans(rel))
    BY <2>1, <2>2, PlansFormed, ContainersWithin DEF TemplateTyped, OneSourceTemplate
  <2>4. QED
    BY <2>3, PlansAre
<1>6. DOMAIN fresh.volumes \subseteq DOMAIN all.volumes
  <2>1. /\ fresh.volumes = Volumes(StringToStringMap(OperatorVolumes(m), Empty), o.volumes)
        /\ all.volumes = Volumes(StringToStringMap(OperatorVolumes(m), t.volumes), o.volumes)
    BY SMT, <1>1, <1>2, TemplateFirst
  <2>2. DOMAIN Empty = {}
    BY EmptyTyped
  <2>3. QED
    BY <2>1, <2>2 DEF Volumes, ByKey, StringToStringMap
<1>7. IsRestriction(fresh.annotations, all.annotations) /\ IsRestriction(fresh.tolerations, all.tolerations)
  <2>1. \A x, y : IsRestriction(StringToStringMap(Empty, y), StringToStringMap(x, y))
    BY FieldsWithin DEF Fields
  <2>2. QED
    BY SMT, <1>1, <1>2, <2>1, TemplateFirst
<1>8. IsRestriction(fresh.fields, all.fields)
  <2>1. /\ fresh.fields = Fields(Fields(Empty, PodFields), o.fields)
        /\ all.fields = Fields(Fields(t.fields, PodFields), o.fields)
    BY SMT, <1>1, <1>2, TemplateFirst
  <2>2. IsRestriction(Fields(Empty, PodFields), Fields(t.fields, PodFields))
    BY FieldsWithin
  <2>3. QED
    BY <2>1, <2>2, FieldsWithin
<1>9. \A f \in Range(fresh.topology) : \E c \in Range(all.topology) :
        c.key = f.key /\ IsRestriction(f.fields, c.fields)
  <2>1. /\ fresh.topology \in TopologySpreadConstraints(Empty, o.topology)
        /\ all.topology \in TopologySpreadConstraints(t.topology, o.topology)
    BY <1>1, <1>2, TemplateFirst
  <2>2. QED
    BY SMT, <2>1, TopologyWithin DEF TemplateTyped
<1>10. QED
  BY <1>3, <1>4, <1>5, <1>6, <1>7, <1>8, <1>9 DEF TemplateIn

\* The claims.
LEMMA ClaimsWithin ==
  ASSUME NEW x, ClaimsTyped(x), NEW o, ClaimsTyped(o),
         NEW fresh, fresh = KeptClaims(Empty, o), NEW all, all = KeptClaims(x, o)
  PROVE  ClaimsIn(fresh, all)
<1>1. DOMAIN Empty = {} /\ ClaimsTyped(Empty)
  BY EmptySpecTyped, EmptyTyped DEF SpecTyped, EmptySpec
<1>2. PICK y, z : y = OperatorClaims(Empty) /\ z = OperatorClaims(x)
  OBVIOUS
<1>3. AreClaimed(Empty, y) /\ AreClaimed(x, z)
  BY <1>1, <1>2, OperatorClaimsAre
<1>4. /\ DOMAIN y = OwnClaims /\ DOMAIN z = DOMAIN x \cup OwnClaims
      /\ \A k \in DOMAIN z : ClaimTyped(z[k])
      /\ \A k \in DOMAIN y : ClaimTyped(y[k])
      /\ \A k \in DOMAIN o : ClaimTyped(o[k])
  BY <1>1, <1>3 DEF AreClaimed, ClaimsTyped, ClaimTyped
<1>5. /\ DOMAIN fresh = DOMAIN y \cup DOMAIN o
      /\ \A k \in DOMAIN y \ DOMAIN o : fresh[k] = y[k]
      /\ \A k \in DOMAIN o \ DOMAIN y : fresh[k] = o[k]
      /\ \A k \in DOMAIN y \cap DOMAIN o : fresh[k] = PersistentVolumeClaim(y[k], o[k])
  BY <1>2 DEF KeptClaims, VolumeClaimTemplates, ByKey
<1>6. /\ DOMAIN all = DOMAIN z \cup DOMAIN o
      /\ \A k \in DOMAIN z \ DOMAIN o : all[k] = z[k]
      /\ \A k \in DOMAIN o \ DOMAIN z : all[k] = o[k]
      /\ \A k \in DOMAIN z \cap DOMAIN o : all[k] = PersistentVolumeClaim(z[k], o[k])
  BY <1>2 DEF KeptClaims, VolumeClaimTemplates, ByKey
<1>7. \A a, b, c : ClaimTyped(a) /\ ClaimTyped(b) /\ c = PersistentVolumeClaim(a, b) =>
        /\ c.fields = Fields(a.fields, b.fields)
        /\ c.accessModes = StringSlices(a.accessModes, b.accessModes)
  BY SMT, ClaimAgain
<1>8. ASSUME NEW k \in OwnClaims
      PROVE  IsRestriction(fresh[k].fields, all[k].fields) /\ fresh[k].accessModes = all[k].accessModes
  <2>1. /\ y[k].accessModes = z[k].accessModes
        /\ y[k].fields = Fields(Empty, Requests(k)) /\ z[k].fields = Fields(Had(x, k), Requests(k))
    BY <1>1, <1>3 DEF AreClaimed, Had
  <2>2. IsRestriction(y[k].fields, z[k].fields)
    BY <2>1, FieldsWithin
  <2>3. CASE k \notin DOMAIN o
    <3>1. fresh[k] = y[k] /\ all[k] = z[k]
      BY <1>4, <1>5, <1>6, <2>3
    <3>2. QED
      BY <2>1, <2>2, <3>1
  <2>4. CASE k \in DOMAIN o
    <3>1. fresh[k] = PersistentVolumeClaim(y[k], o[k]) /\ all[k] = PersistentVolumeClaim(z[k], o[k])
      BY <1>4, <1>5, <1>6, <2>4
    <3>2. /\ fresh[k].fields = Fields(y[k].fields, o[k].fields)
          /\ all[k].fields = Fields(z[k].fields, o[k].fields)
          /\ fresh[k].accessModes = all[k].accessModes
      BY SMT, <1>4, <1>7, <2>1, <2>4, <3>1
    <3>3. QED
      BY <2>2, <3>2, FieldsWithin
  <2>5. QED
    BY <2>3, <2>4
<1>9. ASSUME NEW k \in DOMAIN o \ OwnClaims
      PROVE  /\ IsRestriction(fresh[k].fields, all[k].fields)
             /\ Range(fresh[k].accessModes) \subseteq Range(all[k].accessModes)
  <2>1. fresh[k] = o[k]
    BY <1>4, <1>5
  <2>2. CASE k \notin DOMAIN z
    <3>1. all[k] = o[k]
      BY <1>6, <2>2
    <3>2. QED
      BY <2>1, <3>1, FieldsWithin
  <2>3. CASE k \in DOMAIN z
    <3>1. all[k] = PersistentVolumeClaim(z[k], o[k]) /\ ClaimTyped(z[k]) /\ ClaimTyped(o[k])
      BY <1>4, <1>6, <2>3
    <3>2. /\ all[k].fields = Fields(z[k].fields, o[k].fields)
          /\ all[k].accessModes = StringSlices(z[k].accessModes, o[k].accessModes)
      BY <1>7, <3>1
    <3>3. IsSlice(z[k].accessModes) /\ IsSlice(o[k].accessModes)
      BY <3>1 DEF ClaimTyped
    <3>4. IsRestriction(fresh[k].fields, all[k].fields)
      BY <2>1, <3>2, FieldsWithin
    <3>5. Range(fresh[k].accessModes) \subseteq Range(all[k].accessModes)
      BY <2>1, <3>2, <3>3, WordsWithin
    <3>6. QED
      BY <3>4, <3>5
  <2>4. QED
    BY <2>2, <2>3
<1>10. DOMAIN fresh \subseteq DOMAIN all /\ DOMAIN fresh = OwnClaims \cup DOMAIN o
  BY <1>4, <1>5, <1>6
<1>11. QED
  BY <1>8, <1>9, <1>10 DEF ClaimsIn, OwnClaims

\* Whatever set a build starts from, it has what a build from nothing has.
BuiltWithin(fresh, all) ==
  /\ IsRestriction(fresh.fields, all.fields)
  /\ "rollingUpdate" \in DOMAIN all.fields => "rollingUpdate" \in DOMAIN fresh.fields
  /\ fresh.selector.labels = all.selector.labels
  /\ ClaimsIn(fresh.claims, all.claims)
  /\ TemplateIn(fresh.template, all.template)

\* The build from the set has what the build from nothing has, for the same resource.
LEMMA SetWithin ==
  ASSUME NEW set, SpecTyped(set), NEW m, SpecTyped(m.override), OneSourceSpec(m.override), NEW rel,
         NEW fresh, IsBuilt(EmptySpec, m, rel, fresh), NEW all, IsBuilt(set, m, rel, all)
  PROVE  BuiltWithin(fresh, all)
<1>1. /\ EmptySpec.fields = Empty /\ EmptySpec.claims = Empty /\ EmptySpec.template = EmptyTemplate
  BY DEF EmptySpec
<1>2. /\ IsRestriction(fresh.fields, all.fields)
      /\ "rollingUpdate" \in DOMAIN all.fields => "rollingUpdate" \in DOMAIN fresh.fields
  <2>1. PICK p, o : p = OperatorFields(m) /\ o = m.override.fields
    OBVIOUS
  <2>2. AreKept(Empty, p, o, fresh.fields) /\ AreKept(set.fields, p, o, all.fields)
    BY <1>1, <2>1, FieldsKept DEF IsBuilt
  <2>3. DOMAIN p = {"serviceName", "replicas", "strategy"}
    BY <2>1 DEF OperatorFields
  <2>4. DOMAIN Empty = {}
    BY EmptyTyped
  <2>5. QED
    BY <2>2, <2>3, <2>4 DEF AreKept, IsRestriction
<1>3. fresh.selector.labels = all.selector.labels
  BY SMT DEF IsBuilt, KeptSelector, LabelSelectors
<1>4. ClaimsIn(fresh.claims, all.claims)
  BY <1>1, ClaimsWithin DEF IsBuilt, SpecTyped
<1>5. TemplateIn(fresh.template, all.template)
  <2>1. PICK d : IsModified(EmptyTemplate, d, m, rel) /\ IsMerged(d, m.override.template, fresh.template)
    BY <1>1 DEF IsBuilt
  <2>2. PICK e : IsModified(set.template, e, m, rel) /\ IsMerged(e, m.override.template, all.template)
    BY DEF IsBuilt
  <2>3. TemplateTyped(set.template) /\ TemplateTyped(m.override.template)
        /\ OneSourceTemplate(m.override.template)
    BY DEF SpecTyped, OneSourceSpec
  <2>4. QED
    BY <2>1, <2>2, <2>3, TemplateWithin
<1>6. QED
  BY <1>2, <1>3, <1>4, <1>5 DEF BuiltWithin

\* There is a build from nothing.
LEMMA FreshExists ==
  ASSUME NEW m, SpecTyped(m.override), NEW rel
  PROVE  buildStatefulSetModificationFunction(EmptySpec, m, rel) # {}
<1>1. PICK t, d, c, e :
        /\ t = PodTemplate(EmptyTemplate, m, rel)
        /\ d = buildTLSPodSpecModification(t, m)
        /\ c = BuildMongoDBReplicaSetStatefulSetModificationFunction(EmptySpec, m, rel)
        /\ e = [c EXCEPT !.template = buildTLSPodSpecModification(c.template, m)]
  OBVIOUS
<1>2. c.template = t /\ "template" \in DOMAIN c
  BY <1>1 DEF BuildMongoDBReplicaSetStatefulSetModificationFunction, EmptySpec
<1>3. e.template = d
  BY <1>1, <1>2
<1>4. TemplateTyped(EmptyTemplate) /\ TemplateTyped(m.override.template)
  BY EmptySpecTyped DEF SpecTyped, EmptySpec
<1>5. IsModified(EmptyTemplate, d, m, rel)
  BY <1>1, <1>4, TemplateModified
<1>6. d.topology = EmptyTemplate.topology
  BY <1>5 DEF IsModified, UserParts
<1>7. TopologySpreadConstraints(d.topology, m.override.template.topology) # {}
  BY <1>4, <1>6, TopologyMerged DEF TemplateTyped
<1>8. PodTemplateSpecs(d, m.override.template) # {}
  BY <1>7, MergedExists
<1>9. StatefulSetSpecs(e, m.override) # {}
  BY <1>3, <1>8 DEF StatefulSetSpecs
<1>10. QED
  BY <1>1, <1>9 DEF buildStatefulSetModificationFunction

-----------------------------------------------------------------------------
(* The invariants *)

\* The set a build starts from.
Seed == IF sts = None THEN EmptySpec ELSE sts

\* A reconciliation past the reset of the strategy has built the set for its version,
\* which it still is unless it was reset.
DoneInv ==
  done # None /\ deployed # None =>
    deployed.mdb.version = done /\ ~IsChangingVersion(deployed.mdb)

\* The shape of the variables.
ShapeInv ==
  /\ mdb \in Resources
  /\ release \in Releases
  /\ edits \in 0 .. MaxEdits
  /\ done \in Versions \cup {None}
  /\ sts # None => SpecTyped(sts)
  /\ deployed # None => deployed \in [mdb : Resources, release : Releases]
  /\ DoneInv

\* The written set is a build, of the resource and release it is recorded for,
\* from some well-formed set.
BuiltInv ==
  deployed # None => \E set : SpecTyped(set) /\ IsBuilt(set, deployed.mdb, deployed.release, sts)

\* The immutable part is what the first build gave it.
CreatedInv ==
  sts # None => /\ created \in Overrides
                /\ Immutable(sts) = Kept(Immutable(EmptySpec), Immutable(created))

\* No variable of a container has a value and a source.
SourcesInv ==
  sts # None => OneSources(sts.template.containers) /\ OneSources(sts.template.initContainers)

\* The history variables are None when there is no set.
PresentInv ==
  /\ created \in Overrides \cup {None}
  /\ (created = None) <=> (sts = None)
  /\ deployed # None => sts # None

\* What the steps do to the set: it is built, kept, reset or deleted; or the
\* version it was built for is recorded.
Written ==
  /\ SpecTyped(sts') /\ IsBuilt(Seed, mdb, release, sts') /\ Accepts(sts, sts')
  /\ deployed' = [mdb |-> mdb, release |-> release]
  /\ created' = IF sts = None THEN mdb.override ELSE created

KeptSet == sts' = sts /\ deployed' = deployed /\ created' = created

Reset ==
  /\ deployed # None /\ sts # None /\ SpecTyped(sts')
  /\ sts'.template = sts.template /\ Immutable(sts') = Immutable(sts)
  /\ deployed' = None /\ created' = created

Recorded ==
  /\ deployed # None /\ ~IsChangingVersion(deployed.mdb)
  /\ deployed'.mdb = [deployed.mdb EXCEPT !.last = deployed.mdb.version]
  /\ deployed'.release = deployed.release
  /\ mdb' = [mdb EXCEPT !.last = deployed.mdb.version]
  /\ sts' = sts /\ created' = created

Deleted == sts' = None /\ deployed' = None /\ created' = None

\* What a build starts from is well-formed.
LEMMA SeedTyped == ShapeInv => SpecTyped(Seed)
BY EmptySpecTyped DEF ShapeInv, Seed

\* An override is well-formed, and so is what the user wrote in a resource.
LEMMA OverrideTyped == \A m \in Resources : m.override \in Overrides /\ SpecTyped(m.override)
BY OverridesAssumption DEF Resources

\* Resetting the strategy touches neither the template nor the immutable part.
LEMMA ResetKeeps ==
  ASSUME NEW s, SpecTyped(s), NEW f,
         NEW r, r = [s EXCEPT !.fields = Fields(s.fields, [strategy |-> f])]
  PROVE  SpecTyped(r) /\ r.template = s.template /\ Immutable(r) = Immutable(s)
<1>1. IsMap(s) /\ DOMAIN s = {"fields", "selector", "claims", "template"}
  BY DEF SpecTyped, EmptySpec
<1>2. PICK g : g = Fields(s.fields, [strategy |-> f])
  OBVIOUS
<1>3. /\ IsMap(g) /\ DOMAIN g = DOMAIN s.fields \cup {"strategy"}
      /\ \A k \in DOMAIN s.fields \ {"strategy"} : g[k] = s.fields[k]
  BY <1>2 DEF Fields, StringToStringMap, IsMap
<1>4. /\ IsMap(r) /\ DOMAIN r = DOMAIN s /\ r.fields = g /\ r.selector = s.selector
      /\ r.claims = s.claims /\ r.template = s.template
  BY <1>1, <1>2 DEF IsMap
<1>5. FixedFields(r.fields) = FixedFields(s.fields)
  <2>1. DOMAIN g \ Mutable = DOMAIN s.fields \ Mutable
    BY <1>3 DEF Mutable
  <2>2. \A k \in DOMAIN g \ Mutable : g[k] = s.fields[k]
    BY <1>3 DEF Mutable
  <2>3. QED
    BY <1>4, <2>1, <2>2 DEF FixedFields, Restrict
<1>6. Immutable(r) = Immutable(s)
  BY <1>4, <1>5, ImmutableParts
<1>7. SpecTyped(r)
  BY <1>3, <1>4 DEF SpecTyped
<1>8. QED
  BY <1>4, <1>6, <1>7

\* The effect of a step.
LEMMA Effects ==
  ShapeInv /\ [Next]_vars => ShapeInv' /\ (Written \/ KeptSet \/ Reset \/ Recorded \/ Deleted)
<1> SUFFICES ASSUME ShapeInv, [Next]_vars
            PROVE  ShapeInv' /\ (Written \/ KeptSet \/ Reset \/ Recorded \/ Deleted)
  OBVIOUS
<1>1. CASE createOrUpdateStatefulSet
  <2>1. PICK built \in Build(sts, mdb, release) :
          \/ /\ Accepts(sts, built) /\ sts' = built
             /\ deployed' = [mdb |-> mdb, release |-> release]
             /\ created' = IF sts = None THEN mdb.override ELSE created
          \/ UNCHANGED <<sts, deployed, created>>
    BY <1>1 DEF createOrUpdateStatefulSet
  <2>2. done' = None /\ UNCHANGED <<mdb, release, edits>>
    BY <1>1 DEF createOrUpdateStatefulSet
  <2>3. IsBuilt(Seed, mdb, release, built)
    BY SeedTyped, BuildIs DEF Build, Seed
  <2>4. SpecTyped(built)
    BY <2>3, SeedTyped, OverrideTyped, BuildTyped DEF ShapeInv
  <2>5. CASE UNCHANGED <<sts, deployed, created>>
    BY <2>2, <2>5 DEF ShapeInv, DoneInv, KeptSet
  <2>6. CASE /\ Accepts(sts, built) /\ sts' = built
             /\ deployed' = [mdb |-> mdb, release |-> release]
             /\ created' = IF sts = None THEN mdb.override ELSE created
    <3>1. Written
      BY <2>3, <2>4, <2>6 DEF Written
    <3>2. ShapeInv'
      BY <2>2, <2>4, <2>6 DEF ShapeInv, DoneInv
    <3>3. QED
      BY <3>1, <3>2
  <2>7. QED
    BY <2>1, <2>5, <2>6
<1>2. CASE ChangeVersion \/ Scale \/ ChangeTLS \/ ChangeOverride
  <2>1. mdb' \in Resources
    BY <1>2 DEF ChangeVersion, Scale, ChangeTLS, ChangeOverride, Edit, ShapeInv, Resources
  <2>2. /\ UNCHANGED <<sts, deployed, release, created, done>>
        /\ edits < MaxEdits /\ edits' = edits + 1
    BY <1>2 DEF ChangeVersion, Scale, ChangeTLS, ChangeOverride, Edit
  <2>3. edits' \in 0 .. MaxEdits
    BY SMT, <2>2, BuilderAssumption DEF ShapeInv
  <2>4. QED
    BY <2>1, <2>2, <2>3 DEF ShapeInv, DoneInv, KeptSet
<1>3. CASE ResetUpdateStrategy
  <2>1. /\ deployed # None /\ sts # None /\ done' = deployed.mdb.version
        /\ deployed \in [mdb : Resources, release : Releases]
        /\ UNCHANGED <<mdb, release, created, edits>>
    BY <1>3 DEF ResetUpdateStrategy, ShapeInv
  <2>2. done' \in Versions
    BY <2>1 DEF Resources
  <2>3. CASE IsChangingVersion(deployed.mdb)
    <3>1. /\ deployed' = None
          /\ sts' = [sts EXCEPT !.fields = Fields(sts.fields, [strategy |-> "RollingUpdate"])]
      BY <1>3, <2>3 DEF ResetUpdateStrategy
    <3>2. SpecTyped(sts') /\ sts'.template = sts.template /\ Immutable(sts') = Immutable(sts)
      BY <2>1, <3>1, ResetKeeps DEF ShapeInv
    <3>3. QED
      BY <2>1, <2>2, <3>1, <3>2 DEF ShapeInv, DoneInv, Reset
  <2>4. CASE ~IsChangingVersion(deployed.mdb)
    <3>1. sts' = sts /\ deployed' = deployed
      BY <1>3, <2>4 DEF ResetUpdateStrategy
    <3>2. QED
      BY <2>1, <2>2, <2>4, <3>1 DEF ShapeInv, DoneInv, KeptSet
  <2>5. QED
    BY <2>3, <2>4
<1>4. CASE updateLastSuccessfulConfiguration
  <2>1. /\ done # None /\ done' = None /\ mdb' = [mdb EXCEPT !.last = done]
        /\ UNCHANGED <<release, sts, created, edits>>
    BY <1>4 DEF updateLastSuccessfulConfiguration
  <2>2. done \in Versions /\ mdb' \in Resources
    BY <2>1 DEF ShapeInv, Resources
  <2>3. CASE deployed = None
    <3>1. deployed' = deployed
      BY <1>4, <2>3 DEF updateLastSuccessfulConfiguration
    <3>2. QED
      BY <2>1, <2>2, <3>1 DEF ShapeInv, DoneInv, KeptSet
  <2>4. CASE deployed # None
    <3>1. deployed' = [deployed EXCEPT !.mdb.last = done]
      BY <1>4, <2>4 DEF updateLastSuccessfulConfiguration
    <3>2. /\ deployed \in [mdb : Resources, release : Releases]
          /\ done = deployed.mdb.version /\ ~IsChangingVersion(deployed.mdb)
      BY <2>1, <2>4 DEF ShapeInv, DoneInv
    <3>3. /\ deployed'.mdb = [deployed.mdb EXCEPT !.last = done]
          /\ deployed'.release = deployed.release
          /\ deployed' = [mdb |-> deployed'.mdb, release |-> deployed'.release]
      BY <3>1, <3>2
    <3>4. deployed'.mdb \in Resources
      BY <2>2, <3>2, <3>3 DEF Resources
    <3>5. deployed' \in [mdb : Resources, release : Releases]
      BY <3>2, <3>3, <3>4
    <3>6. ShapeInv'
      BY <2>1, <2>2, <3>5 DEF ShapeInv, DoneInv
    <3>7. Recorded
      BY <2>1, <2>4, <3>2, <3>3 DEF Recorded
    <3>8. QED
      BY <3>6, <3>7
  <2>5. QED
    BY <2>3, <2>4
<1>5. CASE UpgradeOperator
  <2>1. /\ release' \in Releases /\ done' = None /\ edits < MaxEdits /\ edits' = edits + 1
        /\ UNCHANGED <<mdb, sts, deployed, created>>
    BY <1>5 DEF UpgradeOperator
  <2>2. edits' \in 0 .. MaxEdits
    BY SMT, <2>1, BuilderAssumption DEF ShapeInv
  <2>3. QED
    BY <2>1, <2>2 DEF ShapeInv, DoneInv, KeptSet
<1>6. CASE DeleteStatefulSet
  <2>1. /\ sts' = None /\ deployed' = None /\ created' = None
        /\ edits < MaxEdits /\ edits' = edits + 1 /\ UNCHANGED <<mdb, release, done>>
    BY <1>6 DEF DeleteStatefulSet
  <2>2. edits' \in 0 .. MaxEdits
    BY SMT, <2>1, BuilderAssumption DEF ShapeInv
  <2>3. QED
    BY <2>1, <2>2 DEF ShapeInv, DoneInv, Deleted
<1>7. CASE UNCHANGED vars
  BY <1>7 DEF vars, ShapeInv, DoneInv, KeptSet
<1>8. QED
  BY <1>1, <1>2, <1>3, <1>4, <1>5, <1>6, <1>7 DEF Next

\* A set an older operator left: a build from nothing without the probe's container.
LEMMA LegacyIs ==
  ASSUME NEW m \in Resources, NEW rel, NEW s \in LegacySpecs(m, rel)
  PROVE  \E b : /\ IsBuilt(EmptySpec, m, rel, b) /\ SpecTyped(b) /\ SpecTyped(s)
                /\ Immutable(s) = Immutable(b)
                /\ s.template.containers = b.template.containers
                /\ OneSources(b.template.initContainers) => OneSources(s.template.initContainers)
<1>1. PICK b \in Build(None, m, rel) :
        s = [b EXCEPT !.template.initContainers =
               Restrict(@, DOMAIN @ \ {ReadinessProbeContainerName})]
  BY DEF LegacySpecs
<1>2. IsBuilt(EmptySpec, m, rel, b)
  BY <1>1, EmptySpecTyped, BuildIs DEF Build
<1>3. SpecTyped(b)
  BY <1>2, EmptySpecTyped, OverrideTyped, BuildTyped
<1>4. PICK i, j, t, u :
        /\ i = b.template.initContainers
        /\ j = Restrict(i, DOMAIN i \ {ReadinessProbeContainerName})
        /\ t = b.template /\ u = [t EXCEPT !.initContainers = j]
  OBVIOUS
<1>5. /\ IsMap(b) /\ DOMAIN b = {"fields", "selector", "claims", "template"}
      /\ IsMap(t) /\ DOMAIN t = DOMAIN EmptyTemplate /\ "initContainers" \in DOMAIN EmptyTemplate
  BY <1>3, <1>4 DEF SpecTyped, EmptySpec, TemplateTyped, EmptyTemplate
<1>6. s = [b EXCEPT !.template = u]
  BY <1>1, <1>4, <1>5
<1>7. /\ IsMap(s) /\ DOMAIN s = DOMAIN b /\ s.template = u /\ s.fields = b.fields
      /\ s.selector = b.selector /\ s.claims = b.claims
  BY <1>5, <1>6 DEF IsMap
<1>8. /\ IsMap(j) /\ DOMAIN j \subseteq DOMAIN i /\ \A k \in DOMAIN j : j[k] = i[k]
  BY <1>4 DEF Restrict, IsMap
<1>9. /\ IsMap(u) /\ DOMAIN u = DOMAIN t /\ u.initContainers = j
      /\ \A f \in DOMAIN t \ {"initContainers"} : u[f] = t[f]
  BY <1>4, <1>5 DEF IsMap
<1>10. SpecTyped(s)
  <2>1. ContainersTyped(j)
    BY <1>3, <1>4, <1>8 DEF SpecTyped, TemplateTyped, ContainersTyped
  <2>2. /\ u.labels = t.labels /\ u.annotations = t.annotations /\ u.fields = t.fields
        /\ u.nodeSelector = t.nodeSelector /\ u.affinity = t.affinity
        /\ u.tolerations = t.tolerations /\ u.hostAliases = t.hostAliases
        /\ u.containers = t.containers /\ u.ephemeral = t.ephemeral /\ u.volumes = t.volumes
        /\ u.dnsConfig = t.dnsConfig /\ u.topology = t.topology
    BY <1>5, <1>9 DEF EmptyTemplate
  <2>3. TemplateTyped(t)
    BY <1>3, <1>4 DEF SpecTyped
  <2>4. TemplateTyped(u)
    BY <1>5, <1>9, <2>1, <2>2, <2>3 DEF TemplateTyped
  <2>5. QED
    BY <1>3, <1>7, <2>4 DEF SpecTyped
<1>11. Immutable(s) = Immutable(b)
  BY <1>7, ImmutableParts
<1>12. s.template.containers = b.template.containers
  BY <1>4, <1>5, <1>7, <1>9 DEF EmptyTemplate
<1>13. OneSources(b.template.initContainers) => OneSources(s.template.initContainers)
  <2>1. s.template.initContainers = j /\ b.template.initContainers = i
    BY <1>4, <1>7, <1>9
  <2>2. OneSources(i) => OneSources(j)
    BY <1>8 DEF OneSources
  <2>3. QED
    BY <2>1, <2>2
<1>14. QED
  BY <1>2, <1>3, <1>10, <1>11, <1>12, <1>13

\* The initial states.
LEMMA ShapeInit == Init => ShapeInv /\ deployed = None
<1> SUFFICES ASSUME Init PROVE ShapeInv /\ deployed = None
  OBVIOUS
<1>1. mdb \in Resources /\ release \in Releases
  BY SMT, BuilderAssumption DEF Init, Resources
<1>2. sts # None => SpecTyped(sts)
  BY <1>1, LegacyIs DEF Init
<1>3. edits \in 0 .. MaxEdits
  BY SMT, BuilderAssumption DEF Init
<1>4. QED
  BY <1>1, <1>2, <1>3 DEF Init, ShapeInv, DoneInv

\* Recording the version a set was built for changes nothing a build depends on.
LEMMA RecordedBuilt ==
  ASSUME NEW m \in Resources, ~IsChangingVersion(m), NEW n, n = [m EXCEPT !.last = m.version],
         NEW rel, NEW set, NEW b, IsBuilt(set, m, rel, b)
  PROVE  IsBuilt(set, n, rel, b)
<1>1. /\ n.version = m.version /\ n.replicas = m.replicas /\ n.tls = m.tls /\ n.ca = m.ca
      /\ n.override = m.override /\ n.last = n.version
  BY DEF Resources
<1>2. OperatorFields(n) = OperatorFields(m)
  BY <1>1 DEF OperatorFields, GetUpdateStrategyType, IsChangingVersion
<1>3. Plans(n, rel) = Plans(m, rel) /\ OperatorVolumes(n) = OperatorVolumes(m)
  BY SMT, <1>1 DEF Plans, Extra, OperatorVolumes
<1>4. \A d : IsModified(set.template, d, m, rel) => IsModified(set.template, d, n, rel)
  BY <1>3 DEF IsModified
<1>5. QED
  BY <1>1, <1>2, <1>4 DEF IsBuilt

\* The written set is always a build of what it is recorded for.
LEMMA BuiltNext == ShapeInv /\ BuiltInv /\ [Next]_vars => BuiltInv'
<1> SUFFICES ASSUME ShapeInv, BuiltInv, [Next]_vars PROVE BuiltInv'
  OBVIOUS
<1>1. CASE Written
  <2>1. deployed'.mdb = mdb /\ deployed'.release = release /\ IsBuilt(Seed, mdb, release, sts')
    BY <1>1 DEF Written
  <2>2. QED
    BY <2>1, SeedTyped DEF BuiltInv
<1>2. CASE KeptSet
  BY <1>2 DEF KeptSet, BuiltInv
<1>3. CASE Reset \/ Deleted
  BY <1>3 DEF Reset, Deleted, BuiltInv
<1>4. CASE Recorded
  <2>1. deployed.mdb \in Resources
    BY <1>4 DEF Recorded, ShapeInv
  <2>2. PICK set : SpecTyped(set) /\ IsBuilt(set, deployed.mdb, deployed.release, sts)
    BY <1>4 DEF Recorded, BuiltInv
  <2>3. IsBuilt(set, deployed'.mdb, deployed'.release, sts')
    BY <1>4, <2>1, <2>2, RecordedBuilt DEF Recorded
  <2>4. QED
    BY <2>2, <2>3 DEF BuiltInv
<1>5. QED
  BY <1>1, <1>2, <1>3, <1>4, Effects

\* Both invariants always hold.
LEMMA BuiltAlways == Spec => [](ShapeInv /\ BuiltInv)
<1>1. Init => ShapeInv /\ BuiltInv
  BY ShapeInit DEF BuiltInv
<1>2. ShapeInv /\ BuiltInv /\ [Next]_vars => (ShapeInv /\ BuiltInv)'
  BY Effects, BuiltNext
<1>3. QED
  BY <1>1, <1>2, PTL DEF Spec

\* For every override and every history of edits, upgrades of the operator and
\* deletions, a written set has the parts the operator needs.
THEOREM RequiredAlways == Spec => []RequiredParts
<1>1. ShapeInv /\ BuiltInv => RequiredParts
  <2> SUFFICES ASSUME ShapeInv, BuiltInv, deployed # None
              PROVE  HasRequiredParts(sts, deployed.mdb.tls)
    BY DEF RequiredParts
  <2>1. deployed.mdb \in Resources
    BY DEF ShapeInv
  <2>2. PICK set : SpecTyped(set) /\ IsBuilt(set, deployed.mdb, deployed.release, sts)
    BY DEF BuiltInv
  <2>3. QED
    BY <2>1, <2>2, OverrideTyped, BuiltParts
<1>2. QED
  BY <1>1, BuiltAlways, PTL

\* Whatever the set was grown from, it has what a build from nothing would have.
THEOREM HistoryIndependentAlways ==
  (\A o \in Overrides : OneSourceSpec(o)) => (Spec => []HistoryIndependent)
<1> SUFFICES ASSUME \A o \in Overrides : OneSourceSpec(o) PROVE Spec => []HistoryIndependent
  OBVIOUS
<1>1. ShapeInv /\ BuiltInv => HistoryIndependent
  <2> SUFFICES ASSUME ShapeInv, BuiltInv, deployed # None
              PROVE  \E fresh \in Build(None, deployed.mdb, deployed.release) : BuiltWithin(fresh, sts)
    BY DEF HistoryIndependent, BuiltWithin
  <2>1. PICK m, rel : m = deployed.mdb /\ rel = deployed.release
    OBVIOUS
  <2>2. m \in Resources
    BY <2>1 DEF ShapeInv
  <2>3. SpecTyped(m.override) /\ OneSourceSpec(m.override)
    BY <2>2, OverrideTyped
  <2>4. PICK set : SpecTyped(set) /\ IsBuilt(set, m, rel, sts)
    BY <2>1 DEF BuiltInv
  <2>5. Build(None, m, rel) = buildStatefulSetModificationFunction(EmptySpec, m, rel)
    BY DEF Build
  <2>6. PICK fresh \in Build(None, m, rel) : TRUE
    BY <2>3, <2>5, FreshExists
  <2>7. IsBuilt(EmptySpec, m, rel, fresh)
    BY <2>5, <2>6, EmptySpecTyped, BuildIs
  <2>8. BuiltWithin(fresh, sts)
    BY <2>3, <2>4, <2>7, SetWithin
  <2>9. QED
    BY <2>1, <2>8
<1>2. QED
  BY <1>1, BuiltAlways, PTL

\* The immutable part stays what the first build gave it.
LEMMA CreatedAlways == Spec => [](ShapeInv /\ CreatedInv)
<1>1. \A m \in Resources : \A rel, b : IsBuilt(EmptySpec, m, rel, b) =>
        m.override \in Overrides /\ Immutable(b) = Kept(Immutable(EmptySpec), Immutable(m.override))
  BY OverrideTyped, ImmutableBuilt
<1>2. Init => ShapeInv /\ CreatedInv
  <2> SUFFICES ASSUME Init PROVE CreatedInv
    BY ShapeInit
  <2> SUFFICES ASSUME sts # None
              PROVE  /\ created \in Overrides
                     /\ Immutable(sts) = Kept(Immutable(EmptySpec), Immutable(created))
    BY DEF CreatedInv
  <2>1. mdb \in Resources /\ created = mdb.override /\ sts \in LegacySpecs(mdb, release)
    BY ShapeInit DEF ShapeInv, Init
  <2>2. PICK b : IsBuilt(EmptySpec, mdb, release, b) /\ Immutable(sts) = Immutable(b)
    BY SMT, <2>1, LegacyIs
  <2>3. QED
    BY <1>1, <2>1, <2>2
<1>3. ShapeInv /\ CreatedInv /\ [Next]_vars => (ShapeInv /\ CreatedInv)'
  <2> SUFFICES ASSUME ShapeInv, CreatedInv, [Next]_vars PROVE CreatedInv'
    BY Effects
  <2>1. CASE Written /\ sts = None
    <3>1. IsBuilt(EmptySpec, mdb, release, sts') /\ created' = mdb.override
      BY <2>1 DEF Written, Seed
    <3>2. QED
      BY <1>1, <3>1 DEF CreatedInv, ShapeInv
  <2>2. CASE Written /\ sts # None
    BY <2>2 DEF Written, Accepts, CreatedInv
  <2>3. CASE KeptSet \/ Reset \/ Recorded \/ Deleted
    BY <2>3 DEF KeptSet, Reset, Recorded, Deleted, CreatedInv
  <2>4. QED
    BY <2>1, <2>2, <2>3, Effects
<1>4. QED
  BY <1>2, <1>3, PTL DEF Spec

\* As long as the override asks for the immutable fields the set was created with, a
\* write of the set is rejected if and only if its strategy clashes with the operator's.
THEOREM UpdatesAlwaysAccepted == Spec => []UpdatesAccepted
<1>1. ShapeInv /\ CreatedInv => UpdatesAccepted
  <2> SUFFICES ASSUME ShapeInv, CreatedInv,
                      sts # None => Immutable(mdb.override) = Immutable(created),
                      NEW built \in Build(sts, mdb, release)
              PROVE  Accepts(sts, built) <=> ~StrategyClash(mdb)
    BY DEF UpdatesAccepted
  <2>1. SpecTyped(Seed) /\ mdb \in Resources
    BY SeedTyped DEF ShapeInv
  <2>2. IsBuilt(Seed, mdb, release, built)
    BY <2>1, BuildIs DEF Build, Seed
  <2>3. WellFormed(built) <=> ~StrategyClash(mdb)
    BY <2>2, ClashBuilt
  <2>4. ASSUME sts # None PROVE Immutable(sts) = Immutable(built)
    <3>1. PICK x, o : x = Immutable(EmptySpec) /\ o = Immutable(mdb.override)
      OBVIOUS
    <3>2. Immutable(sts) = Kept(x, o)
      BY <2>4, <3>1 DEF CreatedInv
    <3>3. Immutable(built) = Kept(Kept(x, o), o)
      BY <2>2, <2>4, <3>1, <3>2, ImmutableBuilt DEF Seed
    <3>4. /\ SelectorTyped(x.selector) /\ ClaimsTyped(x.claims)
          /\ SelectorTyped(o.selector) /\ ClaimsTyped(o.claims)
      BY <2>1, <3>1, OverrideTyped, EmptySpecTyped, ImmutableParts DEF SpecTyped
    <3>5. QED
      BY <3>2, <3>3, <3>4, KeptTwice
  <2>5. QED
    BY <2>3, <2>4 DEF Accepts
<1>2. QED
  BY <1>1, CreatedAlways, PTL

\* When None is no spec, the history variables are None when there is no set.
LEMMA PresentAlways == ~SpecTyped(None) => (Spec => [](ShapeInv /\ PresentInv))
<1> SUFFICES ASSUME ~SpecTyped(None) PROVE Spec => [](ShapeInv /\ PresentInv)
  OBVIOUS
<1>1. \A m \in Resources : m.override \in Overrides /\ m.override # None
  BY OverrideTyped
<1>2. Init => ShapeInv /\ PresentInv
  BY <1>1, ShapeInit DEF Init, ShapeInv, PresentInv
<1>3. ShapeInv /\ PresentInv /\ [Next]_vars => (ShapeInv /\ PresentInv)'
  <2> SUFFICES ASSUME ShapeInv, PresentInv, [Next]_vars PROVE PresentInv'
    BY Effects
  <2>1. CASE Written
    <3>1. sts' # None
      BY <2>1 DEF Written
    <3>2. QED
      BY <1>1, <2>1, <3>1 DEF Written, ShapeInv, PresentInv
  <2>2. CASE Reset
    <3>1. sts' # None
      BY <2>2 DEF Reset
    <3>2. QED
      BY <2>2, <3>1 DEF Reset, PresentInv
  <2>3. CASE Recorded
    <3>1. deployed # None
      BY <2>3 DEF Recorded
    <3>2. QED
      BY <2>3, <3>1 DEF Recorded, PresentInv
  <2>4. CASE KeptSet \/ Deleted
    BY <2>4 DEF KeptSet, Deleted, PresentInv
  <2>5. QED
    BY <2>1, <2>2, <2>3, <2>4, Effects
<1>4. QED
  BY <1>2, <1>3, PTL DEF Spec

\* Where no override gives a variable both a value and a source, no written set does.
LEMMA SourcesAlways ==
  (\A o \in Overrides : OneSourceSpec(o)) => (Spec => [](ShapeInv /\ SourcesInv))
<1> SUFFICES ASSUME \A o \in Overrides : OneSourceSpec(o) PROVE Spec => [](ShapeInv /\ SourcesInv)
  OBVIOUS
<1>1. ASSUME NEW set, SpecTyped(set), OneSources(set.template.containers),
             OneSources(set.template.initContainers),
             NEW m \in Resources, NEW rel, NEW b, IsBuilt(set, m, rel, b)
      PROVE  OneSources(b.template.containers) /\ OneSources(b.template.initContainers)
  <2>1. PICK d : IsModified(set.template, d, m, rel) /\ IsMerged(d, m.override.template, b.template)
    BY <1>1 DEF IsBuilt
  <2>2. /\ TemplateTyped(set.template) /\ TemplateTyped(m.override.template)
        /\ OneSourceTemplate(m.override.template)
    BY <1>1, OverrideTyped DEF SpecTyped, OneSourceSpec
  <2>3. QED
    BY <1>1, <2>1, <2>2, TemplateSources
<1>2. OneSources(EmptySpec.template.containers) /\ OneSources(EmptySpec.template.initContainers)
  BY EmptyTyped DEF EmptySpec, EmptyTemplate, OneSources
<1>3. Init => ShapeInv /\ SourcesInv
  <2> SUFFICES ASSUME Init, sts # None
              PROVE  OneSources(sts.template.containers) /\ OneSources(sts.template.initContainers)
    BY ShapeInit DEF SourcesInv
  <2>1. mdb \in Resources /\ sts \in LegacySpecs(mdb, release)
    BY ShapeInit DEF ShapeInv, Init
  <2>2. PICK b : /\ IsBuilt(EmptySpec, mdb, release, b)
                 /\ sts.template.containers = b.template.containers
                 /\ OneSources(b.template.initContainers) => OneSources(sts.template.initContainers)
    BY <2>1, LegacyIs
  <2>3. QED
    BY <1>1, <1>2, <2>1, <2>2, EmptySpecTyped
<1>4. ShapeInv /\ SourcesInv /\ [Next]_vars => (ShapeInv /\ SourcesInv)'
  <2> SUFFICES ASSUME ShapeInv, SourcesInv, [Next]_vars PROVE SourcesInv'
    BY Effects
  <2>1. CASE Written
    <3>1. OneSources(Seed.template.containers) /\ OneSources(Seed.template.initContainers)
      BY <1>2 DEF Seed, SourcesInv
    <3>2. IsBuilt(Seed, mdb, release, sts') /\ mdb \in Resources
      BY <2>1 DEF Written, ShapeInv
    <3>3. QED
      BY <1>1, <3>1, <3>2, SeedTyped DEF SourcesInv
  <2>2. CASE KeptSet \/ Reset \/ Recorded \/ Deleted
    BY <2>2 DEF KeptSet, Reset, Recorded, Deleted, SourcesInv
  <2>3. QED
    BY <2>1, <2>2, Effects
<1>5. QED
  BY <1>3, <1>4, PTL DEF Spec

\* The types; and no variable of a container has both a value and a source.
THEOREM TypeCorrect ==
  ~SpecTyped(None) /\ (\A o \in Overrides : OneSourceSpec(o)) => (Spec => []TypeOK)
<1> SUFFICES ASSUME ~SpecTyped(None), \A o \in Overrides : OneSourceSpec(o)
            PROVE  Spec => []TypeOK
  OBVIOUS
<1>1. ShapeInv /\ PresentInv /\ SourcesInv => TypeOK
  <2>1. ASSUME NEW cs, OneSources(cs), NEW c \in Range(cs), NEW e \in Range(c.env)
        PROVE  DOMAIN e # {"value", "valueFrom"}
    BY <2>1 DEF OneSources, OneSource, Range
  <2>2. SourcesInv /\ sts # None =>
          \A c \in AllContainers(sts.template) : \A e \in Range(c.env) :
             DOMAIN e # {"value", "valueFrom"}
    BY <2>1 DEF SourcesInv, AllContainers
  <2>3. QED
    BY <2>2 DEF ShapeInv, PresentInv, TypeOK
<1>2. QED
  BY <1>1, PresentAlways, SourcesAlways, PTL

\* Reconciling again with nothing edited writes the same set, but for the order of two
\* or more topology spread constraints under an override that has some.
THEOREM IdleStable ==
  ~SpecTyped(None) /\ (\A o \in Overrides : OneSourceSpec(o)) => (Spec => StableWithoutEdits)
<1> SUFFICES ASSUME ~SpecTyped(None), \A o \in Overrides : OneSourceSpec(o)
            PROVE  Spec => StableWithoutEdits
  OBVIOUS
<1> DEFINE Reordered == /\ mdb.override.template.topology # Empty
                        /\ Len(sts.template.topology) > 1
                        /\ UpToOrder(sts') = UpToOrder(sts)
<1>1. ShapeInv /\ BuiltInv /\ PresentInv /\ [Next]_vars =>
        [deployed = [mdb |-> mdb, release |-> release] /\ deployed' # None
           => sts' = sts \/ Reordered]_vars
  <2> SUFFICES ASSUME ShapeInv, BuiltInv, PresentInv, [Next]_vars,
                      deployed = [mdb |-> mdb, release |-> release], deployed' # None
              PROVE  sts' = sts \/ Reordered
    OBVIOUS
  <2>1. CASE Written
    <3>1. deployed # None /\ deployed.mdb = mdb /\ deployed.release = release
      BY SMT, OverridesAssumption DEF ShapeInv
    <3>2. sts # None
      BY <3>1 DEF PresentInv
    <3>3. PICK set : SpecTyped(set) /\ IsBuilt(set, mdb, release, sts)
      BY <3>1 DEF BuiltInv
    <3>4. IsBuilt(sts, mdb, release, sts')
      BY <2>1, <3>2 DEF Written, Seed
    <3>5. SpecTyped(mdb.override) /\ OneSourceSpec(mdb.override)
      BY OverrideTyped DEF ShapeInv
    <3>6. /\ UpToOrder(sts') = UpToOrder(sts)
          /\ mdb.override.template.topology = Empty \/ ~(Len(sts.template.topology) > 1)
               => sts' = sts
      BY SMT, <3>3, <3>4, <3>5, BuildTwice
    <3>7. QED
      BY <3>6
  <2>2. CASE KeptSet \/ Recorded
    BY <2>2 DEF KeptSet, Recorded
  <2>3. CASE Reset \/ Deleted
    BY <2>3 DEF Reset, Deleted
  <2>4. QED
    BY <2>1, <2>2, <2>3, Effects
<1>2. QED
  BY <1>1, BuiltAlways, PresentAlways, PTL DEF Spec, StableWithoutEdits
=============================================================================
