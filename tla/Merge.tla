------------------------------- MODULE Merge -------------------------------
(***************************************************************************)
(* pkg/util/merge: how a user's StatefulSet override is laid over the      *)
(* StatefulSet the operator is about to write.                             *)
(*                                                                         *)
(* Representation.  A Go struct of optional fields is a function from the  *)
(* names of the fields that are set: a field with its zero value ("", 0,   *)
(* nil, false) is outside the domain, and a nil pointer is the empty       *)
(* function.  A slice whose elements the code merges by a key and then     *)
(* sorts by that key is the function from its keys to the rest of each     *)
(* element.  Slices of strings stay sequences.  The one list whose order   *)
(* the code leaves to Go's map iteration and that Kubernetes compares in   *)
(* order, the topology spread constraints, stays a sequence too, and       *)
(* merging it yields the set of orders it may come back in.  The items of  *)
(* a secret or config map volume are unordered in the code as well; their  *)
(* order is not modelled.                                                  *)
(***************************************************************************)
EXTENDS Naturals, Sequences, FiniteSetsExt

\* No field set, no entry: the empty function (an empty map, a nil pointer).
Empty == << >>

\* The bug a merge that does not look for duplicates would be.
StringSlicesAppended(slice1, slice2) == slice1 \o slice2

\* The words of slice2, from the first to the last, unless they are there.
StringSlices(slice1, slice2) ==
    MapThenFoldSet(LAMBDA s, merged : IF s \in Range(merged) THEN merged ELSE Append(merged, s),
                   slice1, LAMBDA i : slice2[i], LAMBDA positions : Max(positions),
                   DOMAIN slice2)

StringToStringMap(map1, map2) ==
    [k \in DOMAIN map1 \cup DOMAIN map2 |-> IF k \in DOMAIN map2 THEN map2[k] ELSE map1[k]]

\* "if override.F is not zero then merged.F = override.F", for every field F.
Fields(original, override) == StringToStringMap(original, override)

\* Slices merged by key: an element on one side only is taken as it is.
ByKey(original, override, Merged(_, _)) ==
    [k \in DOMAIN original \cup DOMAIN override |->
        IF k \notin DOMAIN override THEN original[k]
        ELSE IF k \notin DOMAIN original THEN override[k]
        ELSE Merged(original[k], override[k])]

-----------------------------------------------------------------------------
(* Containers. *)

Probe(original, override) == Fields(original, override)

LifeCycle(original, override) == Fields(original, override)

SecurityContext(original, override) == Fields(original, override)

VolumeDevices(original, override) == ByKey(original, override, Fields)

\* The bug a dropped "merged.ValueFrom = nil" would be.
mergeSingleEnvKeepsSource(original, override) ==
    Fields(original, override)

\* A variable has a "value" or a source ("valueFrom"), never both.
mergeSingleEnv(original, override) ==
    CASE "valueFrom" \in DOMAIN override -> [valueFrom |-> override.valueFrom]
      [] "valueFrom" \notin DOMAIN override /\ "value" \in DOMAIN override ->
             [value |-> override.value]
      [] OTHER -> original

Envs(original, override) == ByKey(original, override, mergeSingleEnv)

\* Limits and requests are each replaced as a whole.
ResourceRequirements(original, override) == Fields(original, override)

ContainerPorts(defaultPort, overridePort) == Fields(defaultPort, overridePort)

ContainerPortSlicesByName(defaultPorts, overridePorts) ==
    ByKey(defaultPorts, overridePorts, ContainerPorts)

\* ReadOnly is set when true: an override can make a mount read-only and
\* cannot make it writable.
VolumeMount(original, override) == Fields(original, override)

\* The key of a mount is its volume, its path and its sub-path.
VolumeMounts(original, override) == ByKey(original, override, VolumeMount)

Container(defaultContainer, overrideContainer) ==
    [fields    |-> Fields(defaultContainer.fields, overrideContainer.fields),
     command   |-> StringSlices(defaultContainer.command, overrideContainer.command),
     args      |-> StringSlices(defaultContainer.args, overrideContainer.args),
     ports     |-> ContainerPortSlicesByName(defaultContainer.ports, overrideContainer.ports),
     env       |-> Envs(defaultContainer.env, overrideContainer.env),
     resources |-> ResourceRequirements(defaultContainer.resources,
                                        overrideContainer.resources),
     mounts    |-> VolumeMounts(defaultContainer.mounts, overrideContainer.mounts),
     devices   |-> VolumeDevices(defaultContainer.devices, overrideContainer.devices),
     liveness  |-> Probe(defaultContainer.liveness, overrideContainer.liveness),
     readiness |-> Probe(defaultContainer.readiness, overrideContainer.readiness),
     startup   |-> Probe(defaultContainer.startup, overrideContainer.startup),
     lifecycle |-> LifeCycle(defaultContainer.lifecycle, overrideContainer.lifecycle),
     security  |-> SecurityContext(defaultContainer.security, overrideContainer.security)]

\* The bug a container that is replaced instead of merged would be.
ContainersReplaced(defaultContainers, overrideContainers) ==
    StringToStringMap(defaultContainers, overrideContainers)

Containers(defaultContainers, overrideContainers) ==
    ByKey(defaultContainers, overrideContainers, Container)

\* The fields of a container, and TargetContainerName among the scalars.
EphemeralContainer(defaultContainer, overrideContainer) ==
    Container(defaultContainer, overrideContainer)

EphemeralContainers(defaultContainers, overrideContainers) ==
    ByKey(defaultContainers, overrideContainers, EphemeralContainer)

-----------------------------------------------------------------------------
(* The rest of a pod template. *)

mergeKeyToPath(defaultKey, overrideKey) == Fields(defaultKey, overrideKey)

mergeKeyToPathItems(defaultItems, overrideItems) ==
    ByKey(defaultItems, overrideItems, mergeKeyToPath)

\* What an override can change of a source of the same kind.
MergedSourceFields ==
    [EmptyDir  |-> {"medium", "sizeLimit"},
     Secret    |-> {"name", "defaultMode"},
     ConfigMap |-> {"name", "defaultMode", "optional"}]

\* Sources of one of the three kinds the operator uses itself are merged; any
\* other override replaces the source.
Volume(defaultVolume, overrideVolume) ==
    IF defaultVolume.kind = overrideVolume.kind
       /\ overrideVolume.kind \in DOMAIN MergedSourceFields
    THEN [defaultVolume EXCEPT
            !.fields = Fields(@, Restrict(overrideVolume.fields,
                                          DOMAIN overrideVolume.fields
                                              \cap MergedSourceFields[overrideVolume.kind])),
            !.items  = mergeKeyToPathItems(@, overrideVolume.items)]
    ELSE overrideVolume

Volumes(defaultVolumes, overrideVolumes) == ByKey(defaultVolumes, overrideVolumes, Volume)

\* Merged by key alone: the override's toleration replaces the other whole.
Tolerations(defaultTolerations, overrideTolerations) ==
    StringToStringMap(defaultTolerations, overrideTolerations)

Affinity(defaultAffinity, overrideAffinity) == Fields(defaultAffinity, overrideAffinity)

\* From an IP to its host names.
HostAliases(originalAliases, overrideAliases) ==
    ByKey(originalAliases, overrideAliases, StringSlices)

NoDNSConfig == [fields |-> Empty, nameservers |-> Empty, searches |-> Empty]

PodDNSConfig(originalDNSConfig, overrideDNSConfig) ==
    IF originalDNSConfig = NoDNSConfig THEN overrideDNSConfig
    ELSE [fields      |-> Fields(originalDNSConfig.fields, overrideDNSConfig.fields),
          nameservers |-> StringSlices(originalDNSConfig.nameservers,
                                       overrideDNSConfig.nameservers),
          searches    |-> StringSlices(originalDNSConfig.searches,
                                       overrideDNSConfig.searches)]

\* Of several constraints on one topology key the last is kept.
createTopologySpreadConstraintMap(constraints) ==
    [k \in {c.key : c \in Range(constraints)} |->
        constraints[Max({i \in DOMAIN constraints : constraints[i].key = k})].fields]

TopologySpreadConstraint(original, override) == Fields(original, override)

\* The merged constraints in any order: they are collected from a Go map.
TopologySpreadConstraints(original, override) ==
    LET merged == ByKey(createTopologySpreadConstraintMap(original),
                        createTopologySpreadConstraintMap(override),
                        TopologySpreadConstraint)
        constraints == {[key |-> k, fields |-> merged[k]] : k \in DOMAIN merged}
    IN  IF override = Empty THEN {original}
        ELSE Bijection(1 .. Cardinality(constraints), constraints)

\* The templates the merge can return.
PodTemplateSpecs(original, override) ==
    {[labels         |-> StringToStringMap(original.labels, override.labels),
      annotations    |-> StringToStringMap(original.annotations, override.annotations),
      volumes        |-> Volumes(original.volumes, override.volumes),
      containers     |-> Containers(original.containers, override.containers),
      initContainers |-> Containers(original.initContainers, override.initContainers),
      ephemeral      |-> EphemeralContainers(original.ephemeral, override.ephemeral),
      fields         |-> Fields(original.fields, override.fields),
      nodeSelector   |-> StringToStringMap(original.nodeSelector, override.nodeSelector),
      affinity       |-> Affinity(original.affinity, override.affinity),
      tolerations    |-> Tolerations(original.tolerations, override.tolerations),
      hostAliases    |-> HostAliases(original.hostAliases, override.hostAliases),
      dnsConfig      |-> PodDNSConfig(original.dnsConfig, override.dnsConfig),
      topology       |-> constraints] :
        constraints \in TopologySpreadConstraints(original.topology, override.topology)}

-----------------------------------------------------------------------------
(* The StatefulSet around it. *)

NoSelector == [nil |-> TRUE, labels |-> Empty, expressions |-> Empty]

\* The values of a requirement are sorted: a set.
LabelSelectorRequirement(original, override) ==
    [fields |-> Fields(original.fields, override.fields),
     values |-> original.values \cup override.values]

LabelSelectorRequirements(original, override) ==
    ByKey(original, override, LabelSelectorRequirement)

\* When only the override has a selector the (nil) original is returned.
LabelSelectors(originalLabelSelector, overrideLabelSelector) ==
    IF overrideLabelSelector.nil \/ originalLabelSelector.nil THEN originalLabelSelector
    ELSE [nil         |-> FALSE,
          labels      |-> StringToStringMap(originalLabelSelector.labels,
                                            overrideLabelSelector.labels),
          expressions |-> LabelSelectorRequirements(originalLabelSelector.expressions,
                                                    overrideLabelSelector.expressions)]

PersistentVolumeClaim(defaultPvc, overridePvc) ==
    [fields      |-> Fields(defaultPvc.fields, overridePvc.fields),
     accessModes |-> StringSlices(defaultPvc.accessModes, overridePvc.accessModes)]

VolumeClaimTemplates(defaultTemplates, overrideTemplates) ==
    ByKey(defaultTemplates, overrideTemplates, PersistentVolumeClaim)

\* The specs the merge can return.
StatefulSetSpecs(defaultSpec, overrideSpec) ==
    {[fields   |-> Fields(defaultSpec.fields, overrideSpec.fields),
      selector |-> LabelSelectors(defaultSpec.selector, overrideSpec.selector),
      claims   |-> VolumeClaimTemplates(defaultSpec.claims, overrideSpec.claims),
      template |-> template] :
        template \in PodTemplateSpecs(defaultSpec.template, overrideSpec.template)}

-----------------------------------------------------------------------------
(* The shape of a spec. *)

EmptyContainer ==
    [fields |-> Empty, command |-> Empty, args |-> Empty, ports |-> Empty, env |-> Empty,
     resources |-> Empty, mounts |-> Empty, devices |-> Empty, liveness |-> Empty,
     readiness |-> Empty, startup |-> Empty, lifecycle |-> Empty, security |-> Empty]

EmptyTemplate ==
    [labels |-> Empty, annotations |-> Empty, volumes |-> Empty, containers |-> Empty,
     initContainers |-> Empty, ephemeral |-> Empty, fields |-> Empty,
     nodeSelector |-> Empty, affinity |-> Empty, tolerations |-> Empty,
     hostAliases |-> Empty, dnsConfig |-> NoDNSConfig, topology |-> Empty]

EmptySpec ==
    [fields |-> Empty, selector |-> NoSelector, claims |-> Empty, template |-> EmptyTemplate]

\* The shape of a spec, which the Go types fix: a struct or a map is a function,
\* a slice a sequence, and a struct has the fields of its type.
IsMap(f) == f = [k \in DOMAIN f |-> f[k]]
AreMaps(f) == IsMap(f) /\ \A k \in DOMAIN f : IsMap(f[k])
IsSlice(s) == s \in Seq(Range(s))

EnvTyped(env) ==
    AreMaps(env) /\ \A k \in DOMAIN env : DOMAIN env[k] \subseteq {"value", "valueFrom"}

ContainerTyped(c) ==
    /\ IsMap(c) /\ DOMAIN c = DOMAIN EmptyContainer
    /\ IsSlice(c.command) /\ IsSlice(c.args)
    /\ IsMap(c.fields) /\ IsMap(c.resources) /\ IsMap(c.security) /\ IsMap(c.lifecycle)
    /\ IsMap(c.liveness) /\ IsMap(c.readiness) /\ IsMap(c.startup)
    /\ AreMaps(c.ports) /\ AreMaps(c.mounts) /\ AreMaps(c.devices)
    /\ EnvTyped(c.env)

ContainersTyped(containers) ==
    IsMap(containers) /\ \A k \in DOMAIN containers : ContainerTyped(containers[k])

VolumesTyped(volumes) ==
    /\ IsMap(volumes)
    /\ \A k \in DOMAIN volumes :
          /\ IsMap(volumes[k]) /\ DOMAIN volumes[k] = {"kind", "fields", "items"}
          /\ IsMap(volumes[k].fields) /\ AreMaps(volumes[k].items)

DNSTyped(dns) ==
    /\ IsMap(dns) /\ DOMAIN dns = DOMAIN NoDNSConfig
    /\ IsMap(dns.fields) /\ IsSlice(dns.nameservers) /\ IsSlice(dns.searches)

TopologyTyped(topology) ==
    /\ IsSlice(topology)
    /\ \A c \in Range(topology) :
          IsMap(c) /\ DOMAIN c = {"key", "fields"} /\ IsMap(c.fields)

TemplateTyped(t) ==
    /\ IsMap(t) /\ DOMAIN t = DOMAIN EmptyTemplate
    /\ IsMap(t.labels) /\ IsMap(t.annotations) /\ IsMap(t.fields)
    /\ IsMap(t.nodeSelector) /\ IsMap(t.affinity) /\ IsMap(t.tolerations)
    /\ IsMap(t.hostAliases) /\ \A k \in DOMAIN t.hostAliases : IsSlice(t.hostAliases[k])
    /\ ContainersTyped(t.containers) /\ ContainersTyped(t.initContainers)
    /\ ContainersTyped(t.ephemeral)
    /\ VolumesTyped(t.volumes)
    /\ DNSTyped(t.dnsConfig)
    /\ TopologyTyped(t.topology)

SelectorTyped(selector) ==
    /\ IsMap(selector) /\ DOMAIN selector = DOMAIN NoSelector
    /\ selector.nil \in BOOLEAN
    /\ IsMap(selector.labels) /\ IsMap(selector.expressions)
    /\ \A k \in DOMAIN selector.expressions :
          LET e == selector.expressions[k]
          IN  IsMap(e) /\ DOMAIN e = {"fields", "values"} /\ IsMap(e.fields)

ClaimsTyped(claims) ==
    /\ IsMap(claims)
    /\ \A k \in DOMAIN claims :
          /\ IsMap(claims[k]) /\ DOMAIN claims[k] = {"fields", "accessModes"}
          /\ IsMap(claims[k].fields) /\ IsSlice(claims[k].accessModes)

SpecTyped(spec) ==
    /\ IsMap(spec) /\ DOMAIN spec = DOMAIN EmptySpec
    /\ IsMap(spec.fields)
    /\ SelectorTyped(spec.selector)
    /\ ClaimsTyped(spec.claims)
    /\ TemplateTyped(spec.template)

\* Every entry of narrow is an entry of wide, with at least its fields.
EntriesIn(narrow, wide) ==
    /\ DOMAIN narrow \subseteq DOMAIN wide
    /\ \A k \in DOMAIN narrow : IsRestriction(narrow[k], wide[k])
=============================================================================
