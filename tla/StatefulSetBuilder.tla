------------------------- MODULE StatefulSetBuilder -------------------------
(***************************************************************************)
(* The StatefulSet of a MongoDBCommunity resource and how it changes over  *)
(* a history of edits: createOrUpdateStatefulSet reads the set that        *)
(* exists, applies the operator's modifications to THAT set                *)
(* (controllers/construct, pkg/kube), merges the user's override over the  *)
(* result (Merge) and writes it back.  So every written set is the seed of *)
(* the next one, and what a modification does not set again stays.         *)
(*                                                                         *)
(* Containers, volumes, mounts, variables and claims keep the names of the *)
(* code.  A mount is keyed by <<volume, path>>; the operator uses no       *)
(* sub-path, because data and logs are always on separate volumes          *)
(* (HasSeparateDataAndLogsVolumes returns true).  Commands and images are  *)
(* tuples whose elements stand for the strings.                            *)
(***************************************************************************)
EXTENDS Merge, FiniteSets

CONSTANTS
    Versions,        \* the MongoDB versions a resource may ask for
    Releases,        \* releases of the operator: each brings its own images
    ConfigMaps,      \* the config maps a CA certificate may be read from
    Replicas,        \* numbers of replicas the scaler may return
    Overrides,       \* the StatefulSet overrides a user may write
    Managed,         \* MANAGED_SECURITY_CONTEXT
    None,            \* no StatefulSet
    MaxEdits         \* bound: how often the resource or the operator changes

ASSUME BuilderAssumption ==
    /\ Versions # {} /\ Releases # {} /\ ConfigMaps # {} /\ Replicas # {}
    /\ Overrides # {}
    /\ Managed \in BOOLEAN
    /\ MaxEdits \in Nat
    /\ None \notin Versions

VARIABLES
    mdb,             \* the resource: [version, last, replicas, tls, ca, override]
    release,         \* the running release of the operator
    sts,             \* the spec of the StatefulSet in the API server, or None
    deployed,        \* history: the resource and release sts was last built for, or
                     \* None when it is not as it was built
    created,         \* history: the override sts was created with
    done,            \* the version of a reconciliation that is past the reset of the
                     \* strategy and has yet to record it, or None
    edits

vars == <<mdb, release, sts, deployed, created, done, edits>>

AgentName == "mongodb-agent"
MongodbName == "mongod"
versionUpgradeHookName == "mongod-posthook"
ReadinessProbeContainerName == "mongodb-agent-readinessprobe"
DataVolumeName == "data-volume"
LogsVolumeName == "logs-volume"
Labels == [app |-> "svc"]

Resources ==
    [version : Versions, last : Versions \cup {None}, replicas : Replicas,
     tls : BOOLEAN, ca : ConfigMaps, override : Overrides]

ASSUME OverridesAssumption ==
    /\ \A o \in Overrides : SpecTyped(o)
    /\ None \notin [mdb : Resources, release : Releases]

-----------------------------------------------------------------------------
(* The pieces a modification is made of. *)

CreateVolumeFromEmptyDir == [kind |-> "EmptyDir", fields |-> Empty, items |-> Empty]

CreateVolumeFromSecret(name) ==
    [kind |-> "Secret", fields |-> [name |-> name, defaultMode |-> "0640"], items |-> Empty]

CreateVolumeFromConfigMap(name) ==
    [kind |-> "ConfigMap", fields |-> [name |-> name], items |-> Empty]

\* An existing volume of that name is left as it is.
WithVolumes(template, volumes) ==
    [template EXCEPT !.volumes = StringToStringMap(volumes, @)]

\* A desired mount replaces an existing one with the same key.
WithMounts(c, mounts) == [c EXCEPT !.mounts = StringToStringMap(@, mounts)]

\* The bug a merge that lets an existing variable win would be.
MergeKeepsExisting(existing, desired) == StringToStringMap(desired, existing)

MergeWithOverride(existing, desired) == StringToStringMap(existing, desired)

WithEnvs(c, envs) == [c EXCEPT !.env = MergeWithOverride(@, envs)]

\* The container that is modified: the existing one, or a new one.
At(containers, name) ==
    IF name \in DOMAIN containers THEN containers[name] ELSE EmptyContainer

\* WithContainer and WithInitContainer: one container replaced by its
\* modified form.
WithContainer(containers, name, modified) ==
    [k \in DOMAIN containers \cup {name} |-> IF k = name THEN modified ELSE containers[k]]

\* The bug a WithAccessModes that appends to the modes would be.
WithVolumeClaimAppends(claims, name, requests) ==
    [k \in DOMAIN claims \cup {name} |->
        IF k # name THEN claims[k]
        ELSE [fields      |-> Fields(IF k \in DOMAIN claims THEN claims[k].fields ELSE Empty,
                                     [requests |-> requests]),
              accessModes |-> (IF k \in DOMAIN claims THEN claims[k].accessModes ELSE Empty)
                                  \o <<"ReadWriteOnce">>]]

\* The claim's name, access modes and requests are set; the rest stays.
WithVolumeClaim(claims, name, requests) ==
    [k \in DOMAIN claims \cup {name} |->
        IF k # name THEN claims[k]
        ELSE [fields      |-> Fields(IF k \in DOMAIN claims THEN claims[k].fields ELSE Empty,
                                     [requests |-> requests]),
              accessModes |-> <<"ReadWriteOnce">>]]

DefaultSecurityContext == [runAsUser |-> "2000", runAsNonRoot |-> "true"]
DefaultPodSecurityContext == [fsGroup |-> "2000"]
DefaultResources == [limits |-> "default", requests |-> "default"]
DefaultReadiness ==
    [exec |-> "readinessprobe", failureThreshold |-> "40", initialDelaySeconds |-> "5"]

\* The security context is replaced as a whole, unless the platform manages it.
WithSecurityContext(c) ==
    IF Managed THEN c ELSE [c EXCEPT !.security = DefaultSecurityContext]

-----------------------------------------------------------------------------
(* controllers/construct: the containers, the volumes and the claims. *)

ReadOnly == [readOnly |-> "true"]

AgentMounts ==
    [m \in {<<"healthstatus", "/var/log/healthstatus">>, <<"automation-config", "/config">>,
            <<"agent-scripts", "/opt/scripts">>, <<"keyfile", "/authentication">>,
            <<DataVolumeName, "/data">>, <<LogsVolumeName, "/var/log/mongodb">>} |->
        IF m[1] = "automation-config" THEN ReadOnly ELSE Empty]

MongodMounts ==
    [m \in {<<"healthstatus", "/healthstatus">>, <<"hooks", "/hooks">>,
            <<"keyfile", "/authentication">>,
            <<DataVolumeName, "/data">>, <<LogsVolumeName, "/var/log/mongodb">>} |-> Empty]

AgentEnvs ==
    [HEADLESS_AGENT        |-> [value |-> "true"],
     POD_NAMESPACE         |-> [valueFrom |-> "metadata.namespace"],
     AUTOMATION_CONFIG_MAP |-> [value |-> "config-secret"],
     AGENT_STATUS_FILEPATH |-> [value |-> "/var/log/healthstatus"]]

MongodEnvs == [AGENT_STATUS_FILEPATH |-> [value |-> "/healthstatus"]]

Volumes0 ==
    [v \in {"healthstatus", "hooks", "automation-config", "agent-scripts", "keyfile"} |->
        IF v = "automation-config" THEN CreateVolumeFromSecret("config-secret")
                                   ELSE CreateVolumeFromEmptyDir]

mongodbAgentContainer(c, rel) ==
    WithSecurityContext(WithEnvs(WithMounts(
        [c EXCEPT !.fields    = Fields(@, [image |-> <<"agent", rel>>,
                                           imagePullPolicy |-> "Always"]),
                  !.readiness = Fields(@, DefaultReadiness),
                  !.resources = DefaultResources,
                  !.command   = <<"bash", "-c", "agent">>], AgentMounts), AgentEnvs))

getMongoDBImage(version) == <<"mongod", version>>

mongodbContainer(c, version) ==
    WithSecurityContext(WithEnvs(WithMounts(
        [c EXCEPT !.fields    = Fields(@, [image |-> getMongoDBImage(version)]),
                  !.resources = DefaultResources,
                  !.command   = <<"sh", "-c", "hook; mongod">>], MongodMounts), MongodEnvs))

versionUpgradeHookInit(c, rel) ==
    WithMounts([c EXCEPT !.fields  = Fields(@, [image |-> <<"hook", rel>>,
                                                imagePullPolicy |-> "Always"]),
                         !.command = <<"cp", "version-upgrade-hook">>],
               [m \in {<<"hooks", "/hooks">>} |-> Empty])

readinessProbeInit(c, rel) ==
    WithMounts([c EXCEPT !.fields  = Fields(@, [image |-> <<"probe", rel>>,
                                                imagePullPolicy |-> "Always"]),
                         !.command = <<"cp", "readinessprobe">>],
               [m \in {<<"agent-scripts", "/opt/scripts">>} |-> Empty])

\* The pod security context is replaced as a whole too.
PodFields ==
    IF Managed THEN [serviceAccountName |-> "mongodb-database"]
    ELSE [serviceAccountName |-> "mongodb-database",
          securityContext    |-> DefaultPodSecurityContext]

PodTemplate(template, m, rel) ==
    WithVolumes(
        [template EXCEPT
            !.fields         = Fields(@, PodFields),
            !.labels         = Labels,
            !.containers     =
                WithContainer(
                    WithContainer(@, AgentName, mongodbAgentContainer(At(@, AgentName), rel)),
                    MongodbName, mongodbContainer(At(@, MongodbName), m.version)),
            !.initContainers =
                WithContainer(
                    WithContainer(@, versionUpgradeHookName,
                                  versionUpgradeHookInit(At(@, versionUpgradeHookName), rel)),
                    ReadinessProbeContainerName,
                    readinessProbeInit(At(@, ReadinessProbeContainerName), rel))],
        Volumes0)

\* The last version the operator has deployed is an annotation of the resource.
IsChangingVersion(m) == m.last # None /\ m.last # m.version

GetUpdateStrategyType(m) == IF IsChangingVersion(m) THEN "OnDelete" ELSE "RollingUpdate"

\* WithUpdateStrategyType replaces the strategy: a rolling update's
\* parameters do not survive it.
BuildMongoDBReplicaSetStatefulSetModificationFunction(set, m, rel) ==
    [fields   |-> Fields(Restrict(set.fields, DOMAIN set.fields \ {"rollingUpdate"}),
                         [serviceName |-> "svc",
                          replicas    |-> m.replicas,
                          strategy    |-> GetUpdateStrategyType(m)]),
     selector |-> [nil |-> FALSE, labels |-> Labels,
                   expressions |-> set.selector.expressions],
     claims   |-> WithVolumeClaim(WithVolumeClaim(set.claims, DataVolumeName, "10G"),
                                  LogsVolumeName, "2G"),
     template |-> PodTemplate(set.template, m, rel)]

TLSVolumes(ca) ==
    [v \in {"tls-ca", "tls-secret"} |->
        IF v = "tls-ca" THEN CreateVolumeFromConfigMap(ca)
                        ELSE CreateVolumeFromSecret("tls-operator-secret")]

TLSMounts == [m \in {<<"tls-ca", "/tls/ca">>, <<"tls-secret", "/tls/server">>} |-> ReadOnly]

\* Disabling TLS takes nothing away again.
buildTLSPodSpecModification(template, m) ==
    IF ~m.tls THEN template
    ELSE WithVolumes(
            [template EXCEPT !.containers[AgentName]   = WithMounts(@, TLSMounts),
                             !.containers[MongodbName] = WithMounts(@, TLSMounts)],
            TLSVolumes(m.ca))

buildStatefulSetModificationFunction(set, m, rel) ==
    LET common == BuildMongoDBReplicaSetStatefulSetModificationFunction(set, m, rel)
    IN  StatefulSetSpecs(
            [common EXCEPT !.template = buildTLSPodSpecModification(@, m)], m.override)

\* A set written before the readiness probe had its own container.
isPreReadinessInitContainerStatefulSet(set) ==
    ReadinessProbeContainerName \notin DOMAIN set.template.initContainers

-----------------------------------------------------------------------------
(* The actions. *)

\* The API server rejects an update of a StatefulSet that changes anything but
\* its replicas, its update strategy and its pod template.
Immutable(spec) ==
    [fields   |-> Restrict(spec.fields,
                           DOMAIN spec.fields \ {"replicas", "strategy", "rollingUpdate"}),
     selector |-> spec.selector,
     claims   |-> spec.claims]

\* It also rejects parameters of a rolling update next to the strategy OnDelete.
WellFormed(spec) ==
    ~("rollingUpdate" \in DOMAIN spec.fields /\ spec.fields.strategy = "OnDelete")

Accepts(old, new) == WellFormed(new) /\ (old # None => Immutable(old) = Immutable(new))

Build(old, m, rel) ==
    buildStatefulSetModificationFunction(IF old = None THEN EmptySpec ELSE old, m, rel)

\* One call: read the set (none: start from an empty one), modify, write.  A
\* rejected write is an error: the set stays and the reconciliation is retried.
\* The operator has one reconciliation at a time, so an earlier one is over.
createOrUpdateStatefulSet ==
    /\ done' = None
    /\ \E built \in Build(sts, mdb, release) :
          IF Accepts(sts, built)
          THEN /\ sts' = built
               /\ deployed' = [mdb |-> mdb, release |-> release]
               /\ created' = IF sts = None THEN mdb.override ELSE created
          ELSE UNCHANGED <<sts, deployed, created>>
    /\ UNCHANGED <<mdb, release, edits>>

Edit(m) ==
    /\ edits < MaxEdits
    /\ edits' = edits + 1
    /\ mdb' = m
    /\ UNCHANGED <<release, sts, deployed, created, done>>

ChangeVersion ==
    \E v \in Versions \ {mdb.version} : Edit([mdb EXCEPT !.version = v])

Scale == \E n \in Replicas \ {mdb.replicas} : Edit([mdb EXCEPT !.replicas = n])

ChangeTLS ==
    \E tls \in BOOLEAN, ca \in ConfigMaps :
        /\ <<tls, ca>> # <<mdb.tls, mdb.ca>>
        /\ Edit([mdb EXCEPT !.tls = tls, !.ca = ca])

ChangeOverride ==
    \E o \in Overrides \ {mdb.override} : Edit([mdb EXCEPT !.override = o])

\* The end of a reconciliation that finds everything deployed, for the resource it
\* has read: after a version change the strategy of the set is set back, and the
\* next build gives it the one the resource asks for.  (Left out are the
\* reconciliations whose version is recorded already: they change nothing.)
ResetUpdateStrategy ==
    /\ sts # None
    /\ deployed # None /\ deployed.release = release
    /\ deployed.mdb.last # deployed.mdb.version
    /\ done = None
    /\ done' = deployed.mdb.version
    /\ IF IsChangingVersion(deployed.mdb)
       THEN /\ sts' = [sts EXCEPT !.fields = Fields(@, [strategy |-> "RollingUpdate"])]
            /\ deployed' = None
       ELSE UNCHANGED <<sts, deployed>>
    /\ UNCHANGED <<mdb, release, created, edits>>

\* After the status, the annotation: the version that was reconciled is recorded in
\* the resource, whatever it asks for by now.
updateLastSuccessfulConfiguration ==
    /\ done # None
    /\ mdb' = [mdb EXCEPT !.last = done]
    /\ deployed' = IF deployed = None THEN None ELSE [deployed EXCEPT !.mdb.last = done]
    /\ done' = None
    /\ UNCHANGED <<release, sts, created, edits>>

UpgradeOperator ==
    /\ edits < MaxEdits
    /\ release' \in Releases \ {release}
    /\ edits' = edits + 1
    /\ done' = None
    /\ UNCHANGED <<mdb, sts, deployed, created>>

DeleteStatefulSet ==
    /\ edits < MaxEdits
    /\ sts # None
    /\ sts' = None
    /\ deployed' = None
    /\ created' = None
    /\ edits' = edits + 1
    /\ UNCHANGED <<mdb, release, done>>

\* What an operator without the readiness probe container would have written.
LegacySpecs(m, rel) ==
    {[spec EXCEPT !.template.initContainers =
         Restrict(@, DOMAIN @ \ {ReadinessProbeContainerName})] : spec \in Build(None, m, rel)}

Init ==
    /\ release \in {CHOOSE r \in Releases : TRUE}
    /\ \E o \in Overrides :
          mdb = [version  |-> CHOOSE v \in Versions : TRUE,
                 last     |-> None,
                 replicas |-> CHOOSE n \in Replicas : TRUE,
                 tls      |-> FALSE,
                 ca       |-> CHOOSE c \in ConfigMaps : TRUE,
                 override |-> o]
    /\ sts \in {None} \cup {spec \in LegacySpecs(mdb, release) : Accepts(None, spec)}
    /\ deployed = None
    /\ done = None
    /\ created = IF sts = None THEN None ELSE mdb.override
    /\ edits = 0

Next ==
    \/ createOrUpdateStatefulSet
    \/ ChangeVersion \/ Scale \/ ChangeTLS \/ ChangeOverride
    \/ ResetUpdateStrategy \/ updateLastSuccessfulConfiguration
    \/ UpgradeOperator
    \/ DeleteStatefulSet

Spec == Init /\ [][Next]_vars

-----------------------------------------------------------------------------
(* Properties. *)

AllContainers(template) ==
    Range(template.containers) \cup Range(template.initContainers)

\* The types of the variables; and no environment variable of any container
\* ever has both a value and a source, which the API server would reject.
TypeOK ==
    /\ mdb \in Resources
    /\ release \in Releases
    /\ edits \in 0 .. MaxEdits
    /\ created \in Overrides \cup {None}
    /\ done \in Versions \cup {None}
    /\ (created = None) <=> (sts = None)
    /\ sts # None =>
          \A c \in AllContainers(sts.template) : \A e \in Range(c.env) :
              DOMAIN e # {"value", "valueFrom"}

\* A set has the containers the operator cannot do without, each with the mounts
\* and the variables the operator gives it, and every volume those mounts name is
\* a volume or a claim of the set.
HasRequiredParts(set, tls) ==
    LET template == set.template
        agent    == template.containers[AgentName]
        mongod   == template.containers[MongodbName]
        extra    == IF tls THEN DOMAIN TLSMounts ELSE {}
    IN  /\ {AgentName, MongodbName} \subseteq DOMAIN template.containers
        /\ versionUpgradeHookName \in DOMAIN template.initContainers
        /\ ~isPreReadinessInitContainerStatefulSet(set)
        /\ DOMAIN AgentMounts \cup extra \subseteq DOMAIN agent.mounts
        /\ DOMAIN MongodMounts \cup extra \subseteq DOMAIN mongod.mounts
        /\ DOMAIN AgentEnvs \subseteq DOMAIN agent.env
        /\ DOMAIN MongodEnvs \subseteq DOMAIN mongod.env
        /\ \A m \in DOMAIN AgentMounts \cup DOMAIN MongodMounts \cup extra :
              m[1] \in DOMAIN template.volumes \cup DOMAIN set.claims

\* Whatever overrides came and went, a written set has what the operator needs
\* (createOrUpdateStatefulSet over any earlier set).
RequiredParts == deployed # None => HasRequiredParts(sts, deployed.mdb.tls)

\* The command is the fresh one in the operator's own containers.  In a user's
\* container, as in every list of arguments, words of earlier overrides remain.
ContainersIn(fresh, containers, own) ==
    /\ DOMAIN fresh \subseteq DOMAIN containers
    /\ \A k \in DOMAIN fresh :
          LET f == fresh[k]
              c == containers[k]
          IN  /\ IF k \in own
                 THEN f.command = c.command
                 ELSE Range(f.command) \subseteq Range(c.command)
              /\ Range(f.args) \subseteq Range(c.args)
              /\ IsRestriction(f.fields, c.fields)
              /\ IsRestriction(f.resources, c.resources)
              /\ IsRestriction(f.readiness, c.readiness)
              /\ IsRestriction(f.security, c.security)
              /\ EntriesIn(f.env, c.env)
              /\ EntriesIn(f.mounts, c.mounts)
              /\ EntriesIn(f.ports, c.ports)

TemplateIn(fresh, template) ==
    /\ fresh.labels = template.labels
    /\ ContainersIn(fresh.containers, template.containers, {AgentName, MongodbName})
    /\ ContainersIn(fresh.initContainers, template.initContainers,
                    {versionUpgradeHookName, ReadinessProbeContainerName})
    /\ DOMAIN fresh.volumes \subseteq DOMAIN template.volumes
    /\ IsRestriction(fresh.annotations, template.annotations)
    /\ IsRestriction(fresh.fields, template.fields)
    /\ IsRestriction(fresh.tolerations, template.tolerations)
    /\ \A f \in Range(fresh.topology) : \E c \in Range(template.topology) :
          c.key = f.key /\ IsRestriction(f.fields, c.fields)

\* The modes are the fresh ones in the operator's own claims.  What an override
\* that is gone gave a claim stays: the API server would reject its removal.
ClaimsIn(fresh, claims) ==
    /\ DOMAIN fresh \subseteq DOMAIN claims
    /\ \A k \in DOMAIN fresh :
          /\ IsRestriction(fresh[k].fields, claims[k].fields)
          /\ IF k \in {DataVolumeName, LogsVolumeName}
             THEN fresh[k].accessModes = claims[k].accessModes
             ELSE Range(fresh[k].accessModes) \subseteq Range(claims[k].accessModes)

\* What a set built from nothing for the same resource would contain, the
\* written set contains, with the same values, whatever it was grown from: no
\* image, command, variable, mount, label, replica count, strategy, claim or
\* security setting of an earlier edit outlives it where the current resource or
\* the operator has a say.  Left out is what the code does keep: the source of a
\* volume (WithVolume) and words in the lists StringSlices merges.
HistoryIndependent ==
    deployed # None =>
        \E fresh \in Build(None, deployed.mdb, deployed.release) :
            /\ IsRestriction(fresh.fields, sts.fields)
            /\ "rollingUpdate" \in DOMAIN sts.fields => "rollingUpdate" \in DOMAIN fresh.fields
            /\ fresh.selector.labels = sts.selector.labels
            /\ ClaimsIn(fresh.claims, sts.claims)
            /\ TemplateIn(fresh.template, sts.template)

UpToOrder(spec) == [spec EXCEPT !.template.topology = Range(@)]

\* Reconciling again with nothing edited writes the same set: the modifications
\* and the merge together are idempotent, so an idle operator does not roll the
\* pods.  The exception is what the code does: with an override that has topology
\* spread constraints, and two or more in the set, they are written in the order
\* of a Go map, and a new order is a new pod template.  (The reset of the strategy
\* after a version change is no build.)
StableWithoutEdits ==
    [][deployed = [mdb |-> mdb, release |-> release] /\ deployed' # None
          => \/ sts' = sts
             \/ /\ mdb.override.template.topology # Empty
                /\ Len(sts.template.topology) > 1
                /\ UpToOrder(sts') = UpToOrder(sts)]_vars

\* The merge leaves the parameters of a rolling update next to OnDelete: the
\* override asks for both, or it has the parameters only and the operator sets
\* OnDelete because the version is changing.
StrategyClash(m) ==
    LET fields == Fields([strategy |-> GetUpdateStrategyType(m)], m.override.fields)
    IN  "rollingUpdate" \in DOMAIN fields /\ fields.strategy = "OnDelete"

\* As long as the override asks for the claims, the selector and the other
\* immutable fields the set was created with, the API server accepts an update if
\* and only if the override's strategy and the operator's do not clash, whatever
\* else was edited and in whatever order: the operator's side of the immutable
\* fields does not drift, no rolling-update parameters of an earlier override are
\* left behind, and a version change is stuck for the clash alone.
UpdatesAccepted ==
    (sts # None => Immutable(mdb.override) = Immutable(created)) =>
        \A built \in Build(sts, mdb, release) : Accepts(sts, built) <=> ~StrategyClash(mdb)
=============================================================================
