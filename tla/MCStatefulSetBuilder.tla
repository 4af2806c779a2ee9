------------------------ MODULE MCStatefulSetBuilder ------------------------
(* Overrides for the model checker: each touches several parts of the spec, *)
(* and they disagree with each other and with the operator.                 *)
EXTENDS StatefulSetBuilder

In(container, fields, env, mounts) ==
    [container EXCEPT !.fields = fields, !.env = env, !.mounts = mounts]

One(k, v) == [x \in {k} |-> v]

NoOverride == EmptySpec

\* The mongod container gets another image, a variable, a read-only mount and
\* further words in its command; pods get an annotation and a toleration.
MongodOverride ==
    [EmptySpec EXCEPT
        !.template.containers = One(MongodbName,
            [In(EmptyContainer, [image |-> <<"custom", "1">>],
                [AGENT_STATUS_FILEPATH |-> [valueFrom |-> "field"], EXTRA |-> [value |-> "a"]],
                One(<<"hooks", "/hooks">>, ReadOnly))
             EXCEPT !.command = <<"-c", "more">>, !.args = <<"--a">>,
                    !.resources = [limits |-> "big"]]),
        !.template.annotations = [team |-> "a"],
        !.template.tolerations = [gpu |-> "NoSchedule"]]

\* A sidecar with a volume of its own, and the agent's probe and context.
SidecarOverride ==
    [EmptySpec EXCEPT
        !.template.containers =
            [k \in {"sidecar", AgentName} |->
                IF k = "sidecar"
                THEN [In(EmptyContainer, [image |-> <<"sidecar", "1">>],
                         [EXTRA |-> [value |-> "b"]], One(<<"extra", "/extra">>, Empty))
                      EXCEPT !.args = <<"--level", "1">>,
                             !.ports = [metrics |-> [containerPort |-> "9216"]]]
                ELSE [EmptyContainer EXCEPT
                         !.env = [HEADLESS_AGENT |-> [valueFrom |-> "field"]],
                         !.readiness = [periodSeconds |-> "3", failureThreshold |-> "2"],
                         !.security = [runAsUser |-> "1000", privileged |-> "false"]]],
        !.template.volumes =
            [v \in {"extra", "hooks"} |->
                IF v = "extra" THEN CreateVolumeFromSecret("extra-secret")
                               ELSE [CreateVolumeFromEmptyDir EXCEPT
                                        !.fields = [medium |-> "Memory"]]]]

\* The sidecar again, with other arguments; and constraints on two topology keys.
SpreadOverride ==
    [EmptySpec EXCEPT
        !.template.containers = One("sidecar",
            [In(EmptyContainer, [image |-> <<"sidecar", "2">>],
                [EXTRA |-> [valueFrom |-> "field"]], Empty)
             EXCEPT !.args = <<"--level", "2">>]),
        !.template.topology =
            <<[key |-> "zone", fields |-> [maxSkew |-> "1"]],
              [key |-> "host", fields |-> [maxSkew |-> "2"]]>>]

\* The set's own fields, its labels, its selector and its claims.
SetOverride ==
    [EmptySpec EXCEPT
        !.fields = [rollingUpdate |-> "partition"],
        !.selector = [nil |-> FALSE, labels |-> [tier |-> "db"],
                      expressions |-> [tier |-> [fields |-> [operator |-> "In"],
                                                 values |-> {"db"}]]],
        !.claims = One(DataVolumeName, [fields |-> [storageClassName |-> "fast"],
                                        accessModes |-> <<"ReadWriteMany">>]),
        !.template.labels = [tier |-> "db"],
        !.template.fields = [serviceAccountName |-> "custom"]]

\* Only a claim and the strategy: the API server accepts that they are dropped
\* again, and the set keeps the claim it had.
ClaimOverride ==
    [EmptySpec EXCEPT
        !.fields = [strategy |-> "OnDelete"],
        !.claims = One(DataVolumeName, [fields |-> [storageClassName |-> "fast"],
                                        accessModes |-> Empty])]

MCOverrides ==
    {NoOverride, MongodOverride, SidecarOverride, SpreadOverride, SetOverride, ClaimOverride}
=============================================================================
