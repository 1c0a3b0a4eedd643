--------------------------- MODULE ToolRegistry ---------------------------
(***************************************************************************)
(* The tools the code knows: a descriptor for each, three catalogues, and  *)
(* the registries the investigation, the remediation and the notification  *)
(* service are built with.  A tool is reached by its capability; node      *)
(* cordon and uncordon share one and are told apart by the action's tool.  *)
(***************************************************************************)
EXTENDS NodeContracts, FiniteSets

\* Reads; changes the state of the infrastructure; or leaves a message, a page
\* or a ticket behind.
ToolEffectClass == {"read", "infrastructure_mutation", "external_record"}

\* The tiers a tool may have, in order; r3 exists to be refused and has no rank.
rank == [ro |-> 0, r1 |-> 1, r2 |-> 2]

\* An omitted effect class is never external_record.
_derive_effect_class(tier) == IF tier = "ro" THEN "read" ELSE "infrastructure_mutation"

NoRollback == "none"

ToolDescriptor(name, capability, tier, effect, args, key, attempts, settling, rollback) ==
    [name |-> name, capability |-> capability, tier |-> tier, effect |-> effect,
     args |-> args, key |-> key, attempts |-> attempts, settling |-> settling,
     rollback |-> rollback]

\* The rules a descriptor must satisfy to exist, which the table's check
\* constraints repeat.
_safety_invariants(d) ==
    /\ d.tier # "r3"
    /\ (d.tier = "ro") = (d.effect = "read")
    /\ CASE d.effect = "external_record" ->
              d.tier = "r1" /\ d.rollback = NoRollback /\ d.settling = 0 /\ d.attempts = 1
         [] d.effect = "read" -> d.rollback = NoRollback /\ d.settling = 0
         [] OTHER -> d.rollback # NoRollback
    /\ d.key \subseteq d.args

---------------------------------------------------------------------------
\* Arguments the broker fills in from the incident, and no caller may supply.
scope_arguments == {"tenant_id", "environment", "service"}

_window_arguments == {"window_start", "window_end"}

_k8s_scope_arguments == scope_arguments \cup {"namespace"}

ScopeNames == _k8s_scope_arguments

ReadTool(name, capability, args, key, attempts) ==
    ToolDescriptor(name, capability, "ro", _derive_effect_class("ro"),
                   scope_arguments \cup args, scope_arguments \cup key, attempts, 0, NoRollback)

METRICS_QUERY ==
    ReadTool("metrics.query", "read.metrics",
             _window_arguments \cup {"metric", "step_seconds"}, {"metric", "window_start"}, 3)

LOGS_QUERY ==
    ReadTool("logs.query", "read.logs",
             _window_arguments \cup {"min_level", "contains", "limit"},
             {"min_level", "window_start"}, 3)

TRACES_QUERY ==
    ReadTool("traces.query", "read.traces",
             _window_arguments \cup {"min_duration_ms"}, {"window_start"}, 3)

DEPLOY_LIST == ReadTool("deploy.list", "read.deploy", _window_arguments, {"window_start"}, 3)

K8S_WORKLOAD_READ ==
    ReadTool("k8s.workload.read", "read.k8s_workload", {"namespace", "include_events"},
             {"namespace"}, 3)

KNOWLEDGE_SEARCH ==
    ReadTool("knowledge.search", "read.knowledge", {"topic", "limit"}, {"topic"}, 2)

READ_ONLY_CATALOGUE ==
    {DEPLOY_LIST, K8S_WORKLOAD_READ, KNOWLEDGE_SEARCH, LOGS_QUERY, METRICS_QUERY, TRACES_QUERY}

WriteTool(name, capability, tier, args, key, settling, rollback) ==
    ToolDescriptor(name, capability, tier, _derive_effect_class(tier), args, key, 1,
                   settling, rollback)

\* Rolling forward again is rolling back to another revision.
K8S_DEPLOYMENT_ROLLBACK ==
    WriteTool("k8s.deployment.rollback", "mutate.k8s_deployment", "r1",
              _k8s_scope_arguments \cup {"deployment", "to_revision"},
              {"tenant_id", "environment", "namespace", "deployment", "to_revision"},
              60, "k8s.deployment.rollback")

K8S_HPA_ADJUST ==
    WriteTool("k8s.hpa.adjust", "mutate.k8s_scale", "r1",
              _k8s_scope_arguments \cup {"hpa_name", "min_replicas", "max_replicas"},
              {"tenant_id", "environment", "namespace", "hpa_name", "min_replicas",
               "max_replicas"},
              120, "k8s.hpa.adjust")

\* A node is shared: it belongs to no service and no namespace.
K8S_NODE_CORDON ==
    WriteTool("k8s.node.cordon", "mutate.k8s_node", "r2",
              {"tenant_id", "environment", "node"}, {"tenant_id", "environment", "node"},
              10, "k8s.node.uncordon")

K8S_NODE_UNCORDON ==
    WriteTool("k8s.node.uncordon", "mutate.k8s_node", "r2",
              K8S_NODE_CORDON.args, K8S_NODE_CORDON.key, 10, "k8s.node.cordon")

WRITE_CATALOGUE ==
    {K8S_DEPLOYMENT_ROLLBACK, K8S_HPA_ADJUST, K8S_NODE_CORDON, K8S_NODE_UNCORDON}

\* What every announcement says.
_event_arguments ==
    scope_arguments \cup
    {"event_id", "event_type", "incident_reference", "severity", "status", "summary"}

_record(name, capability) ==
    ToolDescriptor(name, capability, "r1", "external_record", _event_arguments,
                   scope_arguments \cup {"event_id"}, 1, 0, NoRollback)

INTEGRATION_CATALOGUE ==
    {_record("grafana.annotation.create", "write.grafana_annotation"),
     _record("jira.issue.comment", "write.jira_comment"),
     _record("jira.issue.create", "write.jira_issue"),
     _record("pagerduty.event", "write.pagerduty_event"),
     _record("slack.post", "notify.slack_channel"),
     _record("teams.post", "notify.teams_channel")}

---------------------------------------------------------------------------
\* The registries.  No two tools of one have the same name.
Registry(descriptors) ==
    \A d, e \in descriptors : d.name = e.name => d = e

assert_no_write_capability(descriptors) == \A d \in descriptors : d.tier = "ro"

read_only == READ_ONLY_CATALOGUE

remediation_full == READ_ONLY_CATALOGUE \cup WRITE_CATALOGUE

integrations == INTEGRATION_CATALOGUE

capabilities(registry) == {d.capability : d \in registry}

\* A lookup by capability needs exactly one tool.
for_capability(registry, capability) == {d \in registry : d.capability = capability}

\* What keeps the import of the catalogues from failing at start-up; the way
\* back from a write is itself a registered write on the same capability; no node
\* of one registry can reach the effects of another; and the contracts name the
\* capabilities that are registered, no more and no fewer.
ASSUME CatalogueAssumption ==
    /\ \A d \in remediation_full \cup integrations :
         d.effect \in ToolEffectClass /\ _safety_invariants(d)
    /\ Registry(remediation_full) /\ Registry(integrations)
    /\ assert_no_write_capability(read_only)
    /\ \A d \in WRITE_CATALOGUE :
         \E e \in WRITE_CATALOGUE :
            e.name = d.rollback /\ e.capability = d.capability /\ e.rollback = d.name
    /\ capabilities(remediation_full) \cap capabilities(integrations) = {}
    /\ capabilities(READ_ONLY_CATALOGUE) = _READ_CAPABILITIES
    /\ capabilities(WRITE_CATALOGUE) = _WRITE_CAPABILITIES
    /\ capabilities(integrations) = NOTIFICATION_CAPABILITIES

\* The scope an incident can supply: a service may own no namespace, and then
\* nothing broader stands in for it.
resolve_arguments(d, owned) == d.args \cap ScopeNames \subseteq scope_arguments \cup owned

\* A caller supplies no undeclared argument and none of the scope's.
bind_arguments(d, supplied) ==
    /\ supplied \subseteq d.args
    /\ supplied \cap ScopeNames = {}
===========================================================================
