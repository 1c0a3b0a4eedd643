--------------------------- MODULE NodeContracts ---------------------------
(***************************************************************************)
(* What each graph node may write to its run's state and ask of the tool   *)
(* broker, whether it may call a model, and how often it may have an       *)
(* answer repaired.  The kernel compares every update with its node's      *)
(* contract, and the broker every request.                                 *)
(***************************************************************************)
EXTENDS Naturals

IMMUTABLE_STATE_KEYS == {"identity", "trace", "objective"}

EndingKeys == {"terminated", "termination_reason", "termination_rule_id"}

STATE_KEYS ==
    IMMUTABLE_STATE_KEYS \cup EndingKeys \cup
    {"phase", "iteration", "resumed_count", "evidence", "steps", "hypotheses", "failures",
     "open_gaps", "covered_domains", "degraded_domains", "capability_menu", "last_decision",
     "reflection_decision", "budget", "budget_refusal", "pending_approval",
     "terminal_incident_status"}

REMEDIATION_STATE_KEYS ==
    IMMUTABLE_STATE_KEYS \cup
    {"phase", "remediation_action", "policy_decision", "approval", "verification",
     "baseline_captured", "budget", "failures", "terminated", "termination_reason",
     "target_incident_status"}

---------------------------------------------------------------------------
_READ_CAPABILITIES ==
    {"read.metrics", "read.logs", "read.traces", "read.deploy", "read.k8s_workload",
     "read.knowledge"}

_WRITE_CAPABILITIES == {"mutate.k8s_deployment", "mutate.k8s_scale", "mutate.k8s_node"}

NOTIFICATION_CAPABILITIES ==
    {"notify.slack_channel", "notify.teams_channel", "write.pagerduty_event",
     "write.jira_issue", "write.jira_comment", "write.grafana_annotation"}

---------------------------------------------------------------------------
RetryContract(repairs) == [max_attempts |-> 1, schema_repair_attempts |-> repairs]

Deterministic == [model_backed |-> FALSE, retry |-> RetryContract(0)]
ModelBacked == [model_backed |-> TRUE, retry |-> RetryContract(1)]

NodeContract(state_keys, permitted, capabilities, kind) ==
    [state_keys |-> state_keys, permitted_state_keys |-> permitted,
     capabilities |-> capabilities, model_backed |-> kind.model_backed, retry |-> kind.retry]

G2_INCIDENT_COORDINATOR ==
    NodeContract(STATE_KEYS,
        EndingKeys \cup {"phase", "capability_menu", "open_gaps", "budget", "iteration",
                         "resumed_count", "failures", "terminal_incident_status"},
        {}, Deterministic)

G3_INVESTIGATION_PLANNER ==
    NodeContract(STATE_KEYS,
        EndingKeys \cup {"phase", "iteration", "last_decision", "open_gaps", "steps", "budget",
                         "budget_refusal", "failures"},
        {}, ModelBacked)

G4_EVIDENCE_COLLECTOR ==
    NodeContract(STATE_KEYS,
        {"phase", "evidence", "steps", "covered_domains", "degraded_domains", "budget",
         "budget_refusal", "failures"},
        _READ_CAPABILITIES, Deterministic)

G5_HYPOTHESIS_ENGINE ==
    NodeContract(STATE_KEYS,
        {"phase", "hypotheses", "open_gaps", "reflection_decision", "budget", "failures"},
        {}, ModelBacked)

G2_TERMINATOR ==
    NodeContract(STATE_KEYS,
        EndingKeys \cup {"phase", "terminal_incident_status", "budget", "budget_refusal",
                         "failures"},
        {}, Deterministic)

\* The keys every remediation node may write.
RemediationNode(own, capabilities, kind) ==
    NodeContract(REMEDIATION_STATE_KEYS,
        {"phase", "remediation_action", "budget", "failures", "terminated",
         "termination_reason", "target_incident_status"} \cup own,
        capabilities, kind)

G6_REMEDIATION_PLANNER == RemediationNode({}, {}, ModelBacked)

G7_POLICY_GATE == RemediationNode({"policy_decision"}, {}, Deterministic)

G8_APPROVAL_SERVICE == RemediationNode({"approval"}, {}, Deterministic)

G9_REMEDIATION_EXECUTOR ==
    RemediationNode({}, _WRITE_CAPABILITIES \cup _READ_CAPABILITIES, Deterministic)

G10_VERIFIER ==
    RemediationNode({"verification", "baseline_captured"}, _READ_CAPABILITIES, Deterministic)

\* The notification service is no node of a graph and writes no graph state.
S2_NOTIFICATION_SERVICE ==
    NodeContract(STATE_KEYS, {}, NOTIFICATION_CAPABILITIES, Deterministic)

NODE_CONTRACTS ==
    [coordinator |-> G2_INCIDENT_COORDINATOR, planner |-> G3_INVESTIGATION_PLANNER,
     evidence_collector |-> G4_EVIDENCE_COLLECTOR, hypothesis_engine |-> G5_HYPOTHESIS_ENGINE,
     terminator |-> G2_TERMINATOR, remediation_planner |-> G6_REMEDIATION_PLANNER,
     policy_gate |-> G7_POLICY_GATE, approval_service |-> G8_APPROVAL_SERVICE,
     remediation_executor |-> G9_REMEDIATION_EXECUTOR, verifier |-> G10_VERIFIER]

contract_for(node) == NODE_CONTRACTS[node]

\* A node that returns any other key is stopped by an exception.
validate_update(contract, keys) ==
    /\ keys \subseteq contract.state_keys
    /\ keys \cap IMMUTABLE_STATE_KEYS = {}
    /\ keys \subseteq contract.permitted_state_keys

permits_capability(contract, capability) == capability \in contract.capabilities

\* The contracts can be kept; a node that reasons can reach nothing; of the nodes
\* only the executor may write; and the verifier, which judges it, reports through
\* keys the executor may not touch.
ASSUME ContractsAssumption ==
    /\ \A n \in DOMAIN NODE_CONTRACTS :
         /\ validate_update(contract_for(n), contract_for(n).permitted_state_keys)
         /\ contract_for(n).model_backed => contract_for(n).capabilities = {}
         /\ contract_for(n).capabilities \cap _WRITE_CAPABILITIES # {} => n = "remediation_executor"
         /\ contract_for(n).capabilities \cap NOTIFICATION_CAPABILITIES = {}
    /\ ~validate_update(G9_REMEDIATION_EXECUTOR, {"verification"})
============================================================================
