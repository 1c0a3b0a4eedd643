------------------------------- MODULE Policy -------------------------------
(***************************************************************************)
(* The deterministic policy gate's rule engine: a pure function from the   *)
(* inputs computed out of durable rows to a verdict and the rule that gave *)
(* it.  Confidence and the count of contradicting evidence keep their      *)
(* order (they are compared), everything else is the Boolean the code      *)
(* reads.  Risk tier r3 is not registered and raises instead of getting a  *)
(* verdict.                                                                *)
(***************************************************************************)
EXTENDS Integers

CONSTANTS
    Confidence,             \* the confidence values a hypothesis can carry
    ConfidenceThreshold,    \* the floor for autonomous action
    MaxContradicting        \* bound on the count of contradicting evidence

ASSUME ConfidenceAssumption ==
    /\ Confidence \subseteq Int
    /\ ConfidenceThreshold \in Int
    /\ MaxContradicting \in Nat

RiskTier == {"ro", "r1", "r2", "r3"}

PolicyVerdict == {"allow", "deny", "require_approval"}

PolicyInputs ==
    [risk_tier : RiskTier \ {"r3"},
     is_production : BOOLEAN,
     hypothesis_confidence : Confidence,
     contradicting_evidence_count : 0..MaxContradicting,
     competing_hypotheses_conflict : BOOLEAN,
     unexplained_counter_evidence : BOOLEAN,
     evidence_stale : BOOLEAN,
     concurrent_incident_same_scope : BOOLEAN,
     tenant_requires_approval_override : BOOLEAN]

\* Each signal is evaluated independently; all that fire are reported.
detect_ambiguity(inputs) ==
    {signal \in {"confidence_below_threshold", "competing_hypotheses_conflict",
                 "unexplained_counter_evidence", "evidence_stale",
                 "concurrent_incident_same_scope"} :
        \/ /\ signal = "confidence_below_threshold"
           /\ inputs.hypothesis_confidence < ConfidenceThreshold
        \/ /\ signal = "competing_hypotheses_conflict"
           /\ inputs.competing_hypotheses_conflict
        \/ /\ signal = "unexplained_counter_evidence"
           /\ \/ inputs.unexplained_counter_evidence
              \/ inputs.contradicting_evidence_count > 0
        \/ /\ signal = "evidence_stale"
           /\ inputs.evidence_stale
        \/ /\ signal = "concurrent_incident_same_scope"
           /\ inputs.concurrent_incident_same_scope}

Verdict(verdict, rule) == [verdict |-> verdict, rule_id |-> rule]

\* Mutant: one approval rule for both write tiers.
evaluate_policy_R2LikeR1(inputs) ==
    IF inputs.is_production \/ detect_ambiguity(inputs) # {}
       \/ inputs.tenant_requires_approval_override
    THEN Verdict("require_approval", "P1")
    ELSE Verdict("allow", "P6")

\* The autonomy matrix, first matching rule wins within a tier.
evaluate_policy(inputs) ==
    LET ambiguous == detect_ambiguity(inputs) # {}
    IN  CASE inputs.risk_tier = "ro" ->
                Verdict("allow", "P0")
          [] inputs.risk_tier = "r2" ->
                IF ambiguous \/ inputs.concurrent_incident_same_scope
                THEN Verdict("deny", "P4")
                ELSE Verdict("require_approval", "P3")
          [] inputs.risk_tier = "r1" ->
                IF inputs.tenant_requires_approval_override
                THEN Verdict("require_approval", "P5")
                ELSE IF ambiguous THEN Verdict("require_approval", "P2")
                ELSE IF inputs.is_production THEN Verdict("require_approval", "P1")
                ELSE Verdict("allow", "P6")
=============================================================================
