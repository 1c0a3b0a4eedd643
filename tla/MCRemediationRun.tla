-------------------------- MODULE MCRemediationRun --------------------------
(***************************************************************************)
(* Instances of RemediationRun for TLC.  The policy cases are one per      *)
(* outcome of the gate that a write can have behind it.                    *)
(***************************************************************************)
EXTENDS RemediationRun, TLC

Case(tier, production, stale, override) ==
    [risk_tier |-> tier, is_production |-> production, hypothesis_confidence |-> 1,
     contradicting_evidence_count |-> 0, competing_hypotheses_conflict |-> FALSE,
     unexplained_counter_evidence |-> FALSE, evidence_stale |-> stale,
     concurrent_incident_same_scope |-> FALSE,
     tenant_requires_approval_override |-> override]

Allowed == Case("r1", FALSE, FALSE, FALSE)
NeedsApproval == Case("r2", FALSE, FALSE, FALSE)
Denied == Case("r2", FALSE, TRUE, FALSE)

CaseMatrix ==
    {Allowed, NeedsApproval, Denied,
     Case("r1", TRUE, FALSE, FALSE),
     Case("r1", FALSE, TRUE, FALSE),
     Case("r1", FALSE, FALSE, TRUE)}

CaseTriple == {Allowed, NeedsApproval, Denied}

ConfidenceLevels == {0, 1}

WorkerSymmetry == Permutations(Workers)
=============================================================================
