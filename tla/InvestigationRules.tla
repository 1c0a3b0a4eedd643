------------------------ MODULE InvestigationRules ------------------------
(***************************************************************************)
(* The deterministic rules of an investigation: what a budget refuses,     *)
(* what confidence the evidence can justify, which of the model's          *)
(* proposals are believed and when a run stops.  Pure operators over the   *)
(* records InvestigationRun keeps.  Confidence and quality are percents.   *)
(***************************************************************************)
EXTENDS Integers, Sequences, FiniteSets

PlannerAction == {"collect_evidence", "form_hypothesis", "terminate"}

ReflectionAction ==
    {"revise_hypothesis", "continue_with_gap", "collect_counter_evidence",
     "terminate_success", "terminate_uncertain", "escalate"}

HypothesisStatus == {"proposed", "accepted", "rejected", "superseded"}

\* What a run has consumed.  Tokens stand for cost too: both are charged by
\* the same calls and compared in the same way.
BudgetLedger == [iterations : Nat, tool_calls : Nat, tokens : Nat]

NoCharge == [iterations |-> 0, tool_calls |-> 0, tokens |-> 0]

charge(ledger, cost) == [k \in DOMAIN ledger |-> ledger[k] + cost[k]]

(***************************************************************************)
(* A dimension is exhausted when it has reached its limit; the wall clock  *)
(* is observed, not charged, so it is the argument late.  A step is        *)
(* refused already when it would bring a dimension to its limit.           *)
(***************************************************************************)
exhausted_kinds(ledger, late, policy) ==
    {k \in DOMAIN ledger : ledger[k] >= policy[k]}
        \cup (IF late THEN {"wall_clock"} ELSE {})

refusal_kinds(ledger, cost, late, policy) ==
    exhausted_kinds(charge(ledger, cost), late, policy)

\* Mutant: a step is refused only once the budget is gone.
require_headroom_late(ledger, cost, late, policy) ==
    exhausted_kinds(ledger, late, policy) = {}

require_headroom(ledger, cost, late, policy) ==
    refusal_kinds(ledger, cost, late, policy) = {}

MIN_ACTIONABLE_CONFIDENCE == 55
MIN_EVIDENCE_FOR_CONCLUSION == 2

Least(a, b) == IF a <= b THEN a ELSE b

(***************************************************************************)
(* The most confidence the evidence can justify, whatever was claimed.     *)
(***************************************************************************)
confidence_ceiling(supporting, contradicting, quality) ==
    CASE supporting = 0    -> 10
      [] supporting > 0 /\ contradicting > 0 -> 35
      [] supporting = 1 /\ contradicting = 0 ->
             Least(40, 20 + (quality * 40) \div 100)
      [] OTHER -> Least(95, 45 + 10 * Least(supporting, 4)
                              + (quality * 20) \div 100)

(***************************************************************************)
(* A run's list of hypotheses is append-only: a revision appends the same  *)
(* hypothesis again with its new status, and the last entry counts.        *)
(***************************************************************************)
IsLatest(hyps, i) == \A j \in (i + 1) .. Len(hyps) : hyps[j].id # hyps[i].id

Candidates(hyps) ==
    {hyps[i] : i \in {j \in DOMAIN hyps :
                        /\ IsLatest(hyps, j)
                        /\ hyps[j].status \in {"proposed", "accepted"}}}

Outranks(g, h) ==
    \/ g.confidence > h.confidence
    \/ g.confidence = h.confidence /\ g.rank <= h.rank

\* Hypotheses that no other live one outranks; the code picks one of them.
BestHypotheses(hyps) ==
    {g \in Candidates(hyps) : \A h \in Candidates(hyps) : Outranks(g, h)}

\* At least half of the domains attempted were not degraded.
CoverageSuffices(covered, degraded) ==
    LET attempted == covered \cup degraded
    IN  /\ attempted # {}
        /\ 2 * Cardinality(attempted \ degraded) >= Cardinality(attempted)

is_actionable(hyps, covered, degraded) ==
    \E best \in BestHypotheses(hyps) :
        /\ best.confidence >= MIN_ACTIONABLE_CONFIDENCE
        /\ best.support >= MIN_EVIDENCE_FOR_CONCLUSION
        /\ best.contra = 0
        /\ CoverageSuffices(covered, degraded)

Verdict(action, target, gap) ==
    [action |-> action, target |-> target, gap |-> gap]

(***************************************************************************)
(* Where a refused proposal lands: on an open gap, with a human, or        *)
(* nowhere.                                                                *)
(***************************************************************************)
reflection_fallback(hyps, gaps, covered, degraded) ==
    CASE gaps # {} -> Verdict("continue_with_gap", 0, CHOOSE g \in gaps : TRUE)
      [] gaps = {} /\ is_actionable(hyps, covered, degraded) ->
             Verdict("escalate", 0, "none")
      [] OTHER -> Verdict("terminate_uncertain", 0, "none")

\* The entry the lookup by id finds: the first one.
FirstEntry(hyps, id) ==
    hyps[CHOOSE i \in DOMAIN hyps :
            /\ hyps[i].id = id
            /\ \A j \in 1 .. (i - 1) : hyps[j].id # id]

(***************************************************************************)
(* Whether the proposal is believed.  A target is the id of a hypothesis   *)
(* of this run, 0 is no target.  fresh holds the ids accepted in this      *)
(* step: only these can replace another hypothesis.                        *)
(***************************************************************************)
reflection_admits(proposal, hyps, fresh, gaps, covered, degraded) ==
    /\ proposal.action # "none"
    /\ proposal.action \in {"revise_hypothesis", "collect_counter_evidence"} =>
           \E i \in DOMAIN hyps : hyps[i].id = proposal.target
    /\ proposal.action = "revise_hypothesis" =>
           /\ fresh \ {proposal.target} # {}
           /\ FirstEntry(hyps, proposal.target).status # "superseded"
    /\ proposal.action = "continue_with_gap" =>
           proposal.gap # "none" \/ gaps # {}
    /\ proposal.action = "terminate_success" =>
           is_actionable(hyps, covered, degraded)
    /\ proposal.action = "escalate" => Candidates(hyps) # {}

AdmittedGap(proposal, gaps) ==
    CASE proposal.gap # "none" -> proposal.gap
      [] proposal.gap = "none" /\ proposal.action = "continue_with_gap" ->
             CHOOSE g \in gaps : TRUE
      [] proposal.gap = "none" /\ proposal.action = "collect_counter_evidence" ->
             "counter"
      [] OTHER -> "none"

decide_reflection(proposal, hyps, fresh, gaps, covered, degraded) ==
    IF reflection_admits(proposal, hyps, fresh, gaps, covered, degraded)
    THEN Verdict(proposal.action,
                 IF proposal.action \in {"revise_hypothesis", "collect_counter_evidence"}
                 THEN proposal.target ELSE 0,
                 IF proposal.action \in {"terminate_success", "terminate_uncertain", "escalate"}
                 THEN "none" ELSE AdmittedGap(proposal, gaps))
    ELSE reflection_fallback(hyps, gaps, covered, degraded)

(***************************************************************************)
(* The termination rules, in their order: an unrecoverable failure, the    *)
(* budget, an actionable cause, a wish to stop without one, or go on.      *)
(* The result is the incident status the run ends with, "none" to go on.   *)
(***************************************************************************)
WantsToStop(planner, reflection) ==
    \/ planner = "terminate"
    \/ reflection \in {"terminate_success", "terminate_uncertain", "escalate"}

\* Mutant: a wish to stop is taken for a cause.
decide_hasty(i) ==
    CASE i.unrecoverable -> "failed"
      [] ~i.unrecoverable /\ (i.exhausted \/ i.refusal) -> "uncertain"
      [] ~i.unrecoverable /\ ~(i.exhausted \/ i.refusal) /\ i.stop -> "escalated"
      [] OTHER -> "none"

decide(i) ==
    CASE i.unrecoverable -> "failed"
      [] ~i.unrecoverable /\ (i.exhausted \/ i.refusal) -> "uncertain"
      [] ~i.unrecoverable /\ ~(i.exhausted \/ i.refusal) /\ i.stop /\ i.actionable ->
             "escalated"
      [] ~i.unrecoverable /\ ~(i.exhausted \/ i.refusal) /\ i.stop /\ ~i.actionable ->
             "uncertain"
      [] OTHER -> "none"
===========================================================================
