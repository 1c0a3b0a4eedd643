--------------------------- MODULE RemediationRun ---------------------------
(***************************************************************************)
(* One remediation run of one incident, driven by several worker           *)
(* processes: the lease on the run, the five graph nodes (planner, policy  *)
(* gate, approval, executor, verifier), the durable evidence of a write    *)
(* (execution intent, effect claim, receipt), the adapter that applies the *)
(* effect, the human approver and the human operator, and the faults in    *)
(* between.                                                                *)
(*                                                                         *)
(* A "pass" is one traversal of the graph by one worker; every resume      *)
(* re-enters the graph at the planner and re-derives where the run had got *)
(* to from durable rows.  A node is one transaction, so a node is one step *)
(* here, except the executor: it commits the intent and the claim in       *)
(* transactions of their own around an external call, and each of those    *)
(* moments is a step.                                                      *)
(***************************************************************************)
EXTENDS IncidentState, Policy

CONSTANTS
    Workers,      \* worker slots; every pass leases under a name of its own
    Free,         \* no lease owner / no row-lock holder
    Dead,         \* the lease name of a pass that ended without releasing it
    Cases,        \* the policy inputs considered
    Stalls,       \* TRUE: a pass may outlive its 15-minute lease
    MaxFaults     \* bound on crashes, lost connections and unexpected errors

ASSUME RunAssumption ==
    /\ Free \notin Workers /\ Dead \notin Workers /\ Free # Dead
    /\ Cases \subseteq {i \in PolicyInputs : i.risk_tier \in {"r1", "r2"}}   \* a write's tiers
    /\ Stalls \in BOOLEAN
    /\ MaxFaults \in Nat

VARIABLES
    run,           \* workflow_run.status ("absent" before the run is opened)
    owner,         \* workflow_run.lease_owner
    expired,       \* workflow_run.lease_expires_at < now
    ckptTerm,      \* "terminated" in the latest workflow_checkpoint
    incident,      \* incident.status
    lock,          \* holder of the incident row lock across the external call
    inputs,        \* what the policy gate reads (fixed for the run)
    verdict,       \* policy_decision.verdict
    approval,      \* approval.decision: at most one row per action version
    windowClosed,  \* now >= policy_decision.evaluated_at + approval window
    action,        \* remediation_action.status
    baseline,      \* a remediation_baseline row exists
    executed,      \* remediation_action.executed_at is set
    settled,       \* now >= executed_at + settling_seconds
    verification,  \* the latest verification.verdict
    claimed,       \* the broker's append-only effect claim exists
    receipt,       \* tool_execution.outcome of the write
    calls,         \* writes the adapter received
    effects,       \* effects applied at the target
    late,          \* an abandoned adapter call may still apply its effect
    prior,         \* what another action left under the same effect key
    observed,      \* a read-back found the target in the wanted state
    pc,            \* where each worker's pass is
    term,          \* "terminated" in each pass's graph state
    seen,          \* run status read by resume() before it claims the lease
    res,           \* executor: evidence class found, or the broker's outcome
    txlost,        \* the executor's node transaction was lost
    itemLock,      \* holder of the advisory lock on the run's work item
    faults

leaseVars == <<run, owner, expired>>
incidentVars == <<incident, lock>>
gateVars == <<inputs, verdict, approval, windowClosed>>
actionVars == <<action, baseline, executed, settled, verification>>
effectVars == <<claimed, receipt, calls, effects, late, prior, observed>>
passVars == <<pc, term, seen, res, txlost, itemLock>>
vars == <<leaseVars, ckptTerm, incidentVars, gateVars, actionVars, effectVars,
          passVars, faults>>

RunStatus == {"absent", "running", "suspended", "completed", "dead_lettered"}

ActionStatus ==
    {"none", "proposed", "denied", "awaiting_approval", "authorized", "executing",
     "succeeded", "failed_clean", "failed_partial", "verified", "not_verified",
     "inconclusive"}

VerificationVerdict == {"verified", "not_verified", "inconclusive"}

ToolExecutionOutcome == {"succeeded", "failed_clean", "unknown"}

\* Statuses record_execution_intent accepts.
PRE_DISPATCH == {"authorized", "awaiting_approval", "executing"}

GraphNodes == {"planner", "policy", "approval", "verifier", "executor"}

\* The executor between its first read and its commit.
ExecutorSteps == {"recover", "intent", "authorize", "lookup", "claim", "call", "outcome"}

InNode == GraphNodes \cup ExecutorSteps

PassStep == {"idle", "found", "picked", "resuming", "end"} \cup InNode

LeaseType ==
    /\ run \in RunStatus
    /\ owner \in Workers \cup {Free, Dead}
    /\ expired \in BOOLEAN

IncidentType == incident \in IncidentStatus /\ lock \in Workers \cup {Free}

GateType ==
    /\ inputs \in Cases
    /\ verdict \in PolicyVerdict \cup {"none"}
    /\ approval \in {"none", "approved", "rejected", "expired"}
    /\ windowClosed \in BOOLEAN

ActionType ==
    /\ action \in ActionStatus
    /\ baseline \in BOOLEAN
    /\ executed \in BOOLEAN
    /\ settled \in BOOLEAN
    /\ verification \in VerificationVerdict \cup {"none"}

EffectType ==
    /\ claimed \in BOOLEAN
    /\ receipt \in ToolExecutionOutcome \cup {"none"}
    /\ calls \in Nat
    /\ effects \in Nat
    /\ late \in BOOLEAN
    /\ prior \in ToolExecutionOutcome \cup {"none", "claimed"}
    /\ observed \in BOOLEAN

PassType ==
    /\ pc \in [Workers -> PassStep]
    /\ term \in [Workers -> BOOLEAN]
    /\ seen \in [Workers -> RunStatus]
    /\ res \in [Workers -> ToolExecutionOutcome \cup {"none", "no_effect", "refused"}]
    /\ txlost \in [Workers -> BOOLEAN]
    /\ itemLock \in Workers \cup {Free}

TypeOK ==
    /\ LeaseType /\ ckptTerm \in BOOLEAN
    /\ IncidentType /\ GateType /\ ActionType /\ EffectType /\ PassType
    /\ faults \in 0..MaxFaults

Init ==
    /\ run = "absent" /\ owner = Free /\ expired = FALSE /\ ckptTerm = FALSE
    /\ incident = "investigating" /\ lock = Free
    /\ inputs \in Cases /\ verdict = "none" /\ approval = "none" /\ windowClosed = FALSE
    /\ action = "none" /\ baseline = FALSE /\ executed = FALSE /\ settled = FALSE
    /\ verification = "none"
    /\ claimed = FALSE /\ receipt = "none" /\ calls = 0 /\ effects = 0 /\ late = FALSE
    /\ prior = "none" /\ observed = FALSE
    /\ pc = [w \in Workers |-> "idle"]
    /\ term = [w \in Workers |-> FALSE]
    /\ seen = [w \in Workers |-> "absent"]
    /\ res = [w \in Workers |-> "none"]
    /\ txlost = [w \in Workers |-> FALSE]
    /\ itemLock = Free
    /\ faults = 0

-----------------------------------------------------------------------------
(* How a pass moves, commits and ends.                                     *)

Goto(w, step) == pc' = [pc EXCEPT ![w] = step]

\* The pass's local state and its transaction are gone.
Leave(w) ==
    /\ Goto(w, "idle")
    /\ term' = [term EXCEPT ![w] = FALSE]
    /\ seen' = [seen EXCEPT ![w] = "absent"]
    /\ res' = [res EXCEPT ![w] = "none"]
    /\ txlost' = [txlost EXCEPT ![w] = FALSE]
    /\ lock' = IF lock = w THEN Free ELSE lock
    /\ itemLock' = IF itemLock = w THEN Free ELSE itemLock

ReleaseLease == owner' = Free /\ expired' = FALSE

\* A node's writes, its checkpoint and the routing to the next node commit together.
CommitNode(w, terminated, next) ==
    /\ Goto(w, next)
    /\ term' = [term EXCEPT ![w] = terminated]
    /\ res' = [res EXCEPT ![w] = "none"]
    /\ ckptTerm' = terminated
    /\ lock' = IF lock = w THEN Free ELSE lock
    /\ UNCHANGED <<seen, txlost, itemLock>>

\* An exception out of a node: roll the node back, dead-letter the run, give the lease up.
\* None of these writes asks whether this worker still holds the lease.
Raise(w) ==
    /\ Leave(w)
    /\ run' = "dead_lettered"
    /\ ReleaseLease
    /\ UNCHANGED <<ckptTerm, incident, gateVars, actionVars, effectVars>>

\* apply_transition under the incident's optimistic lock.
MayMove(target, actor, reason) ==
    assert_transition_allowed(incident, target, actor, reason, FALSE)

\* No other transaction holds the incident row.
RowFree(w) == lock \in {Free, w}

-----------------------------------------------------------------------------
(* Opening, finding and resuming the run.                                  *)

Start(w) ==
    /\ pc[w] = "idle"
    /\ run = "absent"
    /\ incident = "investigating"
    /\ run' = "running" /\ owner' = w /\ expired' = FALSE
    /\ ckptTerm' = FALSE
    /\ Goto(w, "planner")
    /\ UNCHANGED <<incidentVars, gateVars, actionVars, effectVars, term, seen, res,
                   txlost, itemLock, faults>>

\* Mutant: a run waiting for its settling window is never ready again.
remediation_ready_NoSettling ==
    \/ action = "none"
    \/ action = "awaiting_approval" /\ (approval # "none" \/ windowClosed)
    \/ action \notin {"none", "awaiting_approval"} /\ (executed => verification # "none")

\* A suspended run has something new to act on.
remediation_ready ==
    \/ action = "none"
    \/ action = "awaiting_approval" /\ (approval # "none" \/ windowClosed)
    \/ action \notin {"none", "awaiting_approval"}
       /\ (executed => (verification # "none" \/ settled))

stranded == run = "suspended" \/ (run = "running" /\ (owner = Free \/ expired))

\* The poller lists the run ...
Discover(w) ==
    /\ pc[w] = "idle"
    /\ stranded
    /\ run = "running" \/ remediation_ready
    /\ Goto(w, "found")
    /\ UNCHANGED <<leaseVars, ckptTerm, incidentVars, gateVars, actionVars, effectVars,
                   term, seen, res, txlost, itemLock, faults>>

\* ... and tries the advisory lock of that item.  The pass that opened the run holds the
\* lock of the request instead, so this one does not keep it out.
ClaimItem(w) ==
    /\ pc[w] = "found"
    /\ IF itemLock = Free
       THEN /\ itemLock' = w
            /\ Goto(w, "picked")
            /\ UNCHANGED <<term, seen, res, txlost, lock>>
       ELSE Leave(w)
    /\ UNCHANGED <<leaseVars, ckptTerm, incident, gateVars, actionVars, effectVars, faults>>

\* resume() reads the run without a lock and refuses a finished one ...
ResumeRead(w) ==
    /\ pc[w] = "picked"
    /\ IF run = "completed"
       THEN Leave(w)
       ELSE /\ Goto(w, "resuming")
            /\ seen' = [seen EXCEPT ![w] = run]
            /\ UNCHANGED <<term, res, txlost, itemLock, lock>>
    /\ UNCHANGED <<leaseVars, ckptTerm, incident, gateVars, actionVars, effectVars, faults>>

\* Mutants: steal a lease that still holds; never take over one that ran out.
LeaseClaimable_Steal(w) == TRUE
LeaseClaimable_FreeOnly(w) == owner \in {Free, w}

\* _claim_lease: a conditional update on what the row holds now.
LeaseClaimable(w) == owner \in {Free, w} \/ expired

\* ... then claims the lease, rebuilds the graph state from durable rows and sets the
\* status: the ORM writes the column only if the status it read was not "running".
\* The rows carry the action, the decision, the approval and the verdict; the
\* checkpoint adds whether the run had terminated.
rehydrate(w) == term' = [term EXCEPT ![w] = ckptTerm]

ResumeClaim(w) ==
    /\ pc[w] = "resuming"
    /\ LeaseClaimable(w)
    /\ owner' = w /\ expired' = FALSE
    /\ run' = IF seen[w] = "running" THEN run ELSE "running"
    /\ Goto(w, "planner")
    /\ rehydrate(w)
    /\ seen' = [seen EXCEPT ![w] = "absent"]
    /\ UNCHANGED <<ckptTerm, incidentVars, gateVars, actionVars, effectVars, res, txlost, itemLock,
                   faults>>

ResumeRefused(w) ==
    /\ pc[w] = "resuming"
    /\ ~LeaseClaimable(w)
    /\ Leave(w)
    /\ UNCHANGED <<leaseVars, ckptTerm, incident, gateVars, actionVars, effectVars, faults>>

\* The graph ended without terminating: the run waits for something.
Suspend(w) ==
    /\ pc[w] = "end"
    /\ ~term[w]
    /\ run' = "suspended"
    /\ ReleaseLease
    /\ Leave(w)
    /\ UNCHANGED <<ckptTerm, incident, gateVars, actionVars, effectVars, faults>>

Finalise(w) ==
    /\ pc[w] = "end"
    /\ term[w]
    /\ run' = "completed"
    /\ ReleaseLease
    /\ Leave(w)
    /\ UNCHANGED <<ckptTerm, incident, gateVars, actionVars, effectVars, faults>>

-----------------------------------------------------------------------------
(* G6, the planner.                                                        *)

AfterPlanner(w) == IF term[w] THEN "end" ELSE "policy"

\* A persisted proposal is resumed, never asked for again.
PlannerReplay(w) ==
    /\ pc[w] = "planner"
    /\ action # "none"
    /\ CommitNode(w, term[w], AfterPlanner(w))
    /\ UNCHANGED <<leaseVars, incident, gateVars, actionVars, effectVars, faults>>

PlannerPropose(w) ==
    /\ pc[w] = "planner"
    /\ action = "none"
    /\ action' = "proposed"
    /\ CommitNode(w, term[w], AfterPlanner(w))
    /\ UNCHANGED <<leaseVars, incident, gateVars, baseline, executed, settled, verification,
                   effectVars, faults>>

\* The planner proposes nothing: the incident stays where it is.
PlannerNoAction(w) ==
    /\ pc[w] = "planner"
    /\ action = "none"
    /\ CommitNode(w, TRUE, "end")
    /\ UNCHANGED <<leaseVars, incident, gateVars, actionVars, effectVars, faults>>

\* Budget, schema, provider, citation or capability failure: escalate.
PlannerTerminate(w) ==
    /\ pc[w] = "planner"
    /\ action = "none"
    /\ RowFree(w)
    /\ IF incident = "escalated" \/ MayMove("escalated", "system", TRUE)
       THEN /\ incident' = "escalated"
            /\ CommitNode(w, TRUE, "end")
            /\ UNCHANGED <<leaseVars, gateVars, actionVars, effectVars>>
       ELSE Raise(w)
    /\ UNCHANGED faults

-----------------------------------------------------------------------------
(* G7, the policy gate.                                                    *)

AfterPolicy(v, terminated) ==
    IF terminated THEN "end" ELSE IF v = "allow" THEN "verifier" ELSE "approval"

\* Exactly one decision per action: a recorded one is replayed.
PolicyReplay(w) ==
    /\ pc[w] = "policy"
    /\ verdict # "none"
    /\ LET t == term[w] \/ verdict = "deny"
       IN  CommitNode(w, t, AfterPolicy(verdict, t))
    /\ UNCHANGED <<leaseVars, incident, gateVars, actionVars, effectVars, faults>>

ActionAfter(v) ==
    [allow |-> "authorized", deny |-> "denied", require_approval |-> "awaiting_approval"][v]

IncidentAfter(v) ==
    [allow |-> "remediating", deny |-> "escalated",
     require_approval |-> "awaiting_approval"][v]

PolicyEvaluate(w) ==
    /\ pc[w] = "policy"
    /\ verdict = "none"
    /\ RowFree(w)
    /\ LET v == evaluate_policy(inputs).verdict
           t == term[w] \/ v = "deny"
           target == IncidentAfter(v)
       IN  IF incident = target \/ MayMove(target, "system", v = "deny")
           THEN /\ verdict' = v
                /\ action' = ActionAfter(v)
                /\ incident' = target
                /\ CommitNode(w, t, AfterPolicy(v, t))
                /\ UNCHANGED <<leaseVars, inputs, approval, windowClosed, baseline,
                               executed, settled, verification, effectVars>>
           ELSE Raise(w)
    /\ UNCHANGED faults

-----------------------------------------------------------------------------
(* G8, the approval service.                                               *)

\* Undecided and still inside the window: request, and let the run suspend.
ApprovalWait(w) ==
    /\ pc[w] = "approval"
    /\ approval = "none" /\ ~windowClosed
    /\ CommitNode(w, FALSE, "end")
    /\ UNCHANGED <<leaseVars, incident, gateVars, actionVars, effectVars, faults>>

\* The CHECK constraint human_decision_has_timestamp on the approval table.
ApprovalRowAdmitted(decision, hasDecidedAt) ==
    (decision \in {"approved", "rejected"}) = hasDecidedAt

\* The window elapsed undecided: a system "expired" row with a decided_at is inserted and
\* routed like a rejection - if the table admits it.
ApprovalExpire(w) ==
    /\ pc[w] = "approval"
    /\ approval = "none" /\ windowClosed
    /\ RowFree(w)
    /\ IF ApprovalRowAdmitted("expired", TRUE) /\ MayMove("escalated", "system", TRUE)
       THEN /\ approval' = "expired"
            /\ incident' = "escalated"
            /\ CommitNode(w, TRUE, "end")
            /\ UNCHANGED <<leaseVars, inputs, verdict, windowClosed, actionVars, effectVars>>
       ELSE Raise(w)
    /\ UNCHANGED faults

\* Approved: the first pass to see it moves the incident as the approving human; later
\* passes find the incident elsewhere and only continue.
ApprovalGranted(w) ==
    /\ pc[w] = "approval"
    /\ approval = "approved"
    /\ RowFree(w)
    /\ incident' = IF incident = "awaiting_approval" THEN "remediating" ELSE incident
    /\ CommitNode(w, FALSE, "verifier")
    /\ UNCHANGED <<leaseVars, gateVars, actionVars, effectVars, faults>>

\* Rejected (or expired): escalate, unconditionally - which raises if a human already did.
ApprovalRefused(w) ==
    /\ pc[w] = "approval"
    /\ approval \in {"rejected", "expired"}
    /\ RowFree(w)
    /\ IF MayMove("escalated", "system", TRUE)
       THEN /\ incident' = "escalated"
            /\ CommitNode(w, TRUE, "end")
            /\ UNCHANGED <<leaseVars, gateVars, actionVars, effectVars>>
       ELSE Raise(w)
    /\ UNCHANGED faults

-----------------------------------------------------------------------------
(* G10, the verifier: before the write it freezes a baseline, after it a    *)
(* verdict.                                                                *)

VerifierBaseline(w) ==
    /\ pc[w] = "verifier"
    /\ ~baseline /\ ~executed
    /\ baseline' = TRUE
    /\ CommitNode(w, FALSE, "executor")
    /\ UNCHANGED <<leaseVars, incident, gateVars, action, executed, settled, verification,
                   effectVars, faults>>

\* The independent read failed: the run ends and the incident stays where it is.
VerifierNoBaseline(w) ==
    /\ pc[w] = "verifier"
    /\ ~baseline /\ ~executed
    /\ CommitNode(w, TRUE, "end")
    /\ UNCHANGED <<leaseVars, incident, gateVars, actionVars, effectVars, faults>>

VerifierToExecutor(w) ==
    /\ pc[w] = "verifier"
    /\ baseline /\ ~executed
    /\ CommitNode(w, FALSE, "executor")
    /\ UNCHANGED <<leaseVars, incident, gateVars, actionVars, effectVars, faults>>

VerifierSettling(w) ==
    /\ pc[w] = "verifier"
    /\ baseline /\ executed /\ ~settled
    /\ CommitNode(w, FALSE, "end")
    /\ UNCHANGED <<leaseVars, incident, gateVars, actionVars, effectVars, faults>>

IncidentAfterVerification(v) ==
    [verified |-> "resolved", not_verified |-> "investigating",
     inconclusive |-> "escalated"][v]

VerifierDue(w) == pc[w] = "verifier" /\ baseline /\ executed /\ settled

\* The verdict is the target's: the model leaves it to the environment.
VerifierJudge(w) ==
    /\ VerifierDue(w)
    /\ RowFree(w)
    /\ \E v \in VerificationVerdict :
          IF MayMove(IncidentAfterVerification(v), "system", v # "not_verified")
          THEN /\ verification' = v
               /\ action' = v
               /\ incident' = IncidentAfterVerification(v)
               /\ CommitNode(w, TRUE, "end")
               /\ UNCHANGED <<leaseVars, gateVars, baseline, executed, settled, effectVars>>
          ELSE Raise(w)
    /\ UNCHANGED faults

-----------------------------------------------------------------------------
(* G9, the executor.  Its node transaction opens at the first read and      *)
(* commits at "recover" or "outcome"; the intent and the claim commit in    *)
(* transactions of their own in between.  A write of the incident row that  *)
(* fails its version check is one of the exceptions of NodeError.           *)

\* _route_success: the action succeeded; settling starts at the first recorded execution.
\* The tool_execution row ("record") commits with the node, or is lost with it.
RouteSuccess(w, record, confirmed) ==
    IF incident = "verifying" \/ MayMove("verifying", "system", FALSE)
    THEN /\ action' = "succeeded"
         /\ executed' = TRUE
         /\ incident' = "verifying"
         /\ receipt' = record
         /\ CommitNode(w, FALSE, "verifier")
         /\ observed' = (observed \/ confirmed)
         /\ UNCHANGED <<leaseVars, gateVars, baseline, settled, verification, claimed,
                        calls, effects, late, prior>>
    ELSE Raise(w)

\* _fail_closed: an unguarded write of the action's status, then the incident.
FailClosed(w, target, status, record) ==
    IF incident = target \/ MayMove(target, "system", target = "escalated")
    THEN /\ action' = status
         /\ incident' = target
         /\ receipt' = record
         /\ CommitNode(w, TRUE, "end")
         /\ UNCHANGED <<leaseVars, gateVars, baseline, executed, settled, verification,
                        claimed, calls, effects, late, prior, observed>>
    ELSE Raise(w)

\* _reconcile compares the target's present state with the wanted one.  Whoever brought it
\* there confirms the write, so both answers are always possible.
Reconcile(w, record) ==
    \/ RouteSuccess(w, record, TRUE)
    \/ FailClosed(w, "escalated", "failed_partial", record)

\* dispatch_evidence: what durable rows say of an earlier dispatch of this action.
Interrupted == action = "executing" \/ claimed \/ receipt # "none"

DispatchEvidence ==
    IF receipt # "none" THEN receipt ELSE IF claimed THEN "unknown" ELSE "no_effect"

\* A finished action is replayed, never decided again.
ExecutorReplay(w) ==
    /\ pc[w] = "executor"
    /\ \/ action = "succeeded" /\ CommitNode(w, FALSE, "verifier")
       \/ action \in {"failed_clean", "failed_partial"} /\ CommitNode(w, TRUE, "end")
    /\ UNCHANGED <<leaseVars, incident, gateVars, actionVars, effectVars, faults>>

AtDispatch(w) ==
    pc[w] = "executor" /\ action \notin {"succeeded", "failed_clean", "failed_partial"}

ExecutorEvidence(w) ==
    /\ AtDispatch(w)
    /\ Interrupted
    /\ res' = [res EXCEPT ![w] = DispatchEvidence]
    /\ Goto(w, "recover")
    /\ UNCHANGED <<leaseVars, ckptTerm, incidentVars, gateVars, actionVars, effectVars,
                   term, seen, txlost, itemLock, faults>>

\* Mutant: a claim without a receipt is taken to mean that nothing was sent.
Recover_ClaimIgnored(w) ==
    /\ pc[w] = "recover"
    /\ RowFree(w)
    /\ IF res[w] = "succeeded"
       THEN RouteSuccess(w, receipt, FALSE)
       ELSE FailClosed(w, "investigating", "failed_clean", receipt)
    /\ UNCHANGED faults

\* _recover_interrupted: route from the evidence alone, never dispatch again.
Recover(w) ==
    /\ pc[w] = "recover"
    /\ RowFree(w)
    /\ \/ res[w] \in {"no_effect", "failed_clean"}
          /\ FailClosed(w, "investigating", "failed_clean", receipt)
       \/ res[w] = "succeeded" /\ RouteSuccess(w, receipt, FALSE)
       \/ res[w] = "unknown" /\ Reconcile(w, receipt)
    /\ UNCHANGED faults

\* A precondition no longer reads as true, or the frozen baseline is no longer trusted.
ExecutorRefuses(w) ==
    /\ AtDispatch(w)
    /\ ~Interrupted
    /\ RowFree(w)
    /\ \E target \in {"investigating", "escalated"} : FailClosed(w, target, "failed_clean", receipt)
    /\ UNCHANGED faults

ExecutorReady(w) ==
    /\ AtDispatch(w)
    /\ ~Interrupted
    /\ baseline
    /\ Goto(w, "intent")
    /\ UNCHANGED <<leaseVars, ckptTerm, incidentVars, gateVars, actionVars, effectVars,
                   term, seen, res, txlost, itemLock, faults>>

\* record_execution_intent: a transaction of its own, guarded on the current status.
RecordIntent(w) ==
    /\ pc[w] = "intent"
    /\ action \in PRE_DISPATCH
    /\ action' = "executing"
    /\ Goto(w, "authorize")
    /\ UNCHANGED <<leaseVars, ckptTerm, incidentVars, gateVars, baseline, executed, settled,
                   verification, effectVars, term, seen, res, txlost, itemLock, faults>>

IntentRefused(w) ==
    /\ pc[w] = "intent"
    /\ action \notin PRE_DISPATCH
    /\ RowFree(w)
    /\ FailClosed(w, "escalated", "failed_clean", receipt)
    /\ UNCHANGED faults

\* The registered action, a permitting decision and, unless policy allowed it outright, a
\* human approval that has not lapsed.
require_write_authority ==
    /\ action = "executing"
    /\ \/ verdict = "allow"
       \/ verdict = "require_approval" /\ approval = "approved" /\ ~windowClosed

\* EXECUTION_STARTED locks the incident row for the rest of the node; then the broker
\* re-reads authority.  A grant or an approver revoked meanwhile refuses too.
Authorize(w) ==
    /\ pc[w] = "authorize"
    /\ RowFree(w)
    /\ lock' = w
    /\ \/ require_write_authority /\ Goto(w, "lookup") /\ UNCHANGED res
       \/ Goto(w, "outcome") /\ res' = [res EXCEPT ![w] = "refused"]
    /\ UNCHANGED <<leaseVars, ckptTerm, incident, gateVars, actionVars, effectVars, term,
                   seen, txlost, itemLock, faults>>

\* The first use of the node's session after it was lost raises.
Lost(w) == pc[w] \in {"lookup", "outcome"} /\ txlost[w] /\ Raise(w) /\ UNCHANGED faults

\* The outcomes on record under the effect key, which names the effect and not the action.
KeyReceipts == {receipt, prior} \cap ToolExecutionOutcome

\* _recorded_execution: a recorded outcome answers for the call, whichever action it was.
Lookup(w) ==
    /\ pc[w] = "lookup"
    /\ ~txlost[w]
    /\ \/ /\ \E o \in KeyReceipts : res' = [res EXCEPT ![w] = o]
          /\ Goto(w, "outcome")
       \/ /\ KeyReceipts = {}
          /\ Goto(w, "claim")
          /\ UNCHANGED res
    /\ UNCHANGED <<leaseVars, ckptTerm, incidentVars, gateVars, actionVars, effectVars, term,
                   seen, txlost, itemLock, faults>>

\* Mutant: the claim is recorded without looking for an earlier one.
ClaimWrite_Unchecked(w) ==
    /\ pc[w] = "claim"
    /\ claimed' = TRUE /\ Goto(w, "call")
    /\ UNCHANGED <<leaseVars, ckptTerm, incidentVars, gateVars, actionVars, receipt, calls,
                   effects, late, prior, observed, term, seen, res, txlost, itemLock, faults>>

\* Mutant: only this action's own claim is looked for.
ClaimWrite_ByAction(w) ==
    /\ pc[w] = "claim"
    /\ ~claimed /\ claimed' = TRUE /\ Goto(w, "call")
    /\ UNCHANGED <<leaseVars, ckptTerm, incidentVars, gateVars, actionVars, receipt, calls,
                   effects, late, prior, observed, term, seen, res, txlost, itemLock, faults>>

\* _claim_write: check and insert under the tenant's advisory lock, in its own transaction.
\* The claim, too, is looked for by effect key alone.
ClaimWrite(w) ==
    /\ pc[w] = "claim"
    /\ IF claimed \/ prior # "none"
       THEN /\ Goto(w, "outcome")
            /\ res' = [res EXCEPT ![w] = "refused"]
            /\ UNCHANGED claimed
       ELSE /\ Goto(w, "call")
            /\ claimed' = TRUE
            /\ UNCHANGED res
    /\ UNCHANGED <<leaseVars, ckptTerm, incidentVars, gateVars, actionVars, receipt, calls,
                   effects, late, prior, observed, term, seen, txlost, itemLock, faults>>

\* _dispatch, one attempt: an answer, a definite rejection, or silence at the deadline with
\* the effect applied, never applied, or still to come from the abandoned call.
Dispatch(w) ==
    /\ pc[w] = "call"
    /\ calls' = calls + 1
    /\ \/ effects' = effects + 1 /\ late' = late
          /\ \E o \in {"succeeded", "unknown"} : res' = [res EXCEPT ![w] = o]
       \/ effects' = effects /\ late' = late
          /\ \E o \in {"failed_clean", "unknown"} : res' = [res EXCEPT ![w] = o]
       \/ effects' = effects /\ late' = TRUE /\ res' = [res EXCEPT ![w] = "unknown"]
    /\ Goto(w, "outcome")
    /\ UNCHANGED <<leaseVars, ckptTerm, incidentVars, gateVars, actionVars, claimed, receipt,
                   prior, observed, term, seen, txlost, itemLock, faults>>

\* Mutant: a write that timed out is taken to have worked.
Settle_Optimistic(w, record) ==
    \/ res[w] \in {"succeeded", "unknown"} /\ RouteSuccess(w, record, FALSE)
    \/ res[w] = "failed_clean" /\ FailClosed(w, "investigating", "failed_clean", record)
    \/ res[w] = "refused" /\ FailClosed(w, "escalated", "failed_partial", record)

\* How the broker's outcome is routed.
Settle(w, record) ==
    \/ res[w] = "succeeded" /\ RouteSuccess(w, record, FALSE)
    \/ res[w] = "unknown" /\ Reconcile(w, record)
    \/ res[w] = "failed_clean" /\ FailClosed(w, "investigating", "failed_clean", record)
    \/ res[w] = "refused" /\ FailClosed(w, "escalated", "failed_partial", record)

\* A refusal writes no tool_execution row, and a deduplicated answer keeps the recorded one,
\* which may be another action's.
Record(w) ==
    IF receipt = "none" /\ prior = "none" /\ res[w] # "refused" THEN res[w] ELSE receipt

Outcome(w) ==
    /\ pc[w] = "outcome"
    /\ ~txlost[w]
    /\ Settle(w, Record(w))
    /\ UNCHANGED faults

-----------------------------------------------------------------------------
(* People.                                                                 *)

\* approval_service.decide: one decision per action version, inside the window.
Decide ==
    /\ action = "awaiting_approval"
    /\ approval = "none"
    /\ ~windowClosed
    /\ approval' \in {"approved", "rejected"}
    /\ UNCHANGED <<leaseVars, ckptTerm, incidentVars, inputs, verdict, windowClosed,
                   actionVars, effectVars, passVars, faults>>

\* The API's escalate and resolve, with a reason and a justification.
Control ==
    /\ lock = Free
    /\ \E target \in {"escalated", "resolved"} :
          /\ assert_transition_allowed(incident, target, "human", TRUE, TRUE)
          /\ incident' = target
    /\ UNCHANGED <<leaseVars, ckptTerm, lock, gateVars, actionVars, effectVars, passVars,
                   faults>>

-----------------------------------------------------------------------------
(* Another action of the tenant that asks for the same effect.             *)

\* It claims the key, if nobody has, and may later put the outcome of its call on record.
OtherAction ==
    /\ \/ ~claimed /\ prior = "none" /\ prior' = "claimed"
       \/ prior = "claimed" /\ prior' \in ToolExecutionOutcome
    /\ UNCHANGED <<leaseVars, ckptTerm, incidentVars, gateVars, actionVars, claimed, receipt,
                   calls, effects, late, observed, passVars, faults>>

-----------------------------------------------------------------------------
(* Time.                                                                   *)

\* The lease outlasts its pass unless the pass stalls; nothing renews it.
LeaseExpires ==
    /\ owner # Free /\ ~expired
    /\ owner = Dead \/ Stalls
    /\ expired' = TRUE
    /\ UNCHANGED <<run, owner, ckptTerm, incidentVars, gateVars, actionVars, effectVars,
                   passVars, faults>>

WindowCloses ==
    /\ verdict = "require_approval" /\ ~windowClosed
    /\ windowClosed' = TRUE
    /\ UNCHANGED <<leaseVars, ckptTerm, incidentVars, inputs, verdict, approval, actionVars,
                   effectVars, passVars, faults>>

Settles ==
    /\ executed /\ ~settled
    /\ settled' = TRUE
    /\ UNCHANGED <<leaseVars, ckptTerm, incidentVars, gateVars, action, baseline, executed,
                   verification, effectVars, passVars, faults>>

\* The thread the broker abandoned at its deadline completes.
LateEffect ==
    /\ late
    /\ late' = FALSE
    /\ effects' = effects + 1
    /\ UNCHANGED <<leaseVars, ckptTerm, incidentVars, gateVars, actionVars, claimed, receipt,
                   calls, prior, observed, passVars, faults>>

-----------------------------------------------------------------------------
(* Faults, at most MaxFaults of them.                                      *)

Fault == faults < MaxFaults /\ faults' = faults + 1

\* The lease name is the kernel instance's, and the next pass has another: this lease can
\* only run out.
AbandonLease(w) == owner' = IF owner = w THEN Dead ELSE owner

\* A process dies, or the transaction that suspends, finalises or dead-letters the run fails.
Crash(w) ==
    /\ pc[w] # "idle"
    /\ Fault
    /\ Leave(w)
    /\ AbandonLease(w)
    /\ UNCHANGED <<run, expired, ckptTerm, incident, gateVars, actionVars, effectVars>>

\* Any exception out of a node: a failed statement, a lost version check, a broken invariant.
NodeError(w) ==
    /\ pc[w] \in InNode
    /\ Fault
    /\ Raise(w)

\* The database drops the executor's node transaction, and with it the row lock.
TxLost(w) ==
    /\ pc[w] \in {"lookup", "claim", "call", "outcome"}
    /\ ~txlost[w]
    /\ Fault
    /\ txlost' = [txlost EXCEPT ![w] = TRUE]
    /\ lock' = IF lock = w THEN Free ELSE lock
    /\ UNCHANGED <<leaseVars, ckptTerm, incident, gateVars, actionVars, effectVars, pc, term,
                   seen, res, itemLock>>

\* The connection that holds the advisory lock drops while its pass goes on.
ItemLockLost ==
    /\ itemLock # Free
    /\ Fault
    /\ itemLock' = Free
    /\ UNCHANGED <<leaseVars, ckptTerm, incidentVars, gateVars, actionVars, effectVars, pc,
                   term, seen, res, txlost>>

-----------------------------------------------------------------------------
Planner(w) ==
    PlannerReplay(w) \/ PlannerPropose(w) \/ PlannerNoAction(w) \/ PlannerTerminate(w)

PolicyGate(w) == PolicyReplay(w) \/ PolicyEvaluate(w)

ApprovalService(w) ==
    ApprovalWait(w) \/ ApprovalExpire(w) \/ ApprovalGranted(w) \/ ApprovalRefused(w)

Verifier(w) ==
    \/ VerifierBaseline(w) \/ VerifierNoBaseline(w) \/ VerifierToExecutor(w)
    \/ VerifierSettling(w) \/ VerifierJudge(w)

Executor(w) ==
    \/ ExecutorReplay(w) \/ ExecutorEvidence(w) \/ Recover(w) \/ ExecutorRefuses(w)
    \/ ExecutorReady(w) \/ RecordIntent(w) \/ IntentRefused(w) \/ Authorize(w) \/ Lost(w)
    \/ Lookup(w) \/ ClaimWrite(w) \/ Dispatch(w) \/ Outcome(w)

\* What a worker does once it has picked the run up.
PassNext(w) ==
    \/ ClaimItem(w) \/ ResumeRead(w) \/ ResumeClaim(w) \/ ResumeRefused(w)
    \/ Planner(w) \/ PolicyGate(w) \/ ApprovalService(w) \/ Verifier(w) \/ Executor(w)
    \/ Suspend(w) \/ Finalise(w)

Time == LeaseExpires \/ WindowCloses \/ Settles \/ LateEffect

Next ==
    \/ \E w \in Workers :
          \/ Start(w) \/ Discover(w) \/ PassNext(w)
          \/ Crash(w) \/ NodeError(w) \/ TxLost(w)
    \/ ItemLockLost
    \/ Decide \/ Control \/ OtherAction
    \/ Time

Spec == Init /\ [][Next]_vars

(***************************************************************************)
(* A live worker finishes what it does (every external call has a          *)
(* deadline), keeps polling for runs to resume, and time passes.  Nothing  *)
(* obliges a person to act, a fault to happen or an abandoned call to      *)
(* complete.                                                               *)
(***************************************************************************)
Fairness ==
    /\ \A w \in Workers : WF_vars(PassNext(w)) /\ WF_vars(Discover(w))
    /\ WF_vars(LeaseExpires) /\ WF_vars(WindowCloses) /\ WF_vars(Settles)

FairSpec == Spec /\ Fairness

-----------------------------------------------------------------------------
(* Safety.                                                                 *)

(***************************************************************************)
(* However passes are interrupted, resumed, duplicated or retried, the     *)
(* adapter receives the write at most once, and not at all when another    *)
(* action has claimed the same effect; the target sees at most one effect  *)
(* (SI-5).                                                                 *)
(***************************************************************************)
AtMostOnce ==
    /\ calls <= 1
    /\ prior # "none" => calls = 0
    /\ effects <= calls
    /\ late => effects < calls

(***************************************************************************)
(* A write reached the adapter only with a human approval, or for an r1    *)
(* action outside production, with no ambiguity signal and no tenant       *)
(* override (SI-1, SI-2): the autonomy matrix end to end, through          *)
(* suspension, resume and recovery.                                        *)
(***************************************************************************)
WriteHasAuthority ==
    calls > 0 =>
        \/ verdict = "require_approval" /\ approval = "approved"
        \/ /\ inputs.risk_tier = "r1"
           /\ ~inputs.is_production
           /\ detect_ambiguity(inputs) = {}
           /\ ~inputs.tenant_requires_approval_override

\* A call under the effect key has taken effect or answered with success, or the target was
\* read in the wanted state.
Attested == effects > 0 \/ prior = "succeeded" \/ observed

(***************************************************************************)
(* An execution is recorded as done only after a frozen baseline and only  *)
(* if it is attested: this action's own effect, the recorded success of    *)
(* another action under the same effect key, or a read-back after a write  *)
(* that may have been sent.  No timeout, refusal or crash is ever routed   *)
(* as success without one of them.  The last two do not show that this     *)
(* action changed anything.  A verdict exists only for such an execution,  *)
(* after it settled.                                                       *)
(***************************************************************************)
VerdictRestsOnEffect ==
    /\ executed => Attested /\ baseline
    /\ observed => claimed \/ prior = "unknown"
    /\ verification # "none" => executed /\ settled

(***************************************************************************)
(* An action the record calls clean, refused or not yet dispatched has     *)
(* left no trace on the target and has no call that could still do so      *)
(* (SI-8: an unknown outcome is never assumed clean).                      *)
(***************************************************************************)
CleanMeansUntouched ==
    action \notin {"executing", "succeeded", "failed_partial"} \cup VerificationVerdict
        => effects = 0 /\ ~late

(***************************************************************************)
(* As long as no pass outlives its lease, only the worker that holds the   *)
(* lease is inside a node: crashes, lost locks and racing resumes never    *)
(* put two workers into the graph of one run.                              *)
(***************************************************************************)
OnlyLeaseholderActs ==
    \A w \in Workers : pc[w] \in InNode => owner = w

-----------------------------------------------------------------------------
(* What makes the safety properties inductive.                             *)

\* A call is preceded by its claim, only the pass that made the claim may call, and an
\* effect key is claimed by one action.
CallNeedsClaim ==
    /\ calls > 0 => claimed
    /\ claimed => prior = "none"
    /\ \A w \in Workers : pc[w] = "call" => claimed /\ calls = 0
    /\ \A v, w \in Workers : pc[v] = "call" /\ pc[w] = "call" => v = w

\* The recorded decision permits the write.
Authority ==
    verdict = "allow" \/ (verdict = "require_approval" /\ approval = "approved")

\* Authority was found before the broker went on, and the decision is the policy's own.
AuthorityPrecedesCall ==
    /\ verdict # "none" => verdict = evaluate_policy(inputs).verdict
    /\ \A w \in Workers : pc[w] \in {"lookup", "claim", "call"} => Authority
    /\ calls > 0 => Authority

\* What a pass or a row calls a success is one, and nothing is dispatched without a baseline.
EvidenceIsSound ==
    /\ receipt # "none" => claimed
    /\ receipt = "succeeded" => effects > 0
    /\ \A w \in Workers :
          /\ pc[w] = "recover" /\ res[w] = "succeeded" => effects > 0
          /\ pc[w] = "recover" /\ res[w] = "unknown" => claimed
          /\ pc[w] = "outcome" /\ res[w] = "succeeded" => effects > 0 \/ prior = "succeeded"
          /\ pc[w] = "outcome" /\ res[w] \in ToolExecutionOutcome => claimed \/ prior = res[w]
    /\ Interrupted => baseline
    /\ \A w \in Workers : pc[w] \in ExecutorSteps => baseline

\* Without stalls: what a row or a pass calls clean is clean, and nobody but the pass that
\* recorded the intent moves the action or the claim until it is done.
CleanEvidence ==
    /\ receipt = "failed_clean" => effects = 0 /\ ~late
    /\ \A w \in Workers :
          /\ pc[w] \in {"recover", "outcome"} /\ res[w] = "failed_clean"
                => effects = 0 /\ ~late
          /\ pc[w] = "recover" /\ res[w] = "no_effect" => ~claimed
          /\ pc[w] = "intent" => ~claimed
          /\ pc[w] \in {"authorize", "lookup", "claim", "call"} => action = "executing"
          /\ pc[w] \in {"claim", "call"} => receipt = "none"

\* Without stalls, a lease runs out only after its pass ended without releasing it.
LeaseDiscipline ==
    /\ expired => owner = Dead
    /\ run = "absent" => \A w \in Workers : pc[w] = "idle"
    /\ \A w \in Workers : pc[w] \in InNode \cup {"end"} => owner = w

-----------------------------------------------------------------------------
(* Liveness, under FairSpec.                                               *)

(***************************************************************************)
(* A run that was opened reaches an end: no crash, lost transaction or     *)
(* missing decision leaves it running or suspended for ever.               *)
(***************************************************************************)
RunEnds == run # "absent" ~> run \in {"completed", "dead_lettered"}

(***************************************************************************)
(* An executed write is judged, unless the run was dead-lettered.          *)
(***************************************************************************)
ExecutionIsJudged == executed ~> verification # "none" \/ run = "dead_lettered"

-----------------------------------------------------------------------------
(***************************************************************************)
(* The run implements the contract of a guarded write.                     *)
(***************************************************************************)
Contract == INSTANCE WriteContract WITH
    granted <- verdict = "allow" \/ approval = "approved",
    holder <- IF claimed THEN "own" ELSE IF prior # "none" THEN "other" ELSE "none",
    sent <- calls,
    applied <- effects,
    attested <- Attested,
    reported <- executed

RefinesContract == Contract!Spec
=============================================================================
