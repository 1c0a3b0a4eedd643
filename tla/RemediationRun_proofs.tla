----------------------- MODULE RemediationRun_proofs -----------------------
(***************************************************************************)
(* Machine-checked proofs about RemediationRun, for any set of workers,    *)
(* any policy cases, any number of faults, and passes that may or may not  *)
(* outlive their leases.                                                   *)
(***************************************************************************)
EXTENDS RemediationRun, TLAPS

-----------------------------------------------------------------------------
(* The policy engine.                                                      *)

(***************************************************************************)
(* evaluate_policy always answers with one of the three verdicts.          *)
(***************************************************************************)
LEMMA VerdictType ==
    ASSUME NEW i \in PolicyInputs
    PROVE  evaluate_policy(i).verdict \in PolicyVerdict
BY DEF PolicyInputs, RiskTier, PolicyVerdict, evaluate_policy, Verdict

(***************************************************************************)
(* Of the write tiers, only an unambiguous r1 outside production without   *)
(* an override is allowed outright by evaluate_policy.                     *)
(***************************************************************************)
LEMMA AllowIsAutonomous ==
    ASSUME NEW i \in PolicyInputs,
           i.risk_tier \in {"r1", "r2"},
           evaluate_policy(i).verdict = "allow"
    PROVE  /\ i.risk_tier = "r1"
           /\ ~i.is_production
           /\ detect_ambiguity(i) = {}
           /\ ~i.tenant_requires_approval_override
BY DEF PolicyInputs, RiskTier, evaluate_policy, Verdict

-----------------------------------------------------------------------------
(* Types: what the ways of ending a node keep.                             *)

(***************************************************************************)
(* Moving a worker to a step of the pass keeps pc a function to steps.     *)
(***************************************************************************)
LEMMA GotoType ==
    ASSUME PassType, NEW w \in Workers, NEW step \in PassStep, Goto(w, step)
    PROVE  pc' \in [Workers -> PassStep]
BY DEF PassType, Goto

(***************************************************************************)
(* Leaving a pass keeps the pass variables and the row lock well typed.    *)
(***************************************************************************)
LEMMA LeaveType ==
    ASSUME TypeOK, NEW w \in Workers, Leave(w)
    PROVE  PassType' /\ lock' \in Workers \cup {Free}
  <1>1. pc' \in [Workers -> PassStep]
    BY GotoType DEF TypeOK, Leave, PassStep
  <1> QED
    BY <1>1 DEF TypeOK, PassType, IncidentType, Leave, RunStatus

(***************************************************************************)
(* Committing a node keeps the pass variables, the checkpoint and the row  *)
(* lock well typed.                                                        *)
(***************************************************************************)
LEMMA CommitType ==
    ASSUME TypeOK, NEW w \in Workers, NEW t \in BOOLEAN, NEW step \in PassStep,
           CommitNode(w, t, step)
    PROVE  /\ PassType'
           /\ ckptTerm' \in BOOLEAN
           /\ lock' \in Workers \cup {Free}
  <1>1. pc' \in [Workers -> PassStep]
    BY GotoType DEF TypeOK, CommitNode
  <1> QED
    BY <1>1 DEF TypeOK, PassType, IncidentType, CommitNode

(***************************************************************************)
(* An exception out of a node keeps every variable well typed.             *)
(***************************************************************************)
LEMMA RaiseType ==
    ASSUME TypeOK, NEW w \in Workers, Raise(w), faults' \in 0..MaxFaults
    PROVE  TypeOK'
  <1>1. PassType' /\ lock' \in Workers \cup {Free}
    BY LeaveType DEF Raise
  <1>2. LeaseType'
    BY DEF Raise, ReleaseLease, LeaseType, RunStatus
  <1>3. GateType' /\ ActionType' /\ EffectType'
    BY DEF TypeOK, Raise, GateType, gateVars, ActionType, actionVars, EffectType, effectVars
  <1>4. IncidentType' /\ ckptTerm' \in BOOLEAN
    BY <1>1 DEF TypeOK, Raise, IncidentType
  <1> QED
    BY <1>1, <1>2, <1>3, <1>4 DEF TypeOK

(***************************************************************************)
(* _route_success keeps every variable well typed, committed or raised.    *)
(***************************************************************************)
LEMMA RouteSuccessType ==
    ASSUME TypeOK, NEW w \in Workers, NEW record \in ToolExecutionOutcome \cup {"none"},
           NEW confirmed \in BOOLEAN, RouteSuccess(w, record, confirmed), faults' = faults
    PROVE  TypeOK'
  <1>1. CASE Raise(w)
    BY <1>1, RaiseType DEF TypeOK
  <1>2. CASE ~Raise(w)
    <2> USE <1>2 DEF RouteSuccess
    <2>1. PassType' /\ ckptTerm' \in BOOLEAN /\ lock' \in Workers \cup {Free}
      BY CommitType DEF PassStep, InNode, GraphNodes
    <2>2. LeaseType' /\ GateType'
      BY DEF TypeOK, LeaseType, leaseVars, GateType, gateVars
    <2>3. ActionType' /\ EffectType'
      BY DEF TypeOK, ActionType, ActionStatus, EffectType
    <2>4. IncidentType'
      BY <2>1 DEF IncidentType, IncidentStatus
    <2> QED
      BY <2>1, <2>2, <2>3, <2>4 DEF TypeOK
  <1> QED
    BY <1>1, <1>2

(***************************************************************************)
(* So does _fail_closed.                                                   *)
(***************************************************************************)
LEMMA FailClosedType ==
    ASSUME TypeOK, NEW w \in Workers, NEW record \in ToolExecutionOutcome \cup {"none"},
           NEW target \in IncidentStatus, NEW status \in ActionStatus,
           FailClosed(w, target, status, record), faults' = faults
    PROVE  TypeOK'
  <1>1. CASE Raise(w)
    BY <1>1, RaiseType DEF TypeOK
  <1>2. CASE ~Raise(w)
    <2> USE <1>2 DEF FailClosed
    <2>1. PassType' /\ ckptTerm' \in BOOLEAN /\ lock' \in Workers \cup {Free}
      BY CommitType DEF PassStep
    <2>2. LeaseType' /\ GateType'
      BY DEF TypeOK, LeaseType, leaseVars, GateType, gateVars
    <2>3. ActionType' /\ EffectType'
      BY DEF TypeOK, ActionType, EffectType
    <2>4. IncidentType'
      BY <2>1 DEF IncidentType
    <2> QED
      BY <2>1, <2>2, <2>3, <2>4 DEF TypeOK
  <1> QED
    BY <1>1, <1>2

(***************************************************************************)
(* A node that commits without touching its rows keeps the types.          *)
(***************************************************************************)
LEMMA QuietCommitType ==
    ASSUME TypeOK, NEW w \in Workers, NEW t \in BOOLEAN, NEW step \in PassStep,
           CommitNode(w, t, step),
           UNCHANGED <<leaseVars, incident, gateVars, actionVars, effectVars, faults>>
    PROVE  TypeOK'
  <1>1. PassType' /\ ckptTerm' \in BOOLEAN /\ lock' \in Workers \cup {Free}
    BY CommitType
  <1>2. LeaseType' /\ GateType' /\ ActionType' /\ EffectType'
    BY DEF TypeOK, LeaseType, leaseVars, GateType, gateVars, ActionType, actionVars,
           EffectType, effectVars
  <1>3. IncidentType'
    BY <1>1 DEF TypeOK, IncidentType
  <1> QED
    BY <1>1, <1>2, <1>3 DEF TypeOK

(***************************************************************************)
(* A node that commits and moves the incident keeps the types.             *)
(***************************************************************************)
LEMMA IncidentCommitType ==
    ASSUME TypeOK, NEW w \in Workers, NEW t \in BOOLEAN, NEW step \in PassStep,
           CommitNode(w, t, step),
           incident' \in IncidentStatus,
           UNCHANGED <<leaseVars, gateVars, actionVars, effectVars, faults>>
    PROVE  TypeOK'
  <1>1. PassType' /\ ckptTerm' \in BOOLEAN /\ lock' \in Workers \cup {Free}
    BY CommitType
  <1>2. LeaseType' /\ GateType' /\ ActionType' /\ EffectType'
    BY DEF TypeOK, LeaseType, leaseVars, GateType, gateVars, ActionType, actionVars,
           EffectType, effectVars
  <1> QED
    BY <1>1, <1>2 DEF TypeOK, IncidentType

(***************************************************************************)
(* A step that only moves a pass keeps the types.                          *)
(***************************************************************************)
LEMMA QuietMoveType ==
    ASSUME TypeOK, PassType', lock' \in Workers \cup {Free},
           UNCHANGED <<leaseVars, ckptTerm, incident, gateVars, actionVars, effectVars, faults>>
    PROVE  TypeOK'
  <1>1. LeaseType' /\ GateType' /\ ActionType' /\ EffectType'
    BY DEF TypeOK, LeaseType, leaseVars, GateType, gateVars, ActionType, actionVars,
           EffectType, effectVars
  <1>2. IncidentType'
    BY DEF TypeOK, IncidentType
  <1> QED
    BY <1>1, <1>2 DEF TypeOK

(***************************************************************************)
(* Opening, finding, resuming and ending a run keep the types.             *)
(***************************************************************************)
LEMMA RunType ==
    ASSUME TypeOK, NEW w \in Workers,
           \/ Start(w) \/ Discover(w) \/ ClaimItem(w) \/ ResumeRead(w) \/ ResumeClaim(w)
           \/ ResumeRefused(w) \/ Suspend(w) \/ Finalise(w)
    PROVE  TypeOK'
  <1> USE DEF PassStep, InNode, GraphNodes
  <1>1. CASE Start(w)
    <2>1. PassType'
      BY <1>1, GotoType DEF TypeOK, Start, PassType
    <2>2. LeaseType' /\ ckptTerm' \in BOOLEAN
      BY <1>1 DEF TypeOK, Start, LeaseType, RunStatus
    <2> QED
      BY <1>1, <2>1, <2>2 DEF TypeOK, Start, IncidentType, incidentVars, GateType, gateVars,
         ActionType, actionVars, EffectType, effectVars
  <1>2. CASE Discover(w)
    <2>1. PassType'
      BY <1>2, GotoType DEF TypeOK, Discover, PassType
    <2> QED
      BY <1>2, <2>1, QuietMoveType DEF TypeOK, Discover, incidentVars, IncidentType
  <1>3. CASE ClaimItem(w)
    <2>1. PassType' /\ lock' \in Workers \cup {Free}
      <3>1. CASE itemLock = Free
        BY <1>3, <3>1, GotoType DEF TypeOK, ClaimItem, PassType, IncidentType
      <3>2. CASE itemLock # Free
        BY <1>3, <3>2, LeaveType DEF ClaimItem
      <3> QED
        BY <3>1, <3>2
    <2> QED
      BY <1>3, <2>1, QuietMoveType DEF ClaimItem
  <1>4. CASE ResumeRead(w)
    <2>1. PassType' /\ lock' \in Workers \cup {Free}
      <3>1. CASE run = "completed"
        BY <1>4, <3>1, LeaveType DEF ResumeRead
      <3>2. CASE run # "completed"
        BY <1>4, <3>2, GotoType DEF TypeOK, LeaseType, ResumeRead, PassType, IncidentType
      <3> QED
        BY <3>1, <3>2
    <2> QED
      BY <1>4, <2>1, QuietMoveType DEF ResumeRead
  <1>5. CASE ResumeClaim(w)
    <2>1. PassType'
      BY <1>5, GotoType DEF TypeOK, ResumeClaim, rehydrate, PassType, RunStatus
    <2>2. LeaseType' /\ ckptTerm' \in BOOLEAN
      BY <1>5 DEF TypeOK, ResumeClaim, LeaseType, RunStatus
    <2> QED
      BY <1>5, <2>1, <2>2 DEF TypeOK, ResumeClaim, IncidentType, incidentVars, GateType,
         gateVars, ActionType, actionVars, EffectType, effectVars
  <1>6. CASE ResumeRefused(w)
    BY <1>6, LeaveType, QuietMoveType DEF ResumeRefused
  <1>7. CASE Suspend(w) \/ Finalise(w)
    <2>1. PassType' /\ lock' \in Workers \cup {Free}
      BY <1>7, LeaveType DEF Suspend, Finalise
    <2>2. LeaseType' /\ ckptTerm' \in BOOLEAN
      BY <1>7 DEF TypeOK, Suspend, Finalise, ReleaseLease, LeaseType, RunStatus
    <2> QED
      BY <1>7, <2>1, <2>2 DEF TypeOK, Suspend, Finalise, IncidentType, GateType, gateVars,
         ActionType, actionVars, EffectType, effectVars
  <1> QED
    BY <1>1, <1>2, <1>3, <1>4, <1>5, <1>6, <1>7

(***************************************************************************)
(* The planner and the policy gate keep the types.                         *)
(***************************************************************************)
LEMMA GateNodesType ==
    ASSUME TypeOK, NEW w \in Workers, Planner(w) \/ PolicyGate(w)
    PROVE  TypeOK'
  <1> USE DEF PassStep, InNode, GraphNodes
  <1>0. term[w] \in BOOLEAN
    BY DEF TypeOK, PassType
  <1>1. CASE PlannerReplay(w)
    BY <1>0, <1>1, QuietCommitType DEF PlannerReplay, AfterPlanner
  <1>2. CASE PlannerPropose(w)
    <2>1. PassType' /\ ckptTerm' \in BOOLEAN /\ lock' \in Workers \cup {Free}
      BY <1>0, <1>2, CommitType DEF PlannerPropose, AfterPlanner
    <2> QED
      BY <1>2, <2>1 DEF TypeOK, PlannerPropose, LeaseType, leaseVars, IncidentType, GateType,
         gateVars, ActionType, ActionStatus, EffectType, effectVars
  <1>3. CASE PlannerNoAction(w)
    BY <1>3, QuietCommitType DEF PlannerNoAction
  <1>4. CASE PlannerTerminate(w)
    <2>1. CASE Raise(w)
      BY <1>4, <2>1, RaiseType DEF PlannerTerminate, TypeOK
    <2>2. CASE ~Raise(w)
      <3>1. /\ CommitNode(w, TRUE, "end") /\ incident' = "escalated"
            /\ UNCHANGED <<leaseVars, gateVars, actionVars, effectVars, faults>>
        BY <1>4, <2>2 DEF PlannerTerminate
      <3> QED
        BY <3>1, IncidentCommitType DEF IncidentStatus
    <2> QED
      BY <2>1, <2>2
  <1>5. CASE PolicyReplay(w)
    <2> DEFINE t == term[w] \/ verdict = "deny"
    <2>1. t \in BOOLEAN /\ AfterPolicy(verdict, t) \in PassStep
      BY <1>0 DEF AfterPolicy
    <2> QED
      BY <1>5, <2>1, QuietCommitType DEF PolicyReplay
  <1>6. CASE PolicyEvaluate(w)
    <2> DEFINE v == evaluate_policy(inputs).verdict
               t == term[w] \/ v = "deny"
    <2>1. v \in PolicyVerdict
      BY RunAssumption, VerdictType DEF TypeOK, GateType
    <2>2. ActionAfter(v) \in ActionStatus /\ IncidentAfter(v) \in IncidentStatus
      BY <2>1 DEF ActionAfter, IncidentAfter, PolicyVerdict, ActionStatus, IncidentStatus
    <2>3. t \in BOOLEAN /\ AfterPolicy(v, t) \in PassStep
      BY <1>0 DEF AfterPolicy
    <2> HIDE DEF v, t
    <2>4. CASE Raise(w)
      BY <1>6, <2>4, RaiseType DEF PolicyEvaluate, TypeOK
    <2>5. CASE ~Raise(w)
      <3>1. /\ CommitNode(w, t, AfterPolicy(v, t))
            /\ verdict' = v /\ action' = ActionAfter(v) /\ incident' = IncidentAfter(v)
            /\ UNCHANGED <<leaseVars, inputs, approval, windowClosed, baseline, executed,
                           settled, verification, effectVars, faults>>
        BY <1>6, <2>5 DEF PolicyEvaluate, v, t
      <3>2. PassType' /\ ckptTerm' \in BOOLEAN /\ lock' \in Workers \cup {Free}
        BY <2>3, <3>1, CommitType
      <3> QED
        BY <2>1, <2>2, <3>1, <3>2 DEF TypeOK, LeaseType, leaseVars, IncidentType, GateType,
           ActionType, EffectType, effectVars
    <2> QED
      BY <2>4, <2>5
  <1> QED
    BY <1>1, <1>2, <1>3, <1>4, <1>5, <1>6 DEF Planner, PolicyGate

(***************************************************************************)
(* The approval service and the verifier keep the types.                   *)
(***************************************************************************)
LEMMA ReviewNodesType ==
    ASSUME TypeOK, NEW w \in Workers, ApprovalService(w) \/ Verifier(w)
    PROVE  TypeOK'
  <1> USE DEF PassStep, InNode, GraphNodes
  <1>1. CASE \/ ApprovalWait(w) \/ VerifierNoBaseline(w) \/ VerifierToExecutor(w)
             \/ VerifierSettling(w)
    BY <1>1, QuietCommitType
       DEF ApprovalWait, VerifierNoBaseline, VerifierToExecutor, VerifierSettling
  <1>2. CASE ApprovalExpire(w)
    <2>1. CASE Raise(w)
      BY <1>2, <2>1, RaiseType DEF ApprovalExpire, TypeOK
    <2>2. CASE ~Raise(w)
      <3>1. /\ CommitNode(w, TRUE, "end") /\ incident' = "escalated" /\ approval' = "expired"
            /\ UNCHANGED <<leaseVars, inputs, verdict, windowClosed, actionVars, effectVars,
                           faults>>
        BY <1>2, <2>2 DEF ApprovalExpire
      <3>2. PassType' /\ ckptTerm' \in BOOLEAN /\ lock' \in Workers \cup {Free}
        BY <3>1, CommitType
      <3> QED
        BY <3>1, <3>2 DEF TypeOK, LeaseType, leaseVars, IncidentType, IncidentStatus,
           GateType, ActionType, actionVars, EffectType, effectVars
    <2> QED
      BY <2>1, <2>2
  <1>3. CASE ApprovalGranted(w)
    <2>1. incident' \in IncidentStatus
      BY <1>3 DEF ApprovalGranted, TypeOK, IncidentType, IncidentStatus
    <2> QED
      BY <1>3, <2>1, IncidentCommitType DEF ApprovalGranted
  <1>4. CASE ApprovalRefused(w)
    <2>1. CASE Raise(w)
      BY <1>4, <2>1, RaiseType DEF ApprovalRefused, TypeOK
    <2>2. CASE ~Raise(w)
      <3>1. /\ CommitNode(w, TRUE, "end") /\ incident' = "escalated"
            /\ UNCHANGED <<leaseVars, gateVars, actionVars, effectVars, faults>>
        BY <1>4, <2>2 DEF ApprovalRefused
      <3> QED
        BY <3>1, IncidentCommitType DEF IncidentStatus
    <2> QED
      BY <2>1, <2>2
  <1>5. CASE VerifierBaseline(w)
    <2>1. PassType' /\ ckptTerm' \in BOOLEAN /\ lock' \in Workers \cup {Free}
      BY <1>5, CommitType DEF VerifierBaseline
    <2> QED
      BY <1>5, <2>1 DEF TypeOK, VerifierBaseline, LeaseType, leaseVars, IncidentType,
         GateType, gateVars, ActionType, EffectType, effectVars
  <1>6. CASE VerifierJudge(w)
    <2>1. CASE Raise(w)
      BY <1>6, <2>1, RaiseType DEF VerifierJudge, TypeOK
    <2>2. CASE ~Raise(w)
      <3>1. PICK v \in VerificationVerdict :
               /\ verification' = v /\ action' = v
               /\ incident' = IncidentAfterVerification(v)
               /\ CommitNode(w, TRUE, "end")
               /\ UNCHANGED <<leaseVars, gateVars, baseline, executed, settled, effectVars,
                              faults>>
        BY <1>6, <2>2 DEF VerifierJudge
      <3>2. PassType' /\ ckptTerm' \in BOOLEAN /\ lock' \in Workers \cup {Free}
        BY <3>1, CommitType
      <3>3. IncidentAfterVerification(v) \in IncidentStatus /\ v \in ActionStatus
        BY DEF IncidentAfterVerification, VerificationVerdict, IncidentStatus, ActionStatus
      <3> QED
        BY <3>1, <3>2, <3>3 DEF TypeOK, LeaseType, leaseVars, IncidentType, GateType, gateVars,
           ActionType, EffectType, effectVars
    <2> QED
      BY <2>1, <2>2
  <1> QED
    BY <1>1, <1>2, <1>3, <1>4, <1>5, <1>6 DEF ApprovalService, Verifier

(***************************************************************************)
(* Every step of the executor keeps the types.                             *)
(***************************************************************************)
LEMMA ExecutorType ==
    ASSUME TypeOK, NEW w \in Workers, Executor(w)
    PROVE  TypeOK'
  <1> USE DEF PassStep, InNode, GraphNodes, ExecutorSteps
  <1>0. /\ receipt \in ToolExecutionOutcome \cup {"none"}
        /\ {"investigating", "escalated"} \subseteq IncidentStatus
        /\ {"failed_clean", "failed_partial"} \subseteq ActionStatus
    BY DEF TypeOK, EffectType, IncidentStatus, ActionStatus
  <1>1. CASE ExecutorReplay(w)
    BY <1>1, QuietCommitType DEF ExecutorReplay
  <1>2. CASE ExecutorEvidence(w) \/ ExecutorReady(w) \/ Lookup(w)
    <2>1. PassType'
      BY <1>0, <1>2, GotoType DEF TypeOK, PassType, ExecutorEvidence, ExecutorReady, Lookup,
         KeyReceipts, DispatchEvidence, ToolExecutionOutcome
    <2> QED
      BY <1>2, <2>1, QuietMoveType DEF TypeOK, ExecutorEvidence, ExecutorReady, Lookup,
         incidentVars, IncidentType
  <1>3. CASE Recover(w)
    BY <1>0, <1>3, FailClosedType, RouteSuccessType DEF Recover, Reconcile
  <1>4. CASE ExecutorRefuses(w) \/ IntentRefused(w)
    BY <1>0, <1>4, FailClosedType DEF ExecutorRefuses, IntentRefused
  <1>5. CASE RecordIntent(w)
    <2>1. PassType'
      BY <1>5, GotoType DEF TypeOK, PassType, RecordIntent
    <2> QED
      BY <1>5, <2>1 DEF TypeOK, RecordIntent, LeaseType, leaseVars, IncidentType,
         incidentVars, GateType, gateVars, ActionType, ActionStatus, EffectType, effectVars
  <1>6. CASE Authorize(w)
    <2>1. PassType' /\ lock' \in Workers \cup {Free}
      BY <1>6, GotoType DEF TypeOK, PassType, Authorize
    <2> QED
      BY <1>6, <2>1, QuietMoveType DEF Authorize
  <1>7. CASE Lost(w)
    BY <1>7, RaiseType DEF Lost, TypeOK
  <1>8. CASE ClaimWrite(w)
    <2>1. PassType'
      BY <1>8, GotoType DEF TypeOK, PassType, ClaimWrite
    <2>2. EffectType'
      BY <1>8 DEF TypeOK, EffectType, ClaimWrite
    <2> QED
      BY <1>8, <2>1, <2>2 DEF TypeOK, ClaimWrite, LeaseType, leaseVars, IncidentType,
         incidentVars, GateType, gateVars, ActionType, actionVars
  <1>9. CASE Dispatch(w)
    <2>1. PassType'
      BY <1>9, GotoType DEF TypeOK, PassType, Dispatch, ToolExecutionOutcome
    <2>2. EffectType'
      <3>1. calls' \in Nat /\ effects' \in Nat
        BY <1>9 DEF TypeOK, EffectType, Dispatch
      <3>2. late' \in BOOLEAN
        BY <1>9 DEF TypeOK, EffectType, Dispatch
      <3> QED
        BY <1>9, <3>1, <3>2 DEF TypeOK, EffectType, Dispatch
    <2> QED
      BY <1>9, <2>1, <2>2 DEF TypeOK, Dispatch, LeaseType, leaseVars, IncidentType,
         incidentVars, GateType, gateVars, ActionType, actionVars
  <1>10. CASE Outcome(w)
    <2>1. CASE res[w] \in ToolExecutionOutcome \cup {"refused"}
      <3>1. Record(w) \in ToolExecutionOutcome \cup {"none"}
        BY <1>0, <2>1 DEF Record
      <3>2. Settle(w, Record(w)) /\ faults' = faults
        BY <1>10 DEF Outcome
      <3> QED
        BY <1>0, <3>1, <3>2, FailClosedType, RouteSuccessType DEF Settle, Reconcile
    <2>2. CASE res[w] \notin ToolExecutionOutcome \cup {"refused"}
      BY <1>10, <2>2 DEF Outcome, Settle, ToolExecutionOutcome
    <2> QED
      BY <2>1, <2>2
  <1> QED
    BY <1>1, <1>2, <1>3, <1>4, <1>5, <1>6, <1>7, <1>8, <1>9, <1>10 DEF Executor

(***************************************************************************)
(* People, time and faults keep the types.                                 *)
(***************************************************************************)
LEMMA EnvironmentType ==
    ASSUME TypeOK,
           \/ \E w \in Workers : Crash(w) \/ NodeError(w) \/ TxLost(w)
           \/ ItemLockLost \/ Decide \/ Control \/ OtherAction \/ Time
    PROVE  TypeOK'
  <1>0. Fault => faults' \in 0..MaxFaults
    BY RunAssumption DEF Fault, TypeOK
  <1>1. ASSUME NEW w \in Workers, Crash(w) PROVE TypeOK'
    <2>1. PassType' /\ lock' \in Workers \cup {Free}
      BY <1>1, LeaveType DEF Crash
    <2>2. LeaseType'
      BY <1>1 DEF TypeOK, Crash, AbandonLease, LeaseType
    <2> QED
      BY <1>0, <1>1, <2>1, <2>2 DEF TypeOK, Crash, IncidentType, GateType, gateVars,
         ActionType, actionVars, EffectType, effectVars
  <1>2. ASSUME NEW w \in Workers, NodeError(w) PROVE TypeOK'
    BY <1>0, <1>2, RaiseType DEF NodeError
  <1>3. ASSUME NEW w \in Workers, TxLost(w) PROVE TypeOK'
    <2>1. PassType' /\ IncidentType'
      BY <1>3 DEF TypeOK, TxLost, PassType, IncidentType
    <2> QED
      BY <1>0, <1>3, <2>1 DEF TypeOK, TxLost, LeaseType, leaseVars, GateType, gateVars,
         ActionType, actionVars, EffectType, effectVars
  <1>4. CASE ItemLockLost
    <2>1. PassType'
      BY <1>4 DEF TypeOK, ItemLockLost, PassType
    <2> QED
      BY <1>0, <1>4, <2>1 DEF TypeOK, ItemLockLost, LeaseType, leaseVars, IncidentType,
         incidentVars, GateType, gateVars, ActionType, actionVars, EffectType, effectVars
  <1>5. CASE Decide
    BY <1>5 DEF TypeOK, Decide, LeaseType, leaseVars, IncidentType, incidentVars, GateType,
       ActionType, actionVars, EffectType, effectVars, PassType, passVars
  <1>6. CASE Control
    <2>1. incident' \in IncidentStatus
      BY <1>6 DEF Control, IncidentStatus
    <2> QED
      BY <1>6, <2>1 DEF TypeOK, Control, LeaseType, leaseVars, IncidentType, GateType,
         gateVars, ActionType, actionVars, EffectType, effectVars, PassType, passVars
  <1>7. CASE LeaseExpires
    BY <1>7 DEF TypeOK, LeaseExpires, LeaseType, IncidentType, incidentVars, GateType,
       gateVars, ActionType, actionVars, EffectType, effectVars, PassType, passVars
  <1>8. CASE WindowCloses
    BY <1>8 DEF TypeOK, WindowCloses, LeaseType, leaseVars, IncidentType, incidentVars,
       GateType, ActionType, actionVars, EffectType, effectVars, PassType, passVars
  <1>9. CASE Settles
    BY <1>9 DEF TypeOK, Settles, LeaseType, leaseVars, IncidentType, incidentVars,
       GateType, gateVars, ActionType, EffectType, effectVars, PassType, passVars
  <1>10. CASE LateEffect
    <2>1. effects' \in Nat
      BY <1>10 DEF TypeOK, EffectType, LateEffect
    <2>2. EffectType'
      BY <1>10, <2>1 DEF TypeOK, EffectType, LateEffect
    <2> QED
      BY <1>10, <2>2 DEF TypeOK, LateEffect, LeaseType, leaseVars, IncidentType,
         incidentVars, GateType, gateVars, ActionType, actionVars, PassType, passVars
  <1>11. CASE OtherAction
    BY <1>11 DEF TypeOK, OtherAction, LeaseType, leaseVars, IncidentType, incidentVars,
       GateType, gateVars, ActionType, actionVars, EffectType, ToolExecutionOutcome,
       PassType, passVars
  <1> QED
    BY <1>1, <1>2, <1>3, <1>4, <1>5, <1>6, <1>7, <1>8, <1>9, <1>10, <1>11 DEF Time

(***************************************************************************)
(* The variables of the run keep their types: no node, resume, human       *)
(* action, timer or fault stores a value the columns do not admit.         *)
(***************************************************************************)
THEOREM TypeCorrect == Spec => []TypeOK
  <1>1. Init => TypeOK
    <2> SUFFICES ASSUME Init PROVE TypeOK
      OBVIOUS
    <2>1. LeaseType /\ ckptTerm \in BOOLEAN /\ IncidentType /\ GateType
      BY DEF Init, LeaseType, IncidentType, GateType, RunStatus, IncidentStatus
    <2>2. ActionType /\ EffectType
      BY DEF Init, ActionType, EffectType, ActionStatus
    <2>3. PassType
      BY DEF Init, PassType, PassStep, RunStatus
    <2>4. faults \in 0..MaxFaults
      BY RunAssumption DEF Init
    <2> QED
      BY <2>1, <2>2, <2>3, <2>4 DEF TypeOK
  <1>2. TypeOK /\ [Next]_vars => TypeOK'
    <2> SUFFICES ASSUME TypeOK, [Next]_vars PROVE TypeOK'
      OBVIOUS
    <2>1. CASE UNCHANGED vars
      BY <2>1 DEF vars, TypeOK, LeaseType, leaseVars, IncidentType, incidentVars, GateType,
         gateVars, ActionType, actionVars, EffectType, effectVars, PassType, passVars
    <2>2. CASE Next
      BY <2>2, RunType, GateNodesType, ReviewNodesType, ExecutorType, EnvironmentType
         DEF Next, PassNext
    <2> QED
      BY <2>1, <2>2
  <1> QED
    BY <1>1, <1>2, PTL DEF Spec

-----------------------------------------------------------------------------
(* Frames: what the steps that are not about the write leave alone.        *)

(***************************************************************************)
(* Leaving, committing and raising move the pass of that worker only.      *)
(***************************************************************************)
LEMMA MoveFrame ==
    ASSUME TypeOK, NEW w \in Workers, NEW step \in PassStep, Goto(w, step)
    PROVE  /\ pc'[w] = step
           /\ \A v \in Workers : v # w => pc'[v] = pc[v]
BY DEF TypeOK, PassType, Goto

(***************************************************************************)
(* Every step of a pass but the claim and the call itself leaves the claim *)
(* and the adapter's side of the write alone, and does not enter the call. *)
(***************************************************************************)
LEMMA CallFrame ==
    ASSUME TypeOK, NEW w \in Workers,
           Start(w) \/ Discover(w) \/ PassNext(w) \/ Crash(w) \/ NodeError(w),
           ~ClaimWrite(w), ~Dispatch(w)
    PROVE  /\ UNCHANGED <<claimed, calls, effects, late, prior>>
           /\ pc'[w] # "call"
           /\ \A v \in Workers : v # w => pc'[v] = pc[v]
  <1> USE DEF PassStep, InNode, GraphNodes, ExecutorSteps
  <1>1. CASE Leave(w) /\ UNCHANGED effectVars
    BY <1>1, MoveFrame DEF Leave, effectVars
  <1>2. CASE Raise(w)
    BY <1>1, <1>2 DEF Raise
  <1>3. ASSUME NEW step \in PassStep \ {"call"}, Goto(w, step),
               UNCHANGED <<claimed, calls, effects, late, prior>>
        PROVE  /\ UNCHANGED <<claimed, calls, effects, late, prior>>
               /\ pc'[w] # "call"
               /\ \A v \in Workers : v # w => pc'[v] = pc[v]
    BY <1>3, MoveFrame
  <1>4. CASE Start(w) \/ Discover(w) \/ ClaimItem(w) \/ ResumeRead(w) \/ ResumeClaim(w)
    BY <1>1, <1>3, <1>4 DEF Start, Discover, ClaimItem, ResumeRead, ResumeClaim, effectVars
  <1>5. CASE ResumeRefused(w) \/ Suspend(w) \/ Finalise(w) \/ Crash(w) \/ NodeError(w)
             \/ Lost(w)
    BY <1>1, <1>2, <1>5 DEF ResumeRefused, Suspend, Finalise, Crash, NodeError, Lost
  <1>6. CASE Planner(w)
    BY <1>2, <1>3, <1>6 DEF Planner, PlannerReplay, PlannerPropose, PlannerNoAction,
       PlannerTerminate, AfterPlanner, CommitNode, effectVars
  <1>7. CASE PolicyGate(w)
    BY <1>2, <1>3, <1>7 DEF PolicyGate, PolicyReplay, PolicyEvaluate, AfterPolicy, CommitNode,
       effectVars
  <1>8. CASE ApprovalService(w)
    BY <1>2, <1>3, <1>8 DEF ApprovalService, ApprovalWait, ApprovalExpire, ApprovalGranted,
       ApprovalRefused, CommitNode, effectVars
  <1>9. CASE Verifier(w)
    BY <1>2, <1>3, <1>9 DEF Verifier, VerifierBaseline, VerifierNoBaseline,
       VerifierToExecutor, VerifierSettling, VerifierJudge, CommitNode, effectVars
  <1>10. CASE ExecutorReplay(w) \/ ExecutorEvidence(w) \/ ExecutorReady(w)
              \/ RecordIntent(w) \/ Authorize(w) \/ Lookup(w)
    BY <1>3, <1>10 DEF ExecutorReplay, ExecutorEvidence, ExecutorReady, RecordIntent,
       Authorize, Lookup, CommitNode, effectVars
  <1>11. ASSUME NEW record, NEW confirmed, RouteSuccess(w, record, confirmed)
         PROVE  /\ UNCHANGED <<claimed, calls, effects, late, prior>>
                /\ pc'[w] # "call"
                /\ \A v \in Workers : v # w => pc'[v] = pc[v]
    BY <1>2, <1>3, <1>11 DEF RouteSuccess, CommitNode
  <1>12. ASSUME NEW target, NEW status, NEW record, FailClosed(w, target, status, record)
         PROVE  /\ UNCHANGED <<claimed, calls, effects, late, prior>>
                /\ pc'[w] # "call"
                /\ \A v \in Workers : v # w => pc'[v] = pc[v]
    BY <1>2, <1>3, <1>12 DEF FailClosed, CommitNode
  <1>13. CASE Recover(w) \/ ExecutorRefuses(w) \/ IntentRefused(w) \/ Outcome(w)
    BY <1>11, <1>12, <1>13 DEF Recover, ExecutorRefuses, IntentRefused, Outcome, Settle,
       Reconcile
  <1> QED
    BY <1>4, <1>5, <1>6, <1>7, <1>8, <1>9, <1>10, <1>13 DEF PassNext, Executor

(***************************************************************************)
(* The claim, the row and the adapter's side of the write are also beyond  *)
(* people, timers and a lost connection, the late effect excepted.         *)
(***************************************************************************)
LEMMA OutsideFrame ==
    ASSUME \/ \E w \in Workers : TxLost(w)
           \/ ItemLockLost \/ Decide \/ Control \/ LeaseExpires \/ WindowCloses \/ Settles
           \/ UNCHANGED vars
    PROVE  UNCHANGED <<pc, res, claimed, receipt, calls, effects, late, prior, observed,
                       inputs, verdict, action, baseline, executed, verification>>
BY DEF TxLost, ItemLockLost, Decide, Control, LeaseExpires, WindowCloses, Settles, vars,
       passVars, effectVars, gateVars, actionVars

-----------------------------------------------------------------------------
(* At most once.                                                           *)

(***************************************************************************)
(* One step keeps the write single: the claim is tested and set in one     *)
(* transaction, so two passes never hold the right to call together.       *)
(***************************************************************************)
LEMMA AtMostOnceStep ==
    ASSUME TypeOK, AtMostOnce, CallNeedsClaim, [Next]_vars
    PROVE  AtMostOnce' /\ CallNeedsClaim'
  <1>0. /\ calls \in Nat /\ effects \in Nat /\ late \in BOOLEAN /\ claimed \in BOOLEAN
        /\ pc \in [Workers -> PassStep]
    BY DEF TypeOK, EffectType, PassType
  <1>1. ASSUME NEW w \in Workers,
               Start(w) \/ Discover(w) \/ PassNext(w) \/ Crash(w) \/ NodeError(w),
               ~ClaimWrite(w), ~Dispatch(w)
        PROVE  AtMostOnce' /\ CallNeedsClaim'
    <2>1. /\ UNCHANGED <<claimed, calls, effects, late, prior>>
          /\ pc'[w] # "call"
          /\ \A v \in Workers : v # w => pc'[v] = pc[v]
      BY <1>1, CallFrame
    <2> QED
      BY <2>1 DEF AtMostOnce, CallNeedsClaim
  <1>2. ASSUME NEW w \in Workers, ClaimWrite(w)
        PROVE  AtMostOnce' /\ CallNeedsClaim'
    <2>1. AtMostOnce'
      BY <1>2 DEF ClaimWrite, AtMostOnce
    <2>2. \A v \in Workers : v # w => pc'[v] = pc[v]
      BY <1>0, <1>2 DEF ClaimWrite, Goto
    <2>3. CASE claimed \/ prior # "none"
      <3>1. pc'[w] # "call" /\ UNCHANGED <<claimed, calls, prior>>
        BY <1>0, <1>2, <2>3 DEF ClaimWrite, Goto
      <3> QED
        BY <2>1, <2>2, <2>3, <3>1 DEF CallNeedsClaim
    <2>4. CASE ~claimed /\ prior = "none"
      <3>1. claimed' /\ calls' = 0 /\ prior' = "none"
        BY <1>0, <1>2, <2>4 DEF ClaimWrite, CallNeedsClaim
      <3>2. \A v \in Workers : v # w => pc'[v] # "call"
        BY <2>2, <2>4 DEF CallNeedsClaim
      <3> QED
        BY <2>1, <3>1, <3>2 DEF CallNeedsClaim
    <2> QED
      BY <2>1, <2>3, <2>4
  <1>3. ASSUME NEW w \in Workers, Dispatch(w)
        PROVE  AtMostOnce' /\ CallNeedsClaim'
    <2>1. pc[w] = "call" /\ claimed /\ calls = 0 /\ effects = 0 /\ ~late /\ prior = "none"
      BY <1>0, <1>3 DEF Dispatch, AtMostOnce, CallNeedsClaim
    <2>2. AtMostOnce'
      BY <1>3, <2>1 DEF Dispatch, AtMostOnce
    <2>3. \A v \in Workers : pc'[v] # "call"
      BY <1>0, <1>3, <2>1 DEF Dispatch, Goto, CallNeedsClaim
    <2> QED
      BY <1>3, <2>1, <2>2, <2>3 DEF Dispatch, CallNeedsClaim
  <1>4. ASSUME LateEffect
        PROVE  AtMostOnce' /\ CallNeedsClaim'
    BY <1>0, <1>4 DEF LateEffect, passVars, AtMostOnce, CallNeedsClaim
  <1>5. ASSUME \/ \E w \in Workers : TxLost(w)
               \/ ItemLockLost \/ Decide \/ Control \/ LeaseExpires \/ WindowCloses
               \/ Settles \/ UNCHANGED vars
        PROVE  AtMostOnce' /\ CallNeedsClaim'
    BY <1>5, OutsideFrame DEF AtMostOnce, CallNeedsClaim
  <1>6. ASSUME OtherAction
        PROVE  AtMostOnce' /\ CallNeedsClaim'
    <2>1. ~claimed /\ calls = 0
      BY <1>0, <1>6 DEF OtherAction, AtMostOnce, CallNeedsClaim
    <2> QED
      BY <1>0, <1>6, <2>1 DEF OtherAction, passVars, AtMostOnce, CallNeedsClaim
  <1> QED
    BY <1>1, <1>2, <1>3, <1>4, <1>5, <1>6 DEF Next, Time

(***************************************************************************)
(* For any number of workers and faults, and whether or not passes outlive *)
(* their leases, the adapter receives the write at most once (the broker's *)
(* append-only effect claim).                                              *)
(***************************************************************************)
THEOREM AtMostOnceHolds == Spec => []AtMostOnce
  <1>1. Init => AtMostOnce /\ CallNeedsClaim
    BY DEF Init, AtMostOnce, CallNeedsClaim
  <1>2. TypeOK /\ AtMostOnce /\ CallNeedsClaim /\ [Next]_vars
            => (AtMostOnce /\ CallNeedsClaim)'
    BY AtMostOnceStep
  <1> QED
    BY <1>1, <1>2, TypeCorrect, PTL DEF Spec

-----------------------------------------------------------------------------
(* Authority.                                                              *)

(***************************************************************************)
(* Only the policy gate writes a verdict, once, and it writes the policy   *)
(* engine's; a recorded approval decision is never changed.                *)
(***************************************************************************)
LEMMA DecisionFrame ==
    ASSUME TypeOK, [Next]_vars
    PROVE  /\ inputs' = inputs
           /\ \/ verdict' = verdict
              \/ verdict = "none" /\ verdict' = evaluate_policy(inputs).verdict
           /\ approval' = approval \/ approval = "none"
  <1> DEFINE Goal == /\ inputs' = inputs
                     /\ \/ verdict' = verdict
                        \/ verdict = "none" /\ verdict' = evaluate_policy(inputs).verdict
                     /\ approval' = approval \/ approval = "none"
  <1>0. ASSUME UNCHANGED gateVars PROVE Goal
    BY <1>0 DEF gateVars
  <1>1. ASSUME NEW w \in Workers, Raise(w) PROVE Goal
    BY <1>0, <1>1 DEF Raise
  <1>2. ASSUME NEW w \in Workers, NEW record, NEW confirmed,
               RouteSuccess(w, record, confirmed)
        PROVE  Goal
    BY <1>0, <1>1, <1>2 DEF RouteSuccess
  <1>3. ASSUME NEW w \in Workers, NEW target, NEW status, NEW record,
               FailClosed(w, target, status, record)
        PROVE  Goal
    BY <1>0, <1>1, <1>3 DEF FailClosed
  <1>4. ASSUME NEW w \in Workers, PolicyEvaluate(w) PROVE Goal
    BY <1>1, <1>4 DEF PolicyEvaluate
  <1>5. ASSUME NEW w \in Workers, ApprovalExpire(w) PROVE Goal
    BY <1>1, <1>5 DEF ApprovalExpire
  <1>6. ASSUME Decide \/ WindowCloses PROVE Goal
    BY <1>6 DEF Decide, WindowCloses
  <1> HIDE DEF Goal
  <1>7. ASSUME NEW w \in Workers,
               \/ Start(w) \/ Discover(w) \/ ClaimItem(w) \/ ResumeRead(w) \/ ResumeClaim(w)
               \/ ResumeRefused(w) \/ Suspend(w) \/ Finalise(w) \/ Planner(w)
               \/ PolicyReplay(w)
        PROVE  Goal
    BY <1>0, <1>1, <1>7 DEF Start, Discover, ClaimItem, ResumeRead, ResumeClaim,
       ResumeRefused, Suspend, Finalise, Planner, PlannerReplay, PlannerPropose,
       PlannerNoAction, PlannerTerminate, PolicyReplay
  <1>8. ASSUME NEW w \in Workers,
               \/ ApprovalWait(w) \/ ApprovalGranted(w) \/ ApprovalRefused(w) \/ Verifier(w)
        PROVE  Goal
    BY <1>0, <1>1, <1>8 DEF ApprovalWait, ApprovalGranted, ApprovalRefused, Verifier,
       VerifierBaseline, VerifierNoBaseline, VerifierToExecutor, VerifierSettling,
       VerifierJudge
  <1>9. ASSUME NEW w \in Workers, Executor(w) PROVE Goal
    BY <1>0, <1>1, <1>2, <1>3, <1>9 DEF Executor, ExecutorReplay, ExecutorEvidence, Recover,
       Reconcile, ExecutorRefuses, ExecutorReady, RecordIntent, IntentRefused, Authorize, Lost,
       Lookup, ClaimWrite, Dispatch, Outcome, Settle
  <1>10. ASSUME NEW w \in Workers, Crash(w) \/ NodeError(w) \/ TxLost(w) PROVE Goal
    BY <1>0, <1>1, <1>10 DEF Crash, NodeError, TxLost
  <1>11. ASSUME \/ ItemLockLost \/ Control \/ LeaseExpires \/ Settles \/ LateEffect
                \/ OtherAction \/ UNCHANGED vars
         PROVE  Goal
    BY <1>0, <1>11 DEF ItemLockLost, Control, LeaseExpires, Settles, LateEffect, OtherAction,
       vars
  <1>12. Goal
    BY <1>4, <1>5, <1>6, <1>7, <1>8, <1>9, <1>10, <1>11 DEF Next, PassNext, PolicyGate,
       ApprovalService, Time
  <1> QED
    BY <1>12 DEF Goal

(***************************************************************************)
(* The broker goes on to look up, claim and call only from the step that   *)
(* found authority, and no other step sends a write.                       *)
(***************************************************************************)
LEMMA BrokerOrder ==
    ASSUME TypeOK, [Next]_vars, NEW v \in Workers
    PROVE  /\ pc'[v] \in {"lookup", "claim", "call"}
                => pc[v] \in {"lookup", "claim", "call"} \/ Authority
           /\ calls' = calls \/ \E w \in Workers : pc[w] = "call"
  <1> USE DEF PassStep, InNode, GraphNodes, ExecutorSteps
  <1>0. pc \in [Workers -> PassStep]
    BY DEF TypeOK, PassType
  <1> DEFINE Goal == /\ pc'[v] \in {"lookup", "claim", "call"}
                          => pc[v] \in {"lookup", "claim", "call"} \/ Authority
                     /\ calls' = calls \/ \E w \in Workers : pc[w] = "call"
  <1>1. ASSUME NEW w \in Workers, NEW step \in PassStep \ {"lookup", "claim", "call"},
               Goto(w, step), calls' = calls
        PROVE  Goal
    BY <1>0, <1>1 DEF Goto
  <1>2. ASSUME NEW w \in Workers, Leave(w), UNCHANGED effectVars PROVE Goal
    BY <1>1, <1>2 DEF Leave, effectVars
  <1>3. ASSUME NEW w \in Workers, Raise(w) PROVE Goal
    BY <1>2, <1>3 DEF Raise
  <1>4. ASSUME NEW w \in Workers, NEW record, NEW confirmed,
               RouteSuccess(w, record, confirmed)
        PROVE  Goal
    BY <1>1, <1>3, <1>4 DEF RouteSuccess, CommitNode
  <1>5. ASSUME NEW w \in Workers, NEW target, NEW status, NEW record,
               FailClosed(w, target, status, record)
        PROVE  Goal
    BY <1>1, <1>3, <1>5 DEF FailClosed, CommitNode
  <1>6. ASSUME NEW w \in Workers, Authorize(w) PROVE Goal
    BY <1>0, <1>6 DEF Authorize, require_write_authority, Authority, Goto, effectVars
  <1>7. ASSUME NEW w \in Workers, Lookup(w) PROVE Goal
    BY <1>0, <1>7 DEF Lookup, Goto, effectVars
  <1>8. ASSUME NEW w \in Workers, ClaimWrite(w) PROVE Goal
    BY <1>0, <1>8 DEF ClaimWrite, Goto
  <1>9. ASSUME NEW w \in Workers, Dispatch(w) PROVE Goal
    BY <1>0, <1>9 DEF Dispatch, Goto
  <1>10. ASSUME UNCHANGED <<pc, calls>> PROVE Goal
    BY <1>10
  <1> HIDE DEF Goal
  <1>11. ASSUME NEW w \in Workers,
               \/ Start(w) \/ Discover(w) \/ ClaimItem(w) \/ ResumeRead(w) \/ ResumeClaim(w)
               \/ ResumeRefused(w) \/ Suspend(w) \/ Finalise(w)
        PROVE  Goal
    BY <1>1, <1>2, <1>11 DEF Start, Discover, ClaimItem, ResumeRead, ResumeClaim,
       ResumeRefused, Suspend, Finalise, effectVars
  <1>12. ASSUME NEW w \in Workers, Planner(w) \/ PolicyGate(w) PROVE Goal
    BY <1>1, <1>3, <1>12 DEF Planner, PlannerReplay, PlannerPropose, PlannerNoAction,
       PlannerTerminate, AfterPlanner, PolicyGate, PolicyReplay, PolicyEvaluate, AfterPolicy,
       CommitNode, effectVars
  <1>13. ASSUME NEW w \in Workers, ApprovalService(w) \/ Verifier(w) PROVE Goal
    BY <1>1, <1>3, <1>13 DEF ApprovalService, ApprovalWait, ApprovalExpire, ApprovalGranted,
       ApprovalRefused, Verifier, VerifierBaseline, VerifierNoBaseline, VerifierToExecutor,
       VerifierSettling, VerifierJudge, CommitNode, effectVars
  <1>14. ASSUME NEW w \in Workers,
                \/ ExecutorReplay(w) \/ ExecutorEvidence(w) \/ ExecutorReady(w)
                \/ RecordIntent(w) \/ Lost(w) \/ Crash(w) \/ NodeError(w)
         PROVE  Goal
    BY <1>1, <1>2, <1>3, <1>14 DEF ExecutorReplay, ExecutorEvidence, ExecutorReady,
       RecordIntent, Lost, Crash, NodeError, CommitNode, effectVars
  <1>15. ASSUME NEW w \in Workers,
                Recover(w) \/ ExecutorRefuses(w) \/ IntentRefused(w) \/ Outcome(w)
         PROVE  Goal
    BY <1>4, <1>5, <1>15 DEF Recover, Reconcile, ExecutorRefuses, IntentRefused, Outcome,
       Settle
  <1>16. ASSUME LateEffect \/ OtherAction PROVE Goal
    BY <1>10, <1>16 DEF LateEffect, OtherAction, passVars
  <1>17. ASSUME \/ \E w \in Workers : TxLost(w)
                \/ ItemLockLost \/ Decide \/ Control \/ LeaseExpires \/ WindowCloses
                \/ Settles \/ UNCHANGED vars
         PROVE  Goal
    BY <1>10, <1>17, OutsideFrame
  <1>18. Goal
    BY <1>6, <1>7, <1>8, <1>9, <1>11, <1>12, <1>13, <1>14, <1>15, <1>16, <1>17
       DEF Next, PassNext, Executor, Time
  <1> QED
    BY <1>18 DEF Goal

(***************************************************************************)
(* One step keeps every write behind a permitting decision.                *)
(***************************************************************************)
LEMMA AuthorityStep ==
    ASSUME TypeOK, AuthorityPrecedesCall, [Next]_vars
    PROVE  AuthorityPrecedesCall'
  <1>1. /\ inputs' = inputs
        /\ \/ verdict' = verdict
           \/ verdict = "none" /\ verdict' = evaluate_policy(inputs).verdict
        /\ approval' = approval \/ approval = "none"
    BY DecisionFrame
  <1>2. Authority => Authority'
    BY <1>1 DEF Authority
  <1>3. verdict' # "none" => verdict' = evaluate_policy(inputs').verdict
    BY <1>1 DEF AuthorityPrecedesCall
  <1>4. ASSUME NEW v \in Workers, pc'[v] \in {"lookup", "claim", "call"}
        PROVE  Authority'
    BY <1>2, <1>4, BrokerOrder DEF AuthorityPrecedesCall
  <1>5. ASSUME calls' > 0 PROVE Authority'
    <2>1. CASE Workers = {}
      <3>1. calls' = calls
        BY <2>1 DEF Next, Time, ItemLockLost, Decide, Control, LeaseExpires, WindowCloses,
           Settles, LateEffect, OtherAction, vars, effectVars
      <3> QED
        BY <1>2, <1>5, <3>1 DEF AuthorityPrecedesCall
    <2>2. CASE Workers # {}
      <3>1. calls' = calls \/ \E w \in Workers : pc[w] = "call"
        BY <2>2, BrokerOrder
      <3> QED
        BY <1>2, <1>5, <3>1 DEF AuthorityPrecedesCall
    <2> QED
      BY <2>1, <2>2
  <1> QED
    BY <1>3, <1>4, <1>5 DEF AuthorityPrecedesCall

(***************************************************************************)
(* For every instance, a write reaches the adapter only after a human      *)
(* approval or for an action the autonomy matrix allows outright.          *)
(***************************************************************************)
THEOREM WriteHasAuthorityHolds == Spec => []WriteHasAuthority
  <1>1. Init => AuthorityPrecedesCall
    BY DEF Init, AuthorityPrecedesCall
  <1>2. TypeOK /\ AuthorityPrecedesCall /\ [Next]_vars => AuthorityPrecedesCall'
    BY AuthorityStep
  <1>3. TypeOK /\ AuthorityPrecedesCall => WriteHasAuthority
    <2> SUFFICES ASSUME TypeOK, AuthorityPrecedesCall, calls > 0, verdict = "allow"
                 PROVE  /\ inputs.risk_tier = "r1"
                        /\ ~inputs.is_production
                        /\ detect_ambiguity(inputs) = {}
                        /\ ~inputs.tenant_requires_approval_override
      BY DEF AuthorityPrecedesCall, Authority, WriteHasAuthority
    <2>1. inputs \in PolicyInputs /\ inputs.risk_tier \in {"r1", "r2"}
      BY RunAssumption DEF TypeOK, GateType
    <2>2. evaluate_policy(inputs).verdict = "allow"
      BY DEF AuthorityPrecedesCall
    <2> QED
      BY <2>1, <2>2, AllowIsAutonomous
  <1> QED
    BY <1>1, <1>2, <1>3, TypeCorrect, PTL DEF Spec

-----------------------------------------------------------------------------
(* The lease.                                                              *)

(***************************************************************************)
(* Within a node the lease columns are left alone unless the pass raises.  *)
(***************************************************************************)
LEMMA NodeFrame ==
    ASSUME TypeOK, NEW w \in Workers,
           \/ Planner(w) \/ PolicyGate(w) \/ ApprovalService(w) \/ Verifier(w) \/ Executor(w)
    PROVE  /\ pc[w] \in InNode
           /\ \/ Raise(w)
              \/ UNCHANGED leaseVars /\ \E step \in PassStep : Goto(w, step)
  <1> USE DEF PassStep, InNode, GraphNodes, ExecutorSteps
  <1> DEFINE Goal == /\ pc[w] \in InNode
                     /\ \/ Raise(w)
                        \/ /\ UNCHANGED leaseVars
                           /\ \E step \in PassStep : Goto(w, step)
  <1>1. ASSUME pc[w] \in InNode, Raise(w) PROVE Goal
    BY <1>1
  <1>2. ASSUME pc[w] \in InNode, UNCHANGED leaseVars, NEW step \in PassStep, Goto(w, step)
        PROVE  Goal
    BY <1>2
  <1>3. ASSUME pc[w] \in InNode, UNCHANGED leaseVars, NEW step \in PassStep, NEW t,
               CommitNode(w, t, step)
        PROVE  Goal
    BY <1>2, <1>3 DEF CommitNode
  <1>4. ASSUME pc[w] \in InNode, NEW record, NEW confirmed, RouteSuccess(w, record, confirmed)
        PROVE  Goal
    BY <1>1, <1>3, <1>4 DEF RouteSuccess
  <1>5. ASSUME pc[w] \in InNode, NEW target, NEW status, NEW record,
               FailClosed(w, target, status, record)
        PROVE  Goal
    BY <1>1, <1>3, <1>5 DEF FailClosed
  <1> HIDE DEF Goal
  <1>6. ASSUME Planner(w) \/ PolicyGate(w) PROVE Goal
    BY <1>1, <1>3, <1>6 DEF Planner, PlannerReplay, PlannerPropose, PlannerNoAction,
       PlannerTerminate, AfterPlanner, PolicyGate, PolicyReplay, PolicyEvaluate, AfterPolicy
  <1>7. ASSUME ApprovalService(w) \/ Verifier(w) PROVE Goal
    BY <1>1, <1>3, <1>7 DEF ApprovalService, ApprovalWait, ApprovalExpire, ApprovalGranted,
       ApprovalRefused, Verifier, VerifierBaseline, VerifierNoBaseline, VerifierToExecutor,
       VerifierSettling, VerifierJudge, VerifierDue
  <1>8. ASSUME \/ ExecutorReplay(w) \/ ExecutorEvidence(w) \/ ExecutorReady(w)
               \/ RecordIntent(w) \/ Authorize(w) \/ Lost(w) \/ Lookup(w) \/ ClaimWrite(w)
               \/ Dispatch(w)
        PROVE  Goal
    BY <1>1, <1>2, <1>3, <1>8 DEF ExecutorReplay, ExecutorEvidence, ExecutorReady, AtDispatch,
       RecordIntent, Authorize, Lost, Lookup, ClaimWrite, Dispatch
  <1>9. ASSUME Recover(w) \/ ExecutorRefuses(w) \/ IntentRefused(w) \/ Outcome(w) PROVE Goal
    BY <1>4, <1>5, <1>9 DEF Recover, Reconcile, ExecutorRefuses, AtDispatch, IntentRefused,
       Outcome, Settle
  <1>10. Goal
    BY <1>6, <1>7, <1>8, <1>9 DEF Executor
  <1> QED
    BY <1>10 DEF Goal

(***************************************************************************)
(* One step keeps the lease discipline when no pass outlives its lease:    *)
(* a lease changes hands only when it is free or its pass is over.         *)
(***************************************************************************)
LEMMA LeaseStep ==
    ASSUME ~Stalls, TypeOK, LeaseDiscipline, [Next]_vars
    PROVE  LeaseDiscipline'
  <1> USE RunAssumption DEF PassStep, InNode, GraphNodes, ExecutorSteps
  <1>0. pc \in [Workers -> PassStep]
    BY DEF TypeOK, PassType
  <1>1. ASSUME NEW w \in Workers, owner = w, run' # "absent", owner' = Free, expired' = FALSE,
               Goto(w, "idle")
        PROVE  LeaseDiscipline'
    BY <1>0, <1>1 DEF LeaseDiscipline, Goto
  <1>2. ASSUME NEW w \in Workers, LeaseClaimable(w), pc[w] \notin InNode \cup {"end"},
               run' # "absent", owner' = w, expired' = FALSE, Goto(w, "planner")
        PROVE  LeaseDiscipline'
    BY <1>0, <1>2 DEF LeaseDiscipline, LeaseClaimable, Goto
  <1>3. ASSUME NEW w \in Workers, NEW step \in PassStep, Goto(w, step),
               UNCHANGED leaseVars, run # "absent",
               step \in InNode \cup {"end"} => pc[w] \in InNode \cup {"end"}
        PROVE  LeaseDiscipline'
    BY <1>0, <1>3 DEF LeaseDiscipline, Goto, leaseVars
  <1>4. ASSUME UNCHANGED <<pc, leaseVars>> PROVE LeaseDiscipline'
    BY <1>4 DEF LeaseDiscipline, leaseVars
  <1>5. ASSUME NEW w \in Workers, pc[w] \in InNode, Raise(w) PROVE LeaseDiscipline'
    <2>1. owner = w
      BY <1>5 DEF LeaseDiscipline
    <2> QED
      BY <1>1, <1>5, <2>1 DEF Raise, Leave, ReleaseLease
  <1>6. ASSUME NEW w \in Workers,
               \/ Planner(w) \/ PolicyGate(w) \/ ApprovalService(w) \/ Verifier(w)
               \/ Executor(w)
        PROVE  LeaseDiscipline'
    <2>1. run # "absent"
      BY <1>6, NodeFrame DEF LeaseDiscipline
    <2> QED
      BY <1>3, <1>5, <1>6, <2>1, NodeFrame
  <1>7. ASSUME NEW w \in Workers, Start(w) PROVE LeaseDiscipline'
    <2>1. \A v \in Workers : pc[v] \notin InNode \cup {"end"}
      BY <1>7 DEF Start, LeaseDiscipline
    <2> QED
      BY <1>0, <1>7, <2>1 DEF Start, Goto, LeaseDiscipline
  <1>8. ASSUME NEW w \in Workers, Discover(w) \/ ClaimItem(w) \/ ResumeRead(w)
               \/ ResumeRefused(w)
        PROVE  LeaseDiscipline'
    <2>1. run # "absent"
      BY <1>8 DEF Discover, stranded, ClaimItem, ResumeRead, ResumeRefused, LeaseDiscipline
    <2> QED
      BY <1>3, <1>8, <2>1 DEF Discover, ClaimItem, ResumeRead, ResumeRefused, Leave
  <1>9. ASSUME NEW w \in Workers, ResumeClaim(w) PROVE LeaseDiscipline'
    <2>1. run' # "absent"
      BY <1>9 DEF ResumeClaim, LeaseDiscipline
    <2> QED
      BY <1>2, <1>9, <2>1 DEF ResumeClaim
  <1>10. ASSUME NEW w \in Workers, Suspend(w) \/ Finalise(w) PROVE LeaseDiscipline'
    <2>1. owner = w
      BY <1>10 DEF Suspend, Finalise, LeaseDiscipline
    <2> QED
      BY <1>1, <1>10, <2>1 DEF Suspend, Finalise, Leave, ReleaseLease
  <1>11. ASSUME NEW w \in Workers, Crash(w) PROVE LeaseDiscipline'
    BY <1>0, <1>11 DEF Crash, Leave, Goto, AbandonLease, LeaseDiscipline
  <1>12. ASSUME NEW w \in Workers, NodeError(w) PROVE LeaseDiscipline'
    BY <1>5, <1>12 DEF NodeError
  <1>13. ASSUME LeaseExpires PROVE LeaseDiscipline'
    BY <1>13 DEF LeaseExpires, passVars, LeaseDiscipline
  <1>14. ASSUME \/ \E w \in Workers : TxLost(w)
                \/ ItemLockLost \/ Decide \/ Control \/ WindowCloses \/ Settles
                \/ LateEffect \/ OtherAction \/ UNCHANGED vars
         PROVE  LeaseDiscipline'
    BY <1>4, <1>14 DEF TxLost, ItemLockLost, Decide, Control, WindowCloses, Settles,
       LateEffect, OtherAction, vars, leaseVars, passVars
  <1> QED
    BY <1>6, <1>7, <1>8, <1>9, <1>10, <1>11, <1>12, <1>13, <1>14 DEF Next, PassNext, Time

(***************************************************************************)
(* As long as no pass outlives its lease, no crash, lost lock or racing    *)
(* resume puts a worker into the graph without the run's lease.            *)
(***************************************************************************)
THEOREM OnlyLeaseholderActsHolds ==
    ASSUME ~Stalls
    PROVE  Spec => []OnlyLeaseholderActs
  <1>1. Init => LeaseDiscipline
    BY DEF Init, LeaseDiscipline, InNode, GraphNodes, ExecutorSteps
  <1>2. TypeOK /\ LeaseDiscipline /\ [Next]_vars => LeaseDiscipline'
    BY LeaseStep
  <1>3. LeaseDiscipline => OnlyLeaseholderActs
    BY DEF LeaseDiscipline, OnlyLeaseholderActs
  <1> QED
    BY <1>1, <1>2, <1>3, TypeCorrect, PTL DEF Spec

-----------------------------------------------------------------------------
(* Verdicts rest on effects.                                               *)

(***************************************************************************)
(* One step keeps receipts, outcomes and verdicts sound.                   *)
(***************************************************************************)
LEMMA EvidenceStep ==
    ASSUME TypeOK, CallNeedsClaim, EvidenceIsSound, VerdictRestsOnEffect, [Next]_vars
    PROVE  EvidenceIsSound' /\ VerdictRestsOnEffect'
  <1> USE DEF PassStep, InNode, GraphNodes, ExecutorSteps
  <1> DEFINE Goal == EvidenceIsSound' /\ VerdictRestsOnEffect'
             Others(w) == \A v \in Workers : v # w => res'[v] = res[v]
  <1>0. /\ pc \in [Workers -> PassStep]
        /\ res \in [Workers -> ToolExecutionOutcome \cup {"none", "no_effect", "refused"}]
        /\ effects \in Nat
        /\ baseline \in BOOLEAN /\ executed \in BOOLEAN /\ claimed \in BOOLEAN
        /\ settled \in BOOLEAN /\ observed \in BOOLEAN
    BY DEF TypeOK, PassType, EffectType, ActionType
  <1>1. ASSUME NEW w \in Workers, NEW step \in PassStep \ ExecutorSteps, Goto(w, step),
               Others(w),
               UNCHANGED <<baseline, executed, settled, verification, claimed, receipt, effects,
                           prior, observed>>,
               action' = "executing" => action = "executing"
        PROVE  Goal
    <2>1. \A v \in Workers : pc'[v] \in ExecutorSteps => pc[v] \in ExecutorSteps /\ v # w
                                                       /\ pc'[v] = pc[v] /\ res'[v] = res[v]
      BY <1>0, <1>1 DEF Goto
    <2> QED
      BY <1>1, <2>1 DEF EvidenceIsSound, VerdictRestsOnEffect, Attested, Interrupted
  <1>2. ASSUME NEW w \in Workers, Leave(w), UNCHANGED <<actionVars, effectVars>> PROVE Goal
    <2>1. Others(w)
      BY <1>0, <1>2 DEF Leave
    <2> QED
      BY <1>1, <1>2, <2>1 DEF Leave, actionVars, effectVars
  <1>3. ASSUME NEW w \in Workers, Raise(w) PROVE Goal
    BY <1>2, <1>3 DEF Raise
  <1>4. ASSUME NEW w \in Workers, NEW t, NEW step \in PassStep \ ExecutorSteps,
               CommitNode(w, t, step),
               UNCHANGED <<baseline, executed, settled, verification, effectVars>>,
               action' = "executing" => action = "executing"
        PROVE  Goal
    <2>1. Others(w)
      BY <1>0, <1>4 DEF CommitNode
    <2> QED
      BY <1>1, <1>4, <2>1 DEF CommitNode, effectVars
  <1>5. ASSUME NEW w \in Workers, NEW record, NEW confirmed \in BOOLEAN,
               RouteSuccess(w, record, confirmed), baseline,
               confirmed => claimed \/ prior = "unknown",
               ~confirmed => effects > 0 \/ prior = "succeeded",
               record = "succeeded" => effects > 0,
               record # "none" => claimed
        PROVE  Goal
    <2>1. CASE Raise(w)
      BY <1>3, <2>1
    <2>2. CASE ~Raise(w)
      <3>1. /\ CommitNode(w, FALSE, "verifier") /\ executed' = TRUE
            /\ receipt' = record /\ observed' = (observed \/ confirmed)
            /\ UNCHANGED <<baseline, settled, verification, claimed, effects, prior>>
        BY <1>5, <2>2 DEF RouteSuccess
      <3>2. \A v \in Workers : pc'[v] \in ExecutorSteps => pc'[v] = pc[v] /\ res'[v] = res[v]
        BY <1>0, <3>1 DEF CommitNode, Goto
      <3> QED
        BY <1>5, <3>1, <3>2 DEF EvidenceIsSound, VerdictRestsOnEffect, Attested, Interrupted
    <2> QED
      BY <2>1, <2>2
  <1>6. ASSUME NEW w \in Workers, NEW target, NEW status \in {"failed_clean", "failed_partial"},
               NEW record, FailClosed(w, target, status, record),
               record = "succeeded" => effects > 0,
               record # "none" => baseline /\ claimed
        PROVE  Goal
    <2>1. CASE Raise(w)
      BY <1>3, <2>1
    <2>2. CASE ~Raise(w)
      <3>1. /\ CommitNode(w, TRUE, "end") /\ action' = status /\ receipt' = record
            /\ UNCHANGED <<baseline, executed, settled, verification, claimed, effects, prior,
                           observed>>
        BY <1>6, <2>2 DEF FailClosed
      <3>2. \A v \in Workers : pc'[v] \in ExecutorSteps => pc'[v] = pc[v] /\ res'[v] = res[v]
        BY <1>0, <3>1 DEF CommitNode, Goto
      <3> QED
        BY <1>6, <3>1, <3>2 DEF EvidenceIsSound, VerdictRestsOnEffect, Attested, Interrupted
    <2> QED
      BY <2>1, <2>2
  <1> HIDE DEF Goal
  <1>7. ASSUME NEW w \in Workers, Start(w) \/ Discover(w) \/ ResumeClaim(w) PROVE Goal
    BY <1>1, <1>7 DEF Start, Discover, ResumeClaim, actionVars, effectVars
  <1>8. ASSUME NEW w \in Workers, ClaimItem(w) \/ ResumeRead(w) PROVE Goal
    BY <1>1, <1>2, <1>8 DEF ClaimItem, ResumeRead, actionVars, effectVars
  <1>9. ASSUME NEW w \in Workers,
               \/ ResumeRefused(w) \/ Suspend(w) \/ Finalise(w) \/ Crash(w) \/ NodeError(w)
               \/ Lost(w)
        PROVE  Goal
    BY <1>2, <1>3, <1>9 DEF ResumeRefused, Suspend, Finalise, Crash, NodeError, Lost
  <1>10. ASSUME NEW w \in Workers, Planner(w) PROVE Goal
    BY <1>3, <1>4, <1>10 DEF Planner, PlannerReplay, PlannerPropose, PlannerNoAction,
       PlannerTerminate, AfterPlanner, actionVars
  <1>11. ASSUME NEW w \in Workers, PolicyReplay(w) PROVE Goal
    BY <1>4, <1>11 DEF PolicyReplay, AfterPolicy, actionVars
  <1>12. ASSUME NEW w \in Workers, PolicyEvaluate(w) PROVE Goal
    <2>1. evaluate_policy(inputs).verdict \in PolicyVerdict
      BY RunAssumption, VerdictType DEF TypeOK, GateType
    <2>2. ActionAfter(evaluate_policy(inputs).verdict) # "executing"
      BY <2>1 DEF ActionAfter, PolicyVerdict
    <2> QED
      BY <1>3, <1>4, <1>12, <2>2 DEF PolicyEvaluate, AfterPolicy
  <1>13. ASSUME NEW w \in Workers, ApprovalService(w) PROVE Goal
    BY <1>3, <1>4, <1>13 DEF ApprovalService, ApprovalWait, ApprovalExpire, ApprovalGranted,
       ApprovalRefused, actionVars
  <1>14. ASSUME NEW w \in Workers,
                VerifierNoBaseline(w) \/ VerifierToExecutor(w) \/ VerifierSettling(w)
         PROVE  Goal
    BY <1>4, <1>14 DEF VerifierNoBaseline, VerifierToExecutor, VerifierSettling, actionVars
  <1>15. ASSUME NEW w \in Workers, VerifierBaseline(w) PROVE Goal
    <2>1. \A v \in Workers : pc'[v] \in ExecutorSteps => pc'[v] = pc[v] /\ res'[v] = res[v]
      BY <1>0, <1>15 DEF VerifierBaseline, CommitNode, Goto
    <2> QED
      BY <1>15, <2>1 DEF Goal, VerifierBaseline, effectVars, EvidenceIsSound,
         VerdictRestsOnEffect, Attested
  <1>16. ASSUME NEW w \in Workers, VerifierJudge(w) PROVE Goal
    <2>1. CASE Raise(w)
      BY <1>3, <2>1
    <2>2. CASE ~Raise(w)
      <3>1. PICK r \in VerificationVerdict :
               /\ verification' = r /\ action' = r
               /\ CommitNode(w, TRUE, "end")
               /\ UNCHANGED <<baseline, executed, settled, effectVars>>
        BY <1>16, <2>2 DEF VerifierJudge
      <3>2. executed /\ settled
        BY <1>16 DEF VerifierJudge, VerifierDue
      <3>3. \A v \in Workers : pc'[v] \in ExecutorSteps => pc'[v] = pc[v] /\ res'[v] = res[v]
        BY <1>0, <3>1 DEF CommitNode, Goto
      <3> QED
        BY <3>1, <3>2, <3>3 DEF Goal, effectVars, EvidenceIsSound, VerdictRestsOnEffect,
           Attested, Interrupted, VerificationVerdict
    <2> QED
      BY <2>1, <2>2
  <1>17. ASSUME NEW w \in Workers, ExecutorReplay(w) PROVE Goal
    BY <1>4, <1>17 DEF ExecutorReplay, actionVars
  \* What the pass found, where it is about to route it.
  <1> DEFINE Found(step, o) ==
               /\ step = "recover" /\ o = "succeeded" => effects' > 0
               /\ step = "recover" /\ o = "unknown" => claimed'
               /\ step = "outcome" /\ o = "succeeded" => effects' > 0 \/ prior = "succeeded"
               /\ step = "outcome" /\ o \in ToolExecutionOutcome => claimed' \/ prior = o
  <1>18. ASSUME NEW w \in Workers, NEW step \in ExecutorSteps, Goto(w, step), Others(w),
                baseline, Found(step, res'[w]),
                claimed => claimed',
                effects > 0 => effects' > 0,
                UNCHANGED <<baseline, executed, settled, verification, receipt, prior, observed>>
         PROVE  Goal
    <2>1. \A v \in Workers : v # w => pc'[v] = pc[v] /\ res'[v] = res[v]
      BY <1>0, <1>18 DEF Goto
    <2>2. pc'[w] = step
      BY <1>0, <1>18 DEF Goto
    <2> QED
      BY <1>18, <2>1, <2>2 DEF Goal, EvidenceIsSound, VerdictRestsOnEffect, Attested
  <1> HIDE DEF Found
  <1>19. ASSUME NEW w \in Workers, ExecutorEvidence(w) PROVE Goal
    <2>1. Others(w) /\ res'[w] = DispatchEvidence
      BY <1>0, <1>19 DEF ExecutorEvidence
    <2>2. UNCHANGED <<claimed, receipt, effects, prior, observed>> /\ baseline
      BY <1>19 DEF ExecutorEvidence, EvidenceIsSound, effectVars
    <2>3. Found("recover", res'[w])
      BY <2>1, <2>2 DEF Found, EvidenceIsSound, DispatchEvidence
    <2> QED
      BY <1>18, <1>19, <2>1, <2>2, <2>3 DEF ExecutorEvidence, actionVars
  <1>20. ASSUME NEW w \in Workers, ExecutorReady(w) \/ RecordIntent(w) PROVE Goal
    <2>1. baseline
      BY <1>20 DEF ExecutorReady, RecordIntent, EvidenceIsSound
    <2>2. Found("intent", res'[w]) /\ Found("authorize", res'[w])
      BY DEF Found
    <2> QED
      <3>1. /\ Others(w)
            /\ UNCHANGED <<baseline, executed, settled, verification, claimed, receipt, effects,
                           prior, observed>>
        BY <1>20 DEF ExecutorReady, RecordIntent, actionVars, effectVars
      <3>2. Goto(w, "intent") \/ Goto(w, "authorize")
        BY <1>20 DEF ExecutorReady, RecordIntent
      <3> QED
        BY <1>18, <2>1, <2>2, <3>1, <3>2
  <1>21. ASSUME NEW w \in Workers, Authorize(w) \/ Lookup(w) \/ ClaimWrite(w) PROVE Goal
    <2>1. baseline
      BY <1>21 DEF Authorize, Lookup, ClaimWrite, EvidenceIsSound
    <2>2. Others(w)
      BY <1>0, <1>21 DEF Authorize, Lookup, ClaimWrite
    <2>3. /\ UNCHANGED <<baseline, executed, settled, verification, receipt, effects, prior,
                         observed>>
          /\ claimed => claimed'
      BY <1>0, <1>21 DEF Authorize, Lookup, ClaimWrite, actionVars, effectVars
    <2>4. Found("lookup", res'[w]) /\ Found("claim", res'[w]) /\ Found("call", res'[w])
      BY DEF Found
    <2>5. res'[w] = "refused" => Found("outcome", res'[w])
      BY DEF Found, ToolExecutionOutcome
    <2>6. CASE Authorize(w)
      BY <1>0, <1>18, <2>1, <2>2, <2>3, <2>4, <2>5, <2>6 DEF Authorize
    <2>7. CASE ClaimWrite(w)
      BY <1>0, <1>18, <2>1, <2>2, <2>3, <2>4, <2>5, <2>7 DEF ClaimWrite
    <2>8. CASE Lookup(w)
      <3>1. CASE KeyReceipts = {}
        BY <1>18, <2>1, <2>2, <2>3, <2>4, <2>8, <3>1 DEF Lookup
      <3>2. CASE KeyReceipts # {}
        <4>1. Goto(w, "outcome") /\ res'[w] \in KeyReceipts /\ claimed' = claimed
          BY <1>0, <2>8, <3>2 DEF Lookup, effectVars
        <4>2. Found("outcome", res'[w])
          BY <2>3, <4>1 DEF Found, KeyReceipts, EvidenceIsSound, ToolExecutionOutcome
        <4> QED
          BY <1>18, <2>1, <2>2, <2>3, <4>1, <4>2
      <3> QED
        BY <3>1, <3>2
    <2> QED
      BY <1>21, <2>6, <2>7, <2>8
  <1>22. ASSUME NEW w \in Workers, Dispatch(w) PROVE Goal
    <2>1. baseline /\ claimed
      BY <1>22 DEF Dispatch, EvidenceIsSound, CallNeedsClaim
    <2>2. Others(w)
      BY <1>0, <1>22 DEF Dispatch
    <2>3. effects > 0 => effects' > 0
      BY <1>0, <1>22 DEF Dispatch
    <2>4. res'[w] = "succeeded" => effects' > 0
      BY <1>0, <1>22 DEF Dispatch
    <2>5. Found("outcome", res'[w])
      BY <1>22, <2>1, <2>4 DEF Found, Dispatch
    <2> QED
      BY <1>18, <1>22, <2>1, <2>2, <2>3, <2>5 DEF Dispatch, actionVars
  <1>23. ASSUME NEW w \in Workers, Recover(w) \/ ExecutorRefuses(w) \/ IntentRefused(w)
         PROVE  Goal
    <2>1. (receipt = "succeeded" => effects > 0) /\ (receipt # "none" => baseline /\ claimed)
      BY DEF EvidenceIsSound, Interrupted
    <2>2. Recover(w) => /\ baseline
                        /\ res[w] = "succeeded" => effects > 0
                        /\ res[w] = "unknown" => claimed
      BY DEF Recover, EvidenceIsSound
    <2> QED
      BY <1>5, <1>6, <1>23, <2>1, <2>2 DEF Recover, Reconcile, ExecutorRefuses, IntentRefused
  <1>24. ASSUME NEW w \in Workers, Outcome(w) PROVE Goal
    <2>1. /\ baseline
          /\ res[w] = "succeeded" => effects > 0 \/ prior = "succeeded"
          /\ res[w] \in ToolExecutionOutcome => claimed \/ prior = res[w]
      BY <1>24 DEF Outcome, EvidenceIsSound
    <2>2. Settle(w, Record(w))
      BY <1>24 DEF Outcome
    <2>3. res[w] \in ToolExecutionOutcome \cup {"refused"}
      BY <2>2 DEF Settle, ToolExecutionOutcome
    <2>4. /\ Record(w) = "succeeded" => effects > 0
          /\ Record(w) # "none" => claimed
      BY <2>1, <2>3 DEF Record, EvidenceIsSound, ToolExecutionOutcome
    <2> QED
      BY <1>5, <1>6, <2>1, <2>2, <2>4 DEF Settle, Reconcile, ToolExecutionOutcome
  <1>25. ASSUME Settles PROVE Goal
    BY <1>25 DEF Goal, Settles, passVars, effectVars, EvidenceIsSound, VerdictRestsOnEffect,
       Attested, Interrupted
  <1>26. ASSUME LateEffect PROVE Goal
    <2>1. effects' > 0
      BY <1>0, <1>26 DEF LateEffect
    <2> QED
      BY <1>26, <2>1 DEF Goal, LateEffect, passVars, actionVars, EvidenceIsSound,
         VerdictRestsOnEffect, Attested, Interrupted
  <1>27. ASSUME \/ \E w \in Workers : TxLost(w)
                \/ ItemLockLost \/ Decide \/ Control \/ LeaseExpires \/ WindowCloses
                \/ UNCHANGED vars
         PROVE  Goal
    <2>1. UNCHANGED <<pc, res, actionVars, effectVars>>
      BY <1>27 DEF TxLost, ItemLockLost, Decide, Control, LeaseExpires, WindowCloses, vars,
         passVars
    <2> QED
      BY <2>1 DEF Goal, actionVars, effectVars, EvidenceIsSound, VerdictRestsOnEffect,
         Attested, Interrupted
  <1>28. ASSUME OtherAction PROVE Goal
    <2>1. UNCHANGED <<pc, res, actionVars, claimed, receipt, effects, observed>>
      BY <1>28 DEF OtherAction, passVars
    <2>2. prior \notin ToolExecutionOutcome
      BY <1>28 DEF OtherAction, ToolExecutionOutcome
    <2> QED
      BY <2>1, <2>2 DEF Goal, actionVars, EvidenceIsSound, VerdictRestsOnEffect, Attested,
         Interrupted, ToolExecutionOutcome
  <1>29. Goal
    BY <1>7, <1>8, <1>9, <1>10, <1>11, <1>12, <1>13, <1>14, <1>15, <1>16, <1>17, <1>19, <1>20,
       <1>21, <1>22, <1>23, <1>24, <1>25, <1>26, <1>27, <1>28
       DEF Next, PassNext, PolicyGate, Verifier, Executor, Time
  <1> QED
    BY <1>29 DEF Goal

(***************************************************************************)
(* For every instance, an execution is on record only after a frozen       *)
(* baseline and only if it is attested: by this action's own effect, by    *)
(* the recorded success of another action under the same effect key, or by *)
(* a read-back after a write that may have been sent; and a verdict exists *)
(* only for a settled execution.                                           *)
(***************************************************************************)
THEOREM VerdictRestsOnEffectHolds == Spec => []VerdictRestsOnEffect
  <1> DEFINE Inv == AtMostOnce /\ CallNeedsClaim /\ EvidenceIsSound /\ VerdictRestsOnEffect
  <1>1. Init => Inv
    BY DEF Init, AtMostOnce, CallNeedsClaim, EvidenceIsSound, VerdictRestsOnEffect,
       Interrupted, ExecutorSteps
  <1>2. TypeOK /\ Inv /\ [Next]_vars => Inv'
    BY AtMostOnceStep, EvidenceStep
  <1> QED
    BY <1>1, <1>2, TypeCorrect, PTL DEF Spec

-----------------------------------------------------------------------------
(* What the record calls clean.                                            *)

(***************************************************************************)
(* One step keeps clean evidence clean when no pass outlives its lease:    *)
(* the pass that is inside the executor is the only one that can move the  *)
(* action, the claim or the receipt.                                       *)
(***************************************************************************)
LEMMA CleanStep ==
    ASSUME TypeOK, LeaseDiscipline, AtMostOnce, CallNeedsClaim, AuthorityPrecedesCall,
           CleanEvidence, CleanMeansUntouched, [Next]_vars
    PROVE  CleanEvidence' /\ CleanMeansUntouched'
  <1> USE DEF PassStep, InNode, GraphNodes, ExecutorSteps
  <1> DEFINE Goal == CleanEvidence' /\ CleanMeansUntouched'
             Untouched == effects = 0 /\ ~late
             Traces == {"executing", "succeeded", "failed_partial"} \cup VerificationVerdict
  <1>0. /\ pc \in [Workers -> PassStep]
        /\ res \in [Workers -> ToolExecutionOutcome \cup {"none", "no_effect", "refused"}]
        /\ calls \in Nat /\ effects \in Nat /\ late \in BOOLEAN /\ claimed \in BOOLEAN
    BY DEF TypeOK, PassType, EffectType
  <1>1. \A v, w \in Workers : pc[v] \in InNode /\ pc[w] \in InNode => v = w
    BY DEF LeaseDiscipline
  <1>2. calls = 0 => Untouched
    BY <1>0 DEF AtMostOnce
  \* A step of a pass that is outside the executor afterwards and leaves the evidence alone.
  <1>3. ASSUME NEW w \in Workers, NEW step \in PassStep \ ExecutorSteps, Goto(w, step),
               \A v \in Workers : v # w => res'[v] = res[v],
               UNCHANGED <<claimed, receipt, effects, late>>,
               action' = action \/ (pc[w] \in InNode /\ (action' \in Traces \/ Untouched))
        PROVE  Goal
    <2>1. pc'[w] = step /\ \A v \in Workers : v # w => pc'[v] = pc[v]
      BY <1>0, <1>3 DEF Goto
    <2>2. CleanMeansUntouched'
      BY <1>3 DEF CleanMeansUntouched
    <2>3. \A v \in Workers : pc'[v] \in ExecutorSteps
                => /\ v # w /\ pc[v] \in ExecutorSteps
                   /\ pc'[v] = pc[v] /\ res'[v] = res[v] /\ action' = action
      BY <1>1, <1>3, <2>1
    <2> QED
      BY <1>3, <2>2, <2>3 DEF CleanEvidence
  <1>4. ASSUME NEW w \in Workers, Leave(w), UNCHANGED <<actionVars, effectVars>> PROVE Goal
    <2>1. \A v \in Workers : v # w => res'[v] = res[v]
      BY <1>0, <1>4 DEF Leave
    <2> QED
      BY <1>3, <1>4, <2>1 DEF Leave, actionVars, effectVars
  <1>5. ASSUME NEW w \in Workers, Raise(w) PROVE Goal
    BY <1>4, <1>5 DEF Raise
  <1>6. ASSUME NEW w \in Workers, NEW t, NEW step \in PassStep \ ExecutorSteps,
               CommitNode(w, t, step), UNCHANGED effectVars,
               action' = action \/ (pc[w] \in InNode /\ (action' \in Traces \/ Untouched))
        PROVE  Goal
    <2>1. \A v \in Workers : v # w => res'[v] = res[v]
      BY <1>0, <1>6 DEF CommitNode
    <2> QED
      BY <1>3, <1>6, <2>1 DEF CommitNode, effectVars
  \* The node that ends a dispatch: nobody else is inside the graph.
  <1>7. ASSUME NEW w \in Workers, pc[w] \in InNode, NEW t, NEW record,
               NEW step \in PassStep \ ExecutorSteps, CommitNode(w, t, step),
               receipt' = record, UNCHANGED <<claimed, effects, late>>,
               record = "failed_clean" => Untouched,
               action' \in Traces \/ Untouched
        PROVE  Goal
    <2>1. \A v \in Workers : pc'[v] \notin ExecutorSteps
      BY <1>0, <1>1, <1>7 DEF CommitNode, Goto
    <2> QED
      BY <1>7, <2>1 DEF CleanEvidence, CleanMeansUntouched
  <1>8. ASSUME NEW w \in Workers, pc[w] \in InNode, NEW record, NEW confirmed,
               RouteSuccess(w, record, confirmed),
               record = "failed_clean" => Untouched
        PROVE  Goal
    BY <1>5, <1>7, <1>8 DEF RouteSuccess
  <1>9. ASSUME NEW w \in Workers, pc[w] \in InNode, NEW target, NEW status, NEW record,
               FailClosed(w, target, status, record),
               record = "failed_clean" => Untouched,
               status \in Traces \/ Untouched
        PROVE  Goal
    BY <1>5, <1>7, <1>9 DEF FailClosed
  <1>10. receipt = "failed_clean" => Untouched
    BY DEF CleanEvidence
  <1>11. ~claimed => Untouched
    BY <1>0, <1>2 DEF CallNeedsClaim
  <1>12. action = "none" => Untouched
    BY DEF CleanMeansUntouched, VerificationVerdict
  <1>13. verdict = "none" => Untouched
    BY <1>0, <1>2 DEF AuthorityPrecedesCall, Authority
  <1> HIDE DEF Goal, Untouched, Traces
  <1>14. ASSUME NEW w \in Workers, Start(w) \/ Discover(w) \/ ResumeClaim(w) PROVE Goal
    BY <1>3, <1>14 DEF Start, Discover, ResumeClaim, actionVars, effectVars
  <1>15. ASSUME NEW w \in Workers, ClaimItem(w) \/ ResumeRead(w) PROVE Goal
    BY <1>3, <1>4, <1>15 DEF ClaimItem, ResumeRead, actionVars, effectVars
  <1>16. ASSUME NEW w \in Workers,
                \/ ResumeRefused(w) \/ Suspend(w) \/ Finalise(w) \/ Crash(w) \/ NodeError(w)
                \/ Lost(w)
         PROVE  Goal
    BY <1>4, <1>5, <1>16 DEF ResumeRefused, Suspend, Finalise, Crash, NodeError, Lost
  <1>17. ASSUME NEW w \in Workers, Planner(w) PROVE Goal
    BY <1>5, <1>6, <1>12, <1>17 DEF Planner, PlannerReplay, PlannerPropose, PlannerNoAction,
       PlannerTerminate, AfterPlanner, actionVars
  <1>18. ASSUME NEW w \in Workers, PolicyGate(w) PROVE Goal
    BY <1>5, <1>6, <1>13, <1>18 DEF PolicyGate, PolicyReplay, PolicyEvaluate, AfterPolicy,
       actionVars
  <1>19. ASSUME NEW w \in Workers, ApprovalService(w) PROVE Goal
    BY <1>5, <1>6, <1>19 DEF ApprovalService, ApprovalWait, ApprovalExpire, ApprovalGranted,
       ApprovalRefused, actionVars
  <1>20. ASSUME NEW w \in Workers,
                \/ VerifierBaseline(w) \/ VerifierNoBaseline(w) \/ VerifierToExecutor(w)
                \/ VerifierSettling(w)
         PROVE  Goal
    BY <1>6, <1>20 DEF VerifierBaseline, VerifierNoBaseline, VerifierToExecutor,
       VerifierSettling, actionVars
  <1>21. ASSUME NEW w \in Workers, VerifierJudge(w) PROVE Goal
    BY <1>5, <1>6, <1>21 DEF VerifierJudge, VerifierDue, Traces
  <1>22. ASSUME NEW w \in Workers, ExecutorReplay(w) PROVE Goal
    BY <1>6, <1>22 DEF ExecutorReplay, actionVars
  <1>23. ASSUME NEW w \in Workers, ExecutorRefuses(w) PROVE Goal
    BY <1>9, <1>10, <1>11, <1>23 DEF ExecutorRefuses, AtDispatch, Interrupted
  <1>24. ASSUME NEW w \in Workers, IntentRefused(w) PROVE Goal
    BY <1>9, <1>10, <1>11, <1>24 DEF IntentRefused, CleanEvidence
  <1>25. ASSUME NEW w \in Workers, Recover(w) PROVE Goal
    <2>1. res[w] \in {"no_effect", "failed_clean"} => Untouched
      BY <1>11, <1>25 DEF Recover, CleanEvidence, Untouched
    <2>2. "failed_partial" \in Traces
      BY DEF Traces
    <2> QED
      BY <1>8, <1>9, <1>10, <1>25, <2>1, <2>2 DEF Recover, Reconcile
  <1>26. ASSUME NEW w \in Workers, Outcome(w) PROVE Goal
    <2>1. res[w] = "failed_clean" => Untouched
      BY <1>26 DEF Outcome, CleanEvidence, Untouched
    <2>2. /\ Record(w) = "failed_clean" => Untouched
          /\ Settle(w, Record(w)) /\ pc[w] \in InNode
      BY <1>10, <1>26, <2>1 DEF Outcome, Record
    <2>3. "failed_partial" \in Traces
      BY DEF Traces
    <2> QED
      BY <1>8, <1>9, <2>1, <2>2, <2>3 DEF Settle, Reconcile
  \* A step that stays inside the executor: only its own pass is there.
  <1>27. ASSUME NEW w \in Workers, pc[w] \in InNode, NEW step \in ExecutorSteps, Goto(w, step)
         PROVE  pc'[w] = step /\ \A v \in Workers : pc'[v] \in ExecutorSteps => v = w
    BY <1>0, <1>1, <1>27 DEF Goto
  <1>28. ASSUME NEW w \in Workers, ExecutorEvidence(w) PROVE Goal
    <2>1. res'[w] = DispatchEvidence /\ receipt # "no_effect"
      BY <1>0, <1>28 DEF ExecutorEvidence, TypeOK, EffectType, ToolExecutionOutcome
    <2>2. pc'[w] = "recover" /\ \A v \in Workers : pc'[v] \in ExecutorSteps => v = w
      BY <1>27, <1>28 DEF ExecutorEvidence, AtDispatch
    <2> QED
      BY <1>28, <2>1, <2>2 DEF Goal, ExecutorEvidence, DispatchEvidence, actionVars, effectVars,
         CleanEvidence, CleanMeansUntouched
  <1>29. ASSUME NEW w \in Workers, ExecutorReady(w) PROVE Goal
    <2>1. pc'[w] = "intent" /\ \A v \in Workers : pc'[v] \in ExecutorSteps => v = w
      BY <1>27, <1>29 DEF ExecutorReady, AtDispatch
    <2> QED
      BY <1>29, <2>1 DEF Goal, ExecutorReady, Interrupted, actionVars, effectVars,
         CleanEvidence, CleanMeansUntouched
  <1>30. ASSUME NEW w \in Workers, RecordIntent(w) PROVE Goal
    <2>1. pc'[w] = "authorize" /\ \A v \in Workers : pc'[v] \in ExecutorSteps => v = w
      BY <1>27, <1>30 DEF RecordIntent
    <2> QED
      BY <1>30, <2>1 DEF Goal, RecordIntent, effectVars, CleanEvidence, CleanMeansUntouched
  <1>31. ASSUME NEW w \in Workers, Authorize(w) PROVE Goal
    <2>1. pc'[w] \in {"lookup", "outcome"} /\ \A v \in Workers : pc'[v] \in ExecutorSteps => v = w
      BY <1>27, <1>31 DEF Authorize
    <2>2. pc'[w] = "outcome" => res'[w] = "refused"
      BY <1>0, <1>31 DEF Authorize, Goto
    <2> QED
      BY <1>31, <2>1, <2>2 DEF Goal, Authorize, actionVars, effectVars, CleanEvidence,
         CleanMeansUntouched
  <1>32. ASSUME NEW w \in Workers, Lookup(w) PROVE Goal
    <2>1. pc'[w] \in {"claim", "outcome"} /\ \A v \in Workers : pc'[v] \in ExecutorSteps => v = w
      BY <1>27, <1>32 DEF Lookup
    <2>2. /\ pc'[w] = "outcome" => res'[w] \in {receipt, prior} \cap ToolExecutionOutcome
          /\ pc'[w] = "claim" => receipt = "none"
      BY <1>0, <1>32 DEF Lookup, Goto, KeyReceipts, TypeOK, EffectType
    <2>3. prior # "none" => effects = 0 /\ ~late
      BY <1>2 DEF AtMostOnce, Untouched
    <2> QED
      BY <1>32, <2>1, <2>2, <2>3 DEF Goal, Lookup, ToolExecutionOutcome, actionVars, effectVars, CleanEvidence,
         CleanMeansUntouched
  <1>33. ASSUME NEW w \in Workers, ClaimWrite(w) PROVE Goal
    <2>1. pc'[w] \in {"call", "outcome"} /\ \A v \in Workers : pc'[v] \in ExecutorSteps => v = w
      BY <1>27, <1>33 DEF ClaimWrite
    <2>2. pc'[w] = "outcome" => res'[w] = "refused"
      BY <1>0, <1>33 DEF ClaimWrite, Goto
    <2> QED
      BY <1>33, <2>1, <2>2 DEF Goal, ClaimWrite, actionVars, CleanEvidence,
         CleanMeansUntouched
  <1>34. ASSUME NEW w \in Workers, Dispatch(w) PROVE Goal
    <2>1. pc'[w] = "outcome" /\ \A v \in Workers : pc'[v] \in ExecutorSteps => v = w
      BY <1>27, <1>34 DEF Dispatch
    <2>2. action = "executing" /\ receipt = "none" /\ Untouched
      BY <1>2, <1>34 DEF Dispatch, CleanEvidence, CallNeedsClaim
    <2>3. res'[w] = "failed_clean" => effects' = 0 /\ ~late'
      BY <1>0, <1>34, <2>2 DEF Dispatch, Untouched
    <2> QED
      BY <1>34, <2>1, <2>2, <2>3 DEF Goal, Dispatch, actionVars, CleanEvidence,
         CleanMeansUntouched
  <1>35. ASSUME LateEffect \/ OtherAction PROVE Goal
    BY <1>35 DEF Goal, LateEffect, OtherAction, passVars, actionVars, CleanEvidence,
       CleanMeansUntouched
  <1>36. ASSUME \/ \E w \in Workers : TxLost(w)
                \/ ItemLockLost \/ Decide \/ Control \/ LeaseExpires \/ WindowCloses
                \/ Settles \/ UNCHANGED vars
         PROVE  Goal
    BY <1>36, OutsideFrame DEF Goal, CleanEvidence, CleanMeansUntouched
  <1>37. Goal
    BY <1>14, <1>15, <1>16, <1>17, <1>18, <1>19, <1>20, <1>21, <1>22, <1>23, <1>24, <1>25,
       <1>26, <1>28, <1>29, <1>30, <1>31, <1>32, <1>33, <1>34, <1>35, <1>36
       DEF Next, PassNext, Verifier, Executor, Time
  <1> QED
    BY <1>37 DEF Goal

(***************************************************************************)
(* As long as no pass outlives its lease, an action on record as clean,    *)
(* refused or not dispatched has left no trace on the target and no call   *)
(* that could still leave one, however passes crash, resume and recover.   *)
(***************************************************************************)
THEOREM CleanMeansUntouchedHolds ==
    ASSUME ~Stalls
    PROVE  Spec => []CleanMeansUntouched
  <1> DEFINE Strong == /\ LeaseDiscipline /\ AtMostOnce /\ CallNeedsClaim
                       /\ AuthorityPrecedesCall /\ CleanEvidence /\ CleanMeansUntouched
  <1>1. Init => Strong
    BY DEF Init, LeaseDiscipline, AtMostOnce, CallNeedsClaim, AuthorityPrecedesCall,
       CleanEvidence, CleanMeansUntouched, InNode, GraphNodes, ExecutorSteps
  <1>2. TypeOK /\ Strong /\ [Next]_vars => Strong'
    BY LeaseStep, AtMostOnceStep, AuthorityStep, CleanStep
  <1> QED
    BY <1>1, <1>2, TypeCorrect, PTL DEF Spec

-----------------------------------------------------------------------------
(* The contract of a guarded write.                                        *)

(***************************************************************************)
(* Every step leaves both sides of the write and its report alone, or is a *)
(* claim, the call, the late effect, another action's claim or receipt, or *)
(* the commit that reports success without touching decision, claim or     *)
(* target.                                                                 *)
(***************************************************************************)
LEMMA ContractFrame ==
    ASSUME TypeOK, [Next]_vars
    PROVE  \/ UNCHANGED <<claimed, calls, effects, prior, observed, executed>>
           \/ \E w \in Workers : ClaimWrite(w) \/ Dispatch(w)
           \/ LateEffect \/ OtherAction
           \/ /\ UNCHANGED <<verdict, approval, claimed, calls, effects, prior>>
              /\ executed' = TRUE
  <1> DEFINE Quiet == UNCHANGED <<claimed, calls, effects, prior, observed, executed>>
             Reports == /\ UNCHANGED <<verdict, approval, claimed, calls, effects, prior>>
                        /\ executed' = TRUE
             Goal == \/ Quiet \/ Reports
                     \/ \E w \in Workers : ClaimWrite(w) \/ Dispatch(w)
                     \/ LateEffect \/ OtherAction
  <1>1. ASSUME UNCHANGED effectVars, executed' = executed PROVE Goal
    BY <1>1 DEF effectVars
  <1>2. ASSUME NEW w \in Workers, Raise(w) PROVE Goal
    BY <1>1, <1>2 DEF Raise, actionVars
  <1>3. ASSUME NEW w \in Workers, NEW record, NEW confirmed, RouteSuccess(w, record, confirmed)
        PROVE  Goal
    BY <1>2, <1>3 DEF RouteSuccess, gateVars
  <1>4. ASSUME NEW w \in Workers, NEW target, NEW status, NEW record,
               FailClosed(w, target, status, record)
        PROVE  Goal
    BY <1>2, <1>4 DEF FailClosed
  <1>5. ASSUME NEW w \in Workers, ClaimWrite(w) \/ Dispatch(w) PROVE Goal
    BY <1>5
  <1>6. ASSUME LateEffect \/ OtherAction PROVE Goal
    BY <1>6
  <1> HIDE DEF Goal
  <1>7. ASSUME NEW w \in Workers,
               \/ Start(w) \/ Discover(w) \/ ClaimItem(w) \/ ResumeRead(w) \/ ResumeClaim(w)
               \/ ResumeRefused(w) \/ Suspend(w) \/ Finalise(w)
        PROVE  Goal
    BY <1>1, <1>7 DEF Start, Discover, ClaimItem, ResumeRead, ResumeClaim, ResumeRefused,
       Suspend, Finalise, actionVars
  <1>8. ASSUME NEW w \in Workers, Planner(w) \/ PolicyGate(w) PROVE Goal
    BY <1>1, <1>2, <1>8 DEF Planner, PlannerReplay, PlannerPropose, PlannerNoAction,
       PlannerTerminate, PolicyGate, PolicyReplay, PolicyEvaluate, actionVars
  <1>9. ASSUME NEW w \in Workers, ApprovalService(w) \/ Verifier(w) PROVE Goal
    BY <1>1, <1>2, <1>9 DEF ApprovalService, ApprovalWait, ApprovalExpire, ApprovalGranted,
       ApprovalRefused, Verifier, VerifierBaseline, VerifierNoBaseline, VerifierToExecutor,
       VerifierSettling, VerifierJudge, actionVars
  <1>10. ASSUME NEW w \in Workers,
                \/ ExecutorReplay(w) \/ ExecutorEvidence(w) \/ ExecutorReady(w)
                \/ RecordIntent(w) \/ Authorize(w) \/ Lookup(w) \/ Lost(w) \/ Crash(w)
                \/ NodeError(w) \/ TxLost(w)
         PROVE  Goal
    BY <1>1, <1>2, <1>10 DEF ExecutorReplay, ExecutorEvidence, ExecutorReady, RecordIntent,
       Authorize, Lookup, Lost, Crash, NodeError, TxLost, actionVars
  <1>11. ASSUME NEW w \in Workers,
                Recover(w) \/ ExecutorRefuses(w) \/ IntentRefused(w) \/ Outcome(w)
         PROVE  Goal
    BY <1>3, <1>4, <1>11 DEF Recover, Reconcile, ExecutorRefuses, IntentRefused, Outcome,
       Settle
  <1>12. ASSUME \/ ItemLockLost \/ Decide \/ Control \/ LeaseExpires \/ WindowCloses
                \/ Settles \/ UNCHANGED vars
         PROVE  Goal
    BY <1>1, <1>12 DEF ItemLockLost, Decide, Control, LeaseExpires, WindowCloses, Settles,
       vars, actionVars
  <1>13. Goal
    BY <1>5, <1>6, <1>7, <1>8, <1>9, <1>10, <1>11, <1>12 DEF Next, PassNext, Executor, Time
  <1> QED
    BY <1>13 DEF Goal

(***************************************************************************)
(* Every step of the run is a step of the contract or none.                *)
(***************************************************************************)
LEMMA ContractStep ==
    ASSUME TypeOK, TypeOK', AtMostOnce, AtMostOnce', CallNeedsClaim, AuthorityPrecedesCall,
           VerdictRestsOnEffect, VerdictRestsOnEffect', [Next]_vars
    PROVE  [Contract!Next]_(Contract!vars)
  <1> DEFINE granted == verdict = "allow" \/ approval = "approved"
             holder == IF claimed THEN "own" ELSE IF prior # "none" THEN "other" ELSE "none"
  <1>0. /\ calls \in Nat /\ effects \in Nat /\ executed \in BOOLEAN /\ late \in BOOLEAN
        /\ calls' \in Nat /\ effects' \in Nat
        /\ claimed \in BOOLEAN /\ observed \in BOOLEAN /\ Attested \in BOOLEAN
    BY DEF TypeOK, EffectType, ActionType, Attested
  <1>1. granted => granted'
    BY DecisionFrame
  <1>2. CASE UNCHANGED <<claimed, calls, effects, prior, observed, executed>>
    <2>1. UNCHANGED <<holder, Attested>>
      BY <1>2 DEF Attested
    <2> QED
      BY <1>1, <1>2, <2>1 DEF Contract!Next, Contract!Grant, Contract!vars
  <1>3. ASSUME NEW w \in Workers, ClaimWrite(w) PROVE [Contract!Next]_(Contract!vars)
    <2>1. UNCHANGED <<granted, calls, effects, executed, prior, observed, Attested>>
      BY <1>3 DEF ClaimWrite, gateVars, actionVars, Attested
    <2>2. CASE claimed \/ prior # "none"
      BY <1>3, <2>1, <2>2 DEF ClaimWrite, Contract!vars
    <2>3. CASE ~claimed /\ prior = "none"
      <3>1. holder = "none" /\ holder' = "own" /\ granted
        BY <1>3, <2>3 DEF ClaimWrite, AuthorityPrecedesCall, Authority
      <3> QED
        BY <2>1, <3>1 DEF Contract!Next, Contract!Take
    <2> QED
      BY <2>2, <2>3
  <1>4. ASSUME NEW w \in Workers, Dispatch(w) PROVE [Contract!Next]_(Contract!vars)
    <2>1. calls = 0 /\ effects = 0 /\ claimed /\ prior = "none"
      BY <1>0, <1>4 DEF Dispatch, CallNeedsClaim, AtMostOnce
    <2>2. UNCHANGED <<verdict, approval, executed, claimed, prior, observed>>
      BY <1>4 DEF Dispatch, gateVars, actionVars
    <2>3. calls' = 1 /\ effects' \in {0, 1}
      BY <1>4, <2>1 DEF Dispatch
    <2>4. Attested' = (Attested \/ effects' = 1)
      BY <1>0, <2>1, <2>2, <2>3 DEF Attested
    <2> QED
      BY <2>1, <2>2, <2>3, <2>4 DEF Contract!Next, Contract!Send
  <1>5. CASE LateEffect
    <2>1. UNCHANGED <<verdict, approval, executed, calls, claimed, prior>>
      BY <1>5 DEF LateEffect, gateVars, actionVars
    <2>2. calls = 1 /\ effects = 0 /\ effects' = 1
      BY <1>0, <1>5 DEF LateEffect, AtMostOnce
    <2>3. Attested' = TRUE
      BY <2>2 DEF Attested
    <2> QED
      BY <2>1, <2>2, <2>3 DEF Contract!Next, Contract!Apply
  <1>6. CASE OtherAction
    <2>1. UNCHANGED <<verdict, approval, executed, calls, effects, claimed, observed>> /\ ~claimed
      BY <1>6 DEF OtherAction, gateVars, actionVars, CallNeedsClaim
    <2>2. CASE prior = "none"
      <3>1. holder = "none" /\ holder' = "other" /\ UNCHANGED Attested
        BY <1>6, <2>1, <2>2 DEF OtherAction, Attested
      <3> QED
        BY <2>1, <3>1 DEF Contract!Next, Contract!Take
    <2>3. CASE prior # "none"
      <3>1. holder = "other" /\ holder' = "other"
        BY <1>6, <2>1, <2>3 DEF OtherAction, ToolExecutionOutcome
      <3>2. Attested' = TRUE \/ UNCHANGED Attested
        BY <1>6, <2>1, <2>3 DEF OtherAction, Attested
      <3> QED
        BY <2>1, <3>1, <3>2 DEF Contract!Next, Contract!Attest, Contract!vars
    <2> QED
      BY <2>2, <2>3
  <1>7. CASE /\ UNCHANGED <<verdict, approval, claimed, calls, effects, prior>>
             /\ executed' = TRUE
    <2>1. Attested' = TRUE /\ UNCHANGED holder
      BY <1>7 DEF VerdictRestsOnEffect, Attested
    <2>2. claimed \/ prior # "none"
      BY <1>0, <1>7, <2>1 DEF Attested, VerdictRestsOnEffect, AtMostOnce, CallNeedsClaim
    <2> QED
      BY <1>0, <1>7, <2>1, <2>2 DEF Contract!Next, Contract!Attest, Contract!vars
  <1> QED
    BY <1>2, <1>3, <1>4, <1>5, <1>6, <1>7, ContractFrame

(***************************************************************************)
(* The whole run - any number of workers, leases that lapse or not,        *)
(* crashes, lost transactions, late effects, another action after the same *)
(* effect - implements the contract of one guarded write: authority before *)
(* the claim, one holder of the effect, one call, at most one effect, and  *)
(* success reported only once it is attested.                              *)
(***************************************************************************)
THEOREM RefinesContractHolds == Spec => RefinesContract
  <1> DEFINE Inv == /\ AtMostOnce /\ CallNeedsClaim /\ AuthorityPrecedesCall
                    /\ EvidenceIsSound /\ VerdictRestsOnEffect
  <1>1. Init => Contract!Init
    BY DEF Init, Contract!Init, Attested
  <1>2. Init => Inv
    BY DEF Init, AtMostOnce, CallNeedsClaim, AuthorityPrecedesCall, EvidenceIsSound,
       VerdictRestsOnEffect, Interrupted, ExecutorSteps
  <1>3. TypeOK /\ Inv /\ [Next]_vars => Inv'
    BY AtMostOnceStep, AuthorityStep, EvidenceStep
  <1>4. TypeOK /\ TypeOK' /\ Inv /\ Inv' /\ [Next]_vars => [Contract!Next]_(Contract!vars)
    BY ContractStep
  <1> QED
    BY <1>1, <1>2, <1>3, <1>4, TypeCorrect, PTL DEF Spec, RefinesContract, Contract!Spec
=============================================================================
