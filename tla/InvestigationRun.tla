------------------------- MODULE InvestigationRun -------------------------
(***************************************************************************)
(* One investigation request: the dispatcher that turns it into a run, the *)
(* kernel that drives, checkpoints and resumes the run, the four nodes of  *)
(* its loop, the reservation of model calls, and the workers, people and   *)
(* faults around it.                                                       *)
(*                                                                         *)
(* A pass is one worker's traversal of the graph.  Every node commits its  *)
(* rows, its checkpoint and the run's ledger in one transaction, so a node *)
(* is one step, except that a model call is reserved, made and settled in  *)
(* transactions of its own.                                                *)
(***************************************************************************)
EXTENDS InvestigationRules, NodeContracts, IncidentState

CONSTANTS
    Workers,           \* slots of worker processes
    Menu,              \* evidence domains that are granted to the run
    KnowledgeDomains,  \* those whose answers must prove their manifest
    PlannerOutputs,    \* what the model may answer the planner
    HypothesisOutputs, \* what the model may answer the hypothesis engine
    ProviderFailures,  \* how a provider may fail: transient, permanent
    EvidenceQuality,   \* what every record scores, in percent
    Policy,            \* the run's budget, a limit for each dimension
    MaxAttempts,       \* ASIC_WORKER_MAX_ATTEMPTS
    MaxIteration,      \* steps a pass may count to; overlapping passes reset
                       \* each other's ledgers and have no bound of their own
    MaxFaults,         \* how many faults may happen
    MaxStallIteration, \* how many steps a pass has counted when it stalls
    MaxControls,       \* how often people may move the incident
    MaxDisturbances,   \* how many of both may happen in all
    None, Dead         \* no owner; a pass that no longer exists

\* What is left of an answer's drafts without those that cite unknown records.
KnownDrafts(drafts) == SelectSeq(drafts, LAMBDA d : d.known)

ASSUME PolicyAssumption == Policy \in [DOMAIN NoCharge -> Nat \ {0}]
ASSUME BoundsAssumption ==
    {MaxAttempts, MaxIteration, MaxFaults, MaxStallIteration, MaxControls, MaxDisturbances}
        \subseteq Nat
\* An answer that does not fit its schema counts as no answer.
ASSUME OutputsAssumption ==
    /\ \A o \in PlannerOutputs : o.valid => o.action \in PlannerAction
    /\ \A o \in HypothesisOutputs : o.valid =>
           LET known == KnownDrafts(o.drafts)
           IN  /\ o.reflection.action \in ReflectionAction
               /\ known \in Seq({known[i] : i \in DOMAIN known})
               /\ \A i \in DOMAIN known :
                     known[i].claim \in 0 .. 100 /\ known[i].cites \in Nat
ASSUME QualityAssumption == EvidenceQuality \in 0 .. 100
ASSUME FailuresAssumption == ProviderFailures \subseteq {"transient", "permanent"}
ASSUME OwnersAssumption == {None, Dead} \cap Workers = {} /\ None # Dead

VARIABLES
    dispatch,   \* the investigation_dispatch row
    incident,   \* incident.status
    run,        \* the workflow_run row: status, lease, ledger
    ckpt,       \* the latest workflow_checkpoint
    steps,      \* the investigation_step rows; a completed one has evidence
    execs,      \* the tool_execution row of a domain's query
    hyps,       \* the hypothesis rows
    resv,       \* the model_call_reservation rows, a function of their keys
    pc, st,     \* where each pass is, and its graph state
    itemLock,   \* the advisory lock on the work item
    late,       \* the run is older than its wall-clock budget
    calls,      \* the keys the provider was called for, in their order
    lost,       \* how many passes ended inside the graph, by death or exception
    started,    \* how many runs were opened
    stalled,    \* a worker lost the item lock it worked under
    verdict,    \* the incident status the run was completed with
    faults, controls

rows == <<steps, execs, hyps>>
history == <<calls, lost, started, stalled, verdict>>
budgets == <<faults, controls>>
vars == <<dispatch, incident, run, ckpt, steps, execs, hyps, resv, pc, st, itemLock,
          late, calls, lost, started, stalled, verdict, faults, controls>>

---------------------------------------------------------------------------
\* The ephemeral keys a checkpoint carries.
EphemeralKeys ==
    {"iteration", "gaps", "degraded", "decision", "reflection", "ledger",
     "refusal", "terminated", "target"}

NoDecision == [action |-> "none", domain |-> "none", gap |-> "none"]

\* Answers are records; one that fails its schema is not valid.
NoResponse == [valid |-> FALSE]

InitialState ==
    [iteration |-> 0, gaps |-> {}, degraded |-> {}, decision |-> NoDecision,
     reflection |-> "none", ledger |-> NoCharge, refusal |-> FALSE,
     terminated |-> FALSE, target |-> "none",
     steps |-> <<>>, hyps |-> <<>>, covered |-> {}, unrecoverable |-> FALSE,
     call |-> "ask", attempt |-> 1, spent |-> 0, response |-> NoResponse,
     opened |-> FALSE]

serialise(s) == [k \in EphemeralKeys |-> s[k]]

NoReservation == [status |-> "none", response |-> NoResponse]

Nodes ==
    {"coordinator", "planner", "evidence_collector", "hypothesis_engine", "terminator", "end"}

Init ==
    /\ dispatch = [status |-> "pending", linked |-> FALSE, attempts |-> 0]
    /\ incident = "detected"
    /\ run = [status |-> "none", owner |-> None, expired |-> FALSE,
              ledger |-> NoCharge]
    /\ ckpt = serialise(InitialState)
    /\ steps = <<>> /\ hyps = <<>>
    /\ execs = [d \in Menu |-> "none"]
    /\ resv = [k \in {} |-> NoReservation]
    /\ pc = [w \in Workers |-> "idle"]
    /\ st = [w \in Workers |-> InitialState]
    /\ itemLock = None
    /\ late = FALSE
    /\ calls = <<>> /\ lost = 0
    /\ started = 0 /\ stalled = FALSE
    /\ verdict = "none"
    /\ faults = 0 /\ controls = 0

---------------------------------------------------------------------------

\* The worker.
stranded == run.status = "running" /\ (run.owner = None \/ run.expired)

Discoverable ==
    \/ dispatch.status = "pending" /\ dispatch.attempts < MaxAttempts
    \/ dispatch.status = "completed" /\ dispatch.linked /\ stranded

Goto(w, node) == pc' = [pc EXCEPT ![w] = node]

\* The item is done with: its lock is released, the pass's state is gone.
Leave(w) ==
    /\ Goto(w, "idle")
    /\ st' = [st EXCEPT ![w] = InitialState]
    /\ itemLock' = IF itemLock = w THEN None ELSE itemLock

Discover(w) ==
    /\ pc[w] = "idle"
    /\ Discoverable
    /\ Goto(w, "found")
    /\ UNCHANGED <<dispatch, incident, run, ckpt, rows, resv, st, itemLock,
                   late, history, budgets>>

ClaimItem(w) ==
    /\ pc[w] = "found"
    /\ \/ itemLock = None /\ itemLock' = w /\ Goto(w, "claimed")
       \/ itemLock # None /\ Goto(w, "idle") /\ UNCHANGED itemLock
    /\ UNCHANGED <<dispatch, incident, run, ckpt, rows, resv, st, late,
                   history, budgets>>

---------------------------------------------------------------------------
\* The dispatcher.

(***************************************************************************)
(* The first transaction of dispatch: answer a settled request, give up on *)
(* a terminal incident, count an attempt, or note the link.                *)
(***************************************************************************)
Dispatch(w) ==
    /\ pc[w] = "claimed"
    /\ \/ /\ dispatch.status = "terminal"
          /\ Leave(w)
          /\ UNCHANGED dispatch
       \/ /\ dispatch.status # "terminal"
          /\ ~dispatch.linked
          /\ incident \in TERMINAL_STATES
          /\ dispatch' = [dispatch EXCEPT !.attempts = @ + 1, !.status = "terminal"]
          /\ Leave(w)
       \/ /\ dispatch.status # "terminal"
          /\ ~dispatch.linked
          /\ incident \notin TERMINAL_STATES
          /\ dispatch' = [dispatch EXCEPT !.attempts = @ + 1]
          /\ Goto(w, "starting")
          /\ UNCHANGED <<st, itemLock>>
       \/ /\ dispatch.status # "terminal"
          /\ dispatch.linked
          /\ dispatch' = [dispatch EXCEPT !.status = "completed"]
          /\ Goto(w, "linked")
          /\ UNCHANGED <<st, itemLock>>
    /\ UNCHANGED <<incident, run, ckpt, rows, resv, late, history, budgets>>

\* Mutant: the link is not looked at again under the row's lock.
Start_unlocked(w) ==
    /\ pc[w] = "starting"
    /\ incident \notin TERMINAL_STATES
    /\ dispatch' = [dispatch EXCEPT !.linked = TRUE]
    /\ run' = [status |-> "running", owner |-> w, expired |-> FALSE,
               ledger |-> NoCharge]
    /\ started' = started + 1
    /\ incident' = "investigating"
    /\ ckpt' = serialise(InitialState)
    /\ st' = [st EXCEPT ![w] = [InitialState EXCEPT !.opened = TRUE]]
    /\ Goto(w, "coordinator")
    /\ UNCHANGED <<rows, resv, itemLock, late, calls, lost, stalled, verdict, budgets>>

(***************************************************************************)
(* Opening the run: under the dispatch row's lock the run, its link, the   *)
(* incident's transition and the first checkpoint commit together.         *)
(***************************************************************************)
Start(w) ==
    /\ pc[w] = "starting"
    /\ ~dispatch.linked
    /\ incident \notin TERMINAL_STATES
    /\ dispatch' = [dispatch EXCEPT !.linked = TRUE]
    /\ run' = [status |-> "running", owner |-> w, expired |-> FALSE,
               ledger |-> NoCharge]
    /\ started' = started + 1
    /\ incident' = "investigating"
    /\ ckpt' = serialise(InitialState)
    /\ st' = [st EXCEPT ![w] = [InitialState EXCEPT !.opened = TRUE]]
    /\ Goto(w, "coordinator")
    /\ UNCHANGED <<rows, resv, itemLock, late, calls, lost, stalled, verdict, budgets>>

\* Another dispatcher was first, or the incident ended meanwhile.
StartRefused(w) ==
    /\ pc[w] = "starting"
    /\ \/ dispatch.linked /\ Goto(w, "linked")
       \/ ~dispatch.linked /\ incident \in TERMINAL_STATES /\ Goto(w, "failed")
    /\ UNCHANGED <<dispatch, incident, run, ckpt, rows, resv, st, itemLock,
                   late, history, budgets>>

FollowLink(w) ==
    /\ pc[w] = "linked"
    /\ dispatch' = [dispatch EXCEPT !.status = "completed"]
    /\ \/ run.status = "completed" /\ Leave(w)
       \/ run.status # "completed" /\ Goto(w, "resuming") /\ UNCHANGED <<st, itemLock>>
    /\ UNCHANGED <<incident, run, ckpt, rows, resv, late, history, budgets>>

(***************************************************************************)
(* The except branch: a linked request is completed however its run went;  *)
(* an unlinked one ends with its incident or stays pending for a retry.    *)
(***************************************************************************)
DispatchFailed(w) ==
    /\ pc[w] = "failed"
    /\ dispatch' =
          [dispatch EXCEPT !.status =
              CASE dispatch.linked -> "completed"
                [] ~dispatch.linked /\ incident \in TERMINAL_STATES -> "terminal"
                [] OTHER -> @]
    /\ Leave(w)
    /\ UNCHANGED <<incident, run, ckpt, rows, resv, late, history, budgets>>

MarkCompleted(w) ==
    /\ pc[w] = "mark"
    /\ dispatch' = [dispatch EXCEPT !.status = "completed"]
    /\ Leave(w)
    /\ UNCHANGED <<incident, run, ckpt, rows, resv, late, history, budgets>>

---------------------------------------------------------------------------
\* The kernel.

LeaseClaimable == run.owner = None \/ run.expired

\* Every hypothesis row in the order of creation, superseded ones too.
_load_hypotheses == hyps

(***************************************************************************)
(* Rehydration: rows for facts, the checkpoint for the rest.  Every step's *)
(* domain counts as covered, whatever became of the step; failures and the *)
(* state of a model call are not carried over.                             *)
(***************************************************************************)
rehydrate ==
    [k \in DOMAIN InitialState |->
        CASE k \in EphemeralKeys -> ckpt[k]
          [] k = "steps"   -> steps
          [] k = "hyps"    -> _load_hypotheses
          [] k = "covered" -> {steps[i].domain : i \in DOMAIN steps}
          [] OTHER -> InitialState[k]]

(***************************************************************************)
(* Resuming refuses a completed run but not a dead-lettered one; the lease *)
(* is taken by one conditional update.                                     *)
(***************************************************************************)
Resume(w) ==
    /\ pc[w] = "resuming"
    /\ run.status # "completed"
    /\ LeaseClaimable
    /\ run' = [run EXCEPT !.status = "running", !.owner = w, !.expired = FALSE]
    /\ st' = [st EXCEPT ![w] = rehydrate]
    /\ Goto(w, "coordinator")
    /\ UNCHANGED <<dispatch, incident, ckpt, rows, resv, itemLock, late,
                   history, budgets>>

ResumeRefused(w) ==
    /\ pc[w] = "resuming"
    /\ \/ run.status = "completed" /\ Goto(w, "failed") /\ UNCHANGED <<st, itemLock>>
       \/ run.status # "completed" /\ ~LeaseClaimable /\ Leave(w)
    /\ UNCHANGED <<dispatch, incident, run, ckpt, rows, resv, late, history,
                   budgets>>

\* Checkpoints are appended under the run row's lock; the latest one counts.
WriteCheckpoint(s) == ckpt' = serialise(s)

\* The lease is renewed whoever holds it, and the ledger is overwritten with the
\* pass's own.
_record_progress(s) == run' = [run EXCEPT !.ledger = s.ledger, !.expired = FALSE]

\* What the graph calls the parts of a pass's state.
StateKey ==
    [iteration |-> "iteration", gaps |-> "open_gaps", degraded |-> "degraded_domains",
     decision |-> "last_decision", reflection |-> "reflection_decision",
     ledger |-> "budget", refusal |-> "budget_refusal", terminated |-> "terminated",
     target |-> "terminal_incident_status", steps |-> "steps", hyps |-> "hypotheses",
     covered |-> "covered_domains", unrecoverable |-> "failures"]

OutOfReach ==
    [n \in Nodes \ {"end"} |->
        {f \in DOMAIN StateKey : ~validate_update(contract_for(n), {StateKey[f]})}]

\* What a node changed is what its contract lets it write; otherwise the update
\* is refused and the node never gets past its boundary.
_validate(node, before, after) == \A f \in OutOfReach[node] : before[f] = after[f]

(***************************************************************************)
(* A node boundary: checkpoint, ledger and lease in the node's own         *)
(* transaction.                                                            *)
(***************************************************************************)
CommitNode(w, s, next) ==
    /\ _validate(pc[w], st[w], s)
    /\ WriteCheckpoint(s)
    /\ _record_progress(s)
    /\ st' = [st EXCEPT ![w] = [s EXCEPT !.call = "ask", !.attempt = 1,
                                         !.spent = 0, !.response = NoResponse]]
    /\ Goto(w, next)
    /\ UNCHANGED <<dispatch, incident, resv, itemLock, late, history, budgets>>

Headroom(s, cost) == require_headroom(s.ledger, cost, late, Policy)

(***************************************************************************)
(* The terminal transition is applied if the table has such an edge for    *)
(* anybody; if the edge is not the system's, finalising raises.            *)
(***************************************************************************)
Applicable(target) == target # incident /\ Permitted(incident, target)

SystemMay(target) == assert_transition_allowed(incident, target, "system", TRUE, FALSE)

Finalise(w) ==
    LET target == st[w].target
    IN  /\ pc[w] = "end"
        /\ Applicable(target) => SystemMay(target)
        /\ incident' = IF Applicable(target) THEN target ELSE incident
        /\ run' = [run EXCEPT !.status = "completed", !.owner = None,
                              !.expired = FALSE, !.ledger = st[w].ledger]
        /\ verdict' = target
        /\ \/ st[w].opened /\ Goto(w, "mark") /\ UNCHANGED <<st, itemLock>>
           \/ ~st[w].opened /\ Leave(w)
        /\ UNCHANGED <<dispatch, ckpt, rows, resv, late, calls, lost, started, stalled,
                       budgets>>

\* The lease of a pass that ended without releasing it belongs to nobody.
AbandonLease(w) ==
    run' = [run EXCEPT !.owner = IF @ = w THEN Dead ELSE @]

FinaliseRaises(w) ==
    /\ pc[w] = "end"
    /\ Applicable(st[w].target) /\ ~SystemMay(st[w].target)
    /\ AbandonLease(w)
    /\ Goto(w, "failed")
    /\ UNCHANGED <<dispatch, incident, ckpt, rows, resv, st, itemLock, late,
                   history, budgets>>

\* An exception out of a node: rolled back, dead-lettered, reported.
DeadLetter(w) ==
    /\ run' = [run EXCEPT !.status = "dead_lettered", !.owner = None,
                          !.expired = FALSE]
    /\ st' = [st EXCEPT ![w] = InitialState]
    /\ Goto(w, "failed")
    /\ lost' = lost + 1
    /\ UNCHANGED <<dispatch, incident, ckpt, rows, resv, itemLock, late, calls, started,
                   stalled, verdict>>

---------------------------------------------------------------------------
\* The nodes.

Coordinator(w) ==
    /\ pc[w] = "coordinator"
    /\ LET s == st[w]
       IN  CommitNode(w, [s EXCEPT !.gaps = IF @ = {} THEN {"cause"} ELSE @],
                      "planner")
    /\ UNCHANGED rows

Iteration == [NoCharge EXCEPT !.iterations = 1]
Tokens(n) == [NoCharge EXCEPT !.tokens = n]
ToolCalls(n) == [NoCharge EXCEPT !.tool_calls = n]

\* What the pass's ledger holds while its node asks the model.
ChargedLedger(w) ==
    LET s == charge(st[w].ledger, Tokens(st[w].spent))
    IN  IF pc[w] = "planner" THEN charge(s, Iteration) ELSE s

InvocationKey(w) == <<pc[w], st[w].iteration, st[w].attempt>>

Reservation(key) == IF key \in DOMAIN resv THEN resv[key] ELSE NoReservation

EvidenceCount(s) == Cardinality({i \in DOMAIN s.steps : s.steps[i].status = "completed"})

\* The node is at a model call: the planner has an iteration left, the
\* hypothesis engine has evidence.
AsksModel(w) ==
    \/ pc[w] = "planner" /\ Headroom(st[w], Iteration)
    \/ pc[w] = "hypothesis_engine" /\ EvidenceCount(st[w]) > 0

SetCall(w, call) == st' = [st EXCEPT ![w].call = call]

(***************************************************************************)
(* The call fits the pass's own budget: look for a reservation.            *)
(***************************************************************************)
Lookup(w) ==
    /\ st[w].call = "ask"
    /\ AsksModel(w)
    /\ st[w].iteration <= MaxIteration
    /\ require_headroom(ChargedLedger(w), Tokens(1), late, Policy)
    /\ LET r == Reservation(InvocationKey(w))
       IN  \/ r.status = "none" /\ SetCall(w, "reserve")
           \/ /\ r.status = "completed"
              /\ st' = [st EXCEPT ![w].call = "answer", ![w].response = r.response]
           \/ r.status = "reserved" /\ SetCall(w, "permanent")
    /\ UNCHANGED <<dispatch, incident, run, ckpt, rows, resv, pc, itemLock, late,
                   history, budgets>>

\* The rows with a reservation of the key among them.
Reserved(key) ==
    [k \in DOMAIN resv \cup {key} |->
        IF k \in DOMAIN resv THEN resv[k] ELSE [NoReservation EXCEPT !.status = "reserved"]]

\* Mutant: the key of a reservation is not unique.
Reserve_shared(w) ==
    /\ st[w].call = "reserve"
    /\ run' = [run EXCEPT !.ledger = charge(@, Tokens(1))]
    /\ resv' = Reserved(InvocationKey(w))
    /\ SetCall(w, "call")
    /\ UNCHANGED <<dispatch, incident, ckpt, rows, pc, itemLock, late, history, budgets>>

(***************************************************************************)
(* Reserving charges the run's row under its lock.  A second reservation   *)
(* of the key violates its uniqueness and takes the node down.             *)
(***************************************************************************)
Reserve(w) ==
    /\ st[w].call = "reserve"
    /\ \/ /\ ~require_headroom(run.ledger, Tokens(1), late, Policy)
          /\ SetCall(w, "exhausted")
          /\ UNCHANGED <<dispatch, incident, run, ckpt, rows, resv, pc, itemLock,
                         late, history>>
       \/ /\ require_headroom(run.ledger, Tokens(1), late, Policy)
          /\ InvocationKey(w) \notin DOMAIN resv
          /\ run' = [run EXCEPT !.ledger = charge(@, Tokens(1))]
          /\ resv' = Reserved(InvocationKey(w))
          /\ SetCall(w, "call")
          /\ UNCHANGED <<dispatch, incident, ckpt, rows, pc, itemLock, late, history>>
       \/ /\ require_headroom(run.ledger, Tokens(1), late, Policy)
          /\ InvocationKey(w) \in DOMAIN resv
          /\ DeadLetter(w)
    /\ UNCHANGED budgets

Outputs(node) == IF node = "planner" THEN PlannerOutputs ELSE HypothesisOutputs

\* The provider answers or fails; a failed call leaves its reservation.
CallProvider(w) ==
    /\ st[w].call = "call"
    /\ calls' = Append(calls, InvocationKey(w))
    /\ \/ \E r \in Outputs(pc[w]) :
              st' = [st EXCEPT ![w].call = "settle", ![w].response = r]
       \/ \E failure \in ProviderFailures : SetCall(w, failure)
    /\ UNCHANGED <<dispatch, incident, run, ckpt, rows, resv, pc, itemLock, late,
                   lost, started, stalled, verdict, budgets>>

Settle(w) ==
    /\ st[w].call = "settle"
    /\ resv' = IF resv[InvocationKey(w)].status = "completed" THEN resv
               ELSE [resv EXCEPT ![InvocationKey(w)] =
                        [status |-> "completed", response |-> st[w].response]]
    /\ SetCall(w, "answer")
    /\ UNCHANGED <<dispatch, incident, run, ckpt, rows, pc, itemLock, late, history,
                   budgets>>

\* An answer that fails its schema is asked for once more.
Repair(w) ==
    /\ st[w].call = "answer"
    /\ ~st[w].response.valid
    /\ st' = [st EXCEPT ![w].spent = @ + 1,
                        ![w].attempt = Least(2, st[w].attempt + 1),
                        ![w].call = IF st[w].attempt = 1 THEN "ask" ELSE "schema"]
    /\ UNCHANGED <<dispatch, incident, run, ckpt, rows, resv, pc, itemLock, late,
                   history, budgets>>

\* How asking the model can fail the node.
BudgetRefusesCall(w) ==
    \/ st[w].call = "exhausted"
    \/ /\ st[w].call = "ask"
       /\ ~require_headroom(ChargedLedger(w), Tokens(1), late, Policy)

CallFailed(w) == st[w].call \in {"schema", "transient", "permanent"}

(***************************************************************************)
(* The planner.  Without budget it proposes to stop and notes the refusal; *)
(* with a failed call it proposes to stop and takes over the durable       *)
(* ledger, in which its iteration is not charged.                          *)
(***************************************************************************)
Terminate == [NoDecision EXCEPT !.action = "terminate"]

PlannerRefused(w) ==
    /\ pc[w] = "planner"
    /\ LET s == st[w]
       IN  \/ /\ s.call = "ask" /\ s.attempt = 1
              /\ ~Headroom(s, Iteration)
              /\ CommitNode(w, [s EXCEPT !.decision = Terminate, !.refusal = TRUE],
                            "terminator")
           \/ /\ Headroom(s, Iteration) \/ s.attempt > 1 \/ s.call # "ask"
              /\ BudgetRefusesCall(w)
              /\ CommitNode(w, [s EXCEPT !.decision = Terminate, !.refusal = TRUE,
                                         !.ledger = charge(@, Iteration)],
                            "terminator")
    /\ UNCHANGED rows

PlannerFails(w) ==
    /\ pc[w] = "planner"
    /\ CallFailed(w)
    /\ CommitNode(w, [st[w] EXCEPT !.decision = Terminate,
                                   !.ledger = run.ledger,
                                   !.unrecoverable = @ \/ st[w].call = "permanent"],
                  "terminator")
    /\ UNCHANGED rows

(***************************************************************************)
(* A collection is turned into reasoning when it names no domain of the    *)
(* menu, or a domain already tried for the same gap.                       *)
(***************************************************************************)
apply_guards(d, s) ==
    IF /\ d.action = "collect_evidence"
       /\ \/ d.domain \notin Menu
          \/ /\ d.domain \in s.covered \cup s.degraded
             /\ \E i \in DOMAIN s.steps : s.steps[i].gap = d.gap
    THEN [d EXCEPT !.action = "form_hypothesis"]
    ELSE d

NodeAfter(action) ==
    CASE action = "collect_evidence" -> "evidence_collector"
      [] action = "form_hypothesis"  -> "hypothesis_engine"
      [] action = "terminate"        -> "terminator"

Planned(d) == [domain |-> d.domain, gap |-> d.gap, status |-> "planned"]

(***************************************************************************)
(* The planner's step row carries the number the pass counted itself; a    *)
(* number another pass has used takes the node down.                       *)
(***************************************************************************)
Planner(w) ==
    LET s == st[w]
        d == apply_guards([action |-> s.response.action, domain |-> s.response.domain,
                           gap |-> s.response.gap], s)
        t == [s EXCEPT !.decision = d,
                       !.iteration = @ + 1,
                       !.ledger = charge(charge(@, Iteration), Tokens(s.spent + 1))]
        collects == d.action = "collect_evidence"
    IN  /\ pc[w] = "planner"
        /\ s.call = "answer" /\ s.response.valid
        /\ \/ /\ ~collects
              /\ CommitNode(w, t, NodeAfter(d.action))
              /\ UNCHANGED rows
           \/ /\ collects
              /\ Len(s.steps) = Len(steps)
              /\ steps' = Append(steps, Planned(d))
              /\ CommitNode(w, [t EXCEPT !.steps = Append(@, Planned(d)),
                                         !.gaps = @ \ {d.gap}],
                            NodeAfter(d.action))
              /\ UNCHANGED <<execs, hyps>>
           \/ /\ collects
              /\ Len(s.steps) < Len(steps)
              /\ DeadLetter(w)
              /\ UNCHANGED budgets

(***************************************************************************)
(* Evidence.  The query of a domain is the same for every gap, and a query *)
(* that was executed before is answered from its record: free of charge,   *)
(* empty, and with the recorded outcome.  The domain is degraded without a *)
(* charge if the broker refuses by raising, and with one if the source did *)
(* not answer or the manifest of a knowledge answer does not hold.         *)
(***************************************************************************)
Degrade(w, s) ==
    LET last == Len(s.steps)
        d == s.decision.domain
    IN  /\ steps' = [steps EXCEPT ![last].status = "degraded"]
        /\ CommitNode(w, [s EXCEPT !.degraded = @ \cup {d},
                                   !.steps[last].status = "degraded"],
                      "terminator")

EvidenceRefused(w) ==
    /\ pc[w] = "evidence_collector"
    /\ ~Headroom(st[w], ToolCalls(1))
    /\ Degrade(w, [st[w] EXCEPT !.refusal = TRUE])
    /\ UNCHANGED <<execs, hyps>>

Evidence(w) ==
    LET s == st[w]
        d == s.decision.domain
        last == Len(s.steps)
        again == execs[d] # "none"
        paid == [s EXCEPT !.ledger = charge(@, ToolCalls(IF again THEN 0 ELSE 1))]
    IN  /\ pc[w] = "evidence_collector"
        /\ Headroom(s, ToolCalls(1))
        /\ \/ Degrade(w, s) /\ UNCHANGED execs
           \/ \E outcome \in (IF again THEN {execs[d]} ELSE {"succeeded", "failed"}) :
                 /\ execs' = [execs EXCEPT ![d] = outcome]
                 /\ \/ /\ outcome = "failed" \/ d \in KnowledgeDomains
                       /\ Degrade(w, paid)
                    \/ /\ outcome = "succeeded"
                       /\ steps' = [steps EXCEPT ![last].status = "completed"]
                       /\ CommitNode(w, [paid EXCEPT !.covered = @ \cup {d},
                                                     !.steps[last].status = "completed"],
                                     "terminator")
        /\ UNCHANGED hyps

(***************************************************************************)
(* The hypothesis engine.  A draft cites some of the records as support,   *)
(* and perhaps one as contradicting it, which does not count as support;   *)
(* one that cites a record that does not exist is dropped.  What it claims *)
(* is cut to the ceiling.                                                  *)
(***************************************************************************)
Persisted(draft, s, rank, id) ==
    LET contra == IF draft.contradicted THEN 1 ELSE 0
        support == Least(draft.cites, EvidenceCount(s) - contra)
    IN  [id |-> id, rank |-> rank, status |-> "proposed",
         support |-> support, contra |-> contra,
         confidence |-> Least(draft.claim, confidence_ceiling(support, contra, EvidenceQuality))]

Accepted(drafts, s) ==
    LET known == KnownDrafts(drafts)
    IN  [i \in DOMAIN known |->
            Persisted(known[i], s, Len(s.hyps) + i, Len(hyps) + i)]

RemainingGaps(drafts) == UNION {drafts[i].gaps : i \in {j \in DOMAIN drafts : drafts[j].known}}

\* The first of the most confident hypotheses of a list.
Strongest(list) ==
    list[CHOOSE i \in DOMAIN list :
            \A j \in DOMAIN list :
                \/ list[j].confidence < list[i].confidence
                \/ list[j].confidence = list[i].confidence /\ i <= j]

\* The proposal's target: an earlier hypothesis, the strongest new one, or none.
resolve_target(target, s, accepted) ==
    CASE target = "latest" /\ accepted # <<>> -> Strongest(accepted).id
      [] target = "prior" /\ s.hyps # <<>>    -> s.hyps[1].id
      [] OTHER -> 0

Superseded(list, id) ==
    [i \in DOMAIN list |-> IF list[i].id = id THEN [list[i] EXCEPT !.status = "superseded"]
                           ELSE list[i]]

\* The engine without evidence does nothing; a failed call is recoverable.
HypothesisSkipped(w) ==
    /\ pc[w] = "hypothesis_engine"
    /\ \/ /\ st[w].call = "ask" /\ EvidenceCount(st[w]) = 0
          /\ CommitNode(w, st[w], "terminator")
       \/ /\ EvidenceCount(st[w]) > 0
          /\ BudgetRefusesCall(w) \/ CallFailed(w)
          /\ CommitNode(w, [st[w] EXCEPT !.ledger = run.ledger], "terminator")
    /\ UNCHANGED rows

\* The model's proposal, judged over the earlier and the new hypotheses.
_reflect(s, accepted, gaps) ==
    LET proposal == [s.response.reflection EXCEPT
                        !.target = resolve_target(@, s, accepted)]
    IN  decide_reflection(proposal, s.hyps \o accepted,
                          {accepted[i].id : i \in DOMAIN accepted}, gaps,
                          s.covered, s.degraded)

(***************************************************************************)
(* A revision supersedes its target in the rows and asserts that once more *)
(* in the state's list; a target that was accepted only now is not found   *)
(* among the earlier ones, which takes the node down.                      *)
(***************************************************************************)
Hypothesise(w) ==
    LET s == st[w]
        accepted == Accepted(s.response.drafts, s)
        fresh == {accepted[i].id : i \in DOMAIN accepted}
        gaps == s.gaps \cup RemainingGaps(s.response.drafts)
        v == _reflect(s, accepted, gaps)
        revises == v.action = "revise_hypothesis"
        update == accepted \o
                  (IF revises THEN <<[FirstEntry(s.hyps, v.target) EXCEPT !.status = "superseded"]>>
                   ELSE <<>>)
    IN  /\ pc[w] = "hypothesis_engine"
        /\ s.call = "answer" /\ s.response.valid
        /\ \/ /\ revises /\ v.target \in fresh
              /\ DeadLetter(w)
              /\ UNCHANGED budgets
           \/ /\ ~(revises /\ v.target \in fresh)
              /\ hyps' = Superseded(hyps \o accepted, IF revises THEN v.target ELSE 0)
              /\ CommitNode(w, [s EXCEPT !.hyps = @ \o update,
                                         !.reflection = v.action,
                                         !.gaps = gaps \cup ({v.gap} \ {"none"}),
                                         !.ledger = charge(@, Tokens(s.spent + 1))],
                            "terminator")
              /\ UNCHANGED <<steps, execs>>

\* The terminator: the deterministic rules over the pass's state.
Terminator(w) ==
    LET s == st[w]
        status == decide([unrecoverable |-> s.unrecoverable,
                          exhausted |-> exhausted_kinds(s.ledger, late, Policy) # {},
                          refusal |-> s.refusal,
                          stop |-> WantsToStop(s.decision.action, s.reflection),
                          actionable |-> is_actionable(s.hyps, s.covered, s.degraded)])
    IN  /\ pc[w] = "terminator"
        /\ CommitNode(w, [s EXCEPT !.terminated = status # "none",
                                   !.target = IF status = "none" THEN @ ELSE status],
                      IF status = "none" THEN "planner" ELSE "end")
        /\ UNCHANGED rows

---------------------------------------------------------------------------
\* Faults and people.

Working(w) == pc[w] # "idle"
InNode(w) == pc[w] \in Nodes \ {"end"}

Undisturbed == faults + controls < MaxDisturbances

Fault ==
    /\ faults < MaxFaults /\ Undisturbed
    /\ faults' = faults + 1

\* A node raises: the database, a provider or a contract check fails it.
NodeRaises(w) ==
    /\ InNode(w)
    /\ Fault
    /\ DeadLetter(w)
    /\ UNCHANGED controls

\* The process dies; its lease runs on and its item lock is dropped.
Crash(w) ==
    /\ Working(w)
    /\ Fault
    /\ Leave(w)
    /\ AbandonLease(w)
    /\ lost' = IF pc[w] \in Nodes THEN lost + 1 ELSE lost
    /\ UNCHANGED <<dispatch, incident, ckpt, rows, resv, late, calls, started, stalled,
                   verdict, controls>>

(***************************************************************************)
(* The pass stalls and goes on later: the session that held the item's     *)
(* lock is lost, and its lease may run out meanwhile.                      *)
(***************************************************************************)
Stall(w) ==
    /\ itemLock = w
    /\ st[w].iteration <= MaxStallIteration
    /\ Fault
    /\ itemLock' = None
    /\ stalled' = TRUE
    /\ \E expired \in {run.expired, run.expired \/ run.owner = w} :
          run' = [run EXCEPT !.expired = expired]
    /\ UNCHANGED <<dispatch, incident, ckpt, rows, resv, pc, st, late, calls, lost,
                   started, verdict, controls>>

\* The lease of a pass that is gone runs out.
LeaseExpires ==
    /\ run.owner = Dead /\ ~run.expired
    /\ run' = [run EXCEPT !.expired = TRUE]
    /\ UNCHANGED <<dispatch, incident, ckpt, rows, resv, pc, st, itemLock, late,
                   history, budgets>>

TimeUp ==
    /\ run.status # "none" /\ ~late
    /\ late' = TRUE
    /\ UNCHANGED <<dispatch, incident, run, ckpt, rows, resv, pc, st, itemLock,
                   history, budgets>>

\* A person escalates, closes or otherwise moves the incident.
HumanMoves(target) ==
    /\ controls < MaxControls /\ Undisturbed
    /\ assert_transition_allowed(incident, target, "human", TRUE, TRUE)
    /\ incident' = target
    /\ controls' = controls + 1
    /\ UNCHANGED <<dispatch, run, ckpt, rows, resv, pc, st, itemLock, late, history,
                   faults>>

Pass(w) ==
    \/ Discover(w) \/ ClaimItem(w) \/ Dispatch(w) \/ Start(w) \/ StartRefused(w)
    \/ FollowLink(w) \/ DispatchFailed(w) \/ MarkCompleted(w)
    \/ Resume(w) \/ ResumeRefused(w)
    \/ Coordinator(w)
    \/ Lookup(w) \/ Reserve(w) \/ CallProvider(w) \/ Settle(w) \/ Repair(w)
    \/ PlannerRefused(w) \/ PlannerFails(w) \/ Planner(w)
    \/ EvidenceRefused(w) \/ Evidence(w)
    \/ HypothesisSkipped(w) \/ Hypothesise(w)
    \/ Terminator(w) \/ Finalise(w) \/ FinaliseRaises(w)

Next ==
    \/ \E w \in Workers : Pass(w)
    \/ \E w \in Workers : NodeRaises(w) \/ Crash(w) \/ Stall(w)
    \/ LeaseExpires
    \/ TimeUp
    \/ \E t \in IncidentStatus : HumanMoves(t)

Spec == Init /\ [][Next]_vars

(***************************************************************************)
(* Workers poll for ever, a lease that nobody renews runs out, and so does *)
(* the wall clock of the run, which counts from its start whether anybody  *)
(* drives it or not.  People and faults promise nothing.                   *)
(***************************************************************************)
FairSpec ==
    /\ Spec
    /\ \A w \in Workers : WF_vars(Pass(w))
    /\ WF_vars(LeaseExpires)
    /\ WF_vars(TimeUp)

---------------------------------------------------------------------------
\* Properties.

AskingNodes == {"planner", "hypothesis_engine"}

Places ==
    Nodes \cup {"idle", "found", "claimed", "starting", "linked", "resuming", "failed", "mark"}

Step ==
    [domain : Menu, gap : {o.gap : o \in PlannerOutputs},
     status : {"planned", "completed", "degraded"}]

Hypothesis ==
    [id : Nat, rank : Nat, status : HypothesisStatus, support : Int, contra : {0, 1},
     confidence : Int]

Answers == PlannerOutputs \cup HypothesisOutputs \cup {NoResponse}

Keys == AskingNodes \X Nat \X {1, 2}

CallStates ==
    {"ask", "reserve", "call", "settle", "answer", "exhausted", "schema", "transient",
     "permanent"}

\* What a pass carries from node to node.
StateOK(s) ==
    /\ DOMAIN s = DOMAIN InitialState
    /\ s.iteration \in Nat /\ s.ledger \in BudgetLedger
    /\ s.refusal \in BOOLEAN /\ s.unrecoverable \in BOOLEAN /\ s.opened \in BOOLEAN
    /\ s.steps \in Seq(Step) /\ s.hyps \in Seq(Hypothesis)

\* Outside the nodes that ask the model no call is under way.
CallOK(s, place) ==
    /\ s.call \in CallStates /\ s.attempt \in {1, 2}
    /\ s.spent = IF s.call = "schema" THEN 2 ELSE s.attempt - 1
    /\ s.response \in Outputs(place) \cup {NoResponse}
    /\ place \notin AskingNodes =>
          s.call = "ask" /\ s.attempt = 1 /\ s.response = NoResponse

TypeOK ==
    /\ dispatch \in [status : {"pending", "completed", "terminal"}, linked : BOOLEAN,
                     attempts : Nat]
    /\ incident \in IncidentStatus
    /\ run \in [status : {"none", "running", "completed", "dead_lettered"},
                owner : Workers \cup {None, Dead}, expired : BOOLEAN, ledger : BudgetLedger]
    /\ DOMAIN ckpt = EphemeralKeys
    /\ ckpt.iteration \in Nat /\ ckpt.ledger \in BudgetLedger /\ ckpt.refusal \in BOOLEAN
    /\ steps \in Seq(Step)
    /\ execs \in [Menu -> {"none", "succeeded", "failed"}]
    /\ hyps \in Seq(Hypothesis) /\ \A i \in DOMAIN hyps : hyps[i].id = i
    /\ DOMAIN resv \subseteq Keys
    /\ resv \in [DOMAIN resv -> [status : {"reserved", "completed"}, response : Answers]]
    /\ \A k \in DOMAIN resv : resv[k].response \in Outputs(k[1]) \cup {NoResponse}
    /\ pc \in [Workers -> Places]
    /\ DOMAIN st = Workers
    /\ \A w \in Workers : StateOK(st[w]) /\ CallOK(st[w], pc[w])
    /\ itemLock \in Workers \cup {None}
    /\ late \in BOOLEAN
    /\ calls \in Seq(Keys)
    /\ lost \in Nat /\ stalled \in BOOLEAN

(***************************************************************************)
(* However many workers find the request, at whatever point they crash or  *)
(* lose their locks, one run is opened for it: the link is made in the     *)
(* transaction that opens the run.                                         *)
(***************************************************************************)
OneRunPerRequest == started <= 1

(***************************************************************************)
(* No model call is paid for twice: a key that was called is replayed from *)
(* its record or refused, across crashes, resumptions and two passes at    *)
(* once.                                                                   *)
(***************************************************************************)
CalledOnce == \A i, j \in DOMAIN calls : calls[i] = calls[j] => i = j

Grounds ==
    \E i \in DOMAIN hyps :
        /\ hyps[i].status # "superseded"
        /\ hyps[i].confidence >= MIN_ACTIONABLE_CONFIDENCE
        /\ hyps[i].support >= MIN_EVIDENCE_FOR_CONCLUSION
        /\ hyps[i].contra = 0

\* One pass at a time drives the run: two overlap only if the first one has lost
\* its item lock and outlived its lease.
OneAtATime == \A v, w \in Workers : pc[v] \in Nodes /\ pc[w] \in Nodes => v = w

(***************************************************************************)
(* Unless a pass lost the item lock it worked under, no run is completed   *)
(* with an escalation, which names a cause, on a hypothesis that was       *)
(* superseded or is contradicted by a record: a row that is neither is     *)
(* there, confident enough and supported by two evidence records.  It is   *)
(* not promised that the records corroborate each other: two records of    *)
(* one query count as two.                                                 *)
(***************************************************************************)
EscalatedOnGrounds == ~stalled /\ verdict = "escalated" => Grounds

WithinBudget == Len(calls) <= (Policy.tokens - 1) + 2 * lost

(***************************************************************************)
(* Unless a pass lost the item lock it worked under, the calls made stay   *)
(* below the run's budget, up to what each pass that was lost in the graph *)
(* makes the ledger forget: the calls of one node, which are charged to    *)
(* the run and not to the checkpoint the next pass starts from.            *)
(***************************************************************************)
OverspendBounded == ~stalled => WithinBudget

(***************************************************************************)
(* Every run terminates: once a request is linked to its run, the run is   *)
(* completed or dead-lettered, whoever crashes or moves the incident.      *)
(***************************************************************************)
RunEnds == dispatch.linked ~> run.status \in {"completed", "dead_lettered"}

---------------------------------------------------------------------------
\* The inductive invariants.

(***************************************************************************)
(* A run is opened with its link, and only a linked run is driven: passes  *)
(* in the graph or on their way to it, calls and the run's row all come    *)
(* after the link.                                                         *)
(***************************************************************************)
LinkedOnce ==
    /\ started = IF dispatch.linked THEN 1 ELSE 0
    /\ ~dispatch.linked =>
          /\ run.status = "none" /\ calls = <<>>
          /\ \A w \in Workers : pc[w] \notin Nodes \cup {"linked", "resuming"}

(***************************************************************************)
(* Every call made has its reservation, and a pass about to call is the    *)
(* one that reserved: its key was not called and no other pass has it.     *)
(***************************************************************************)
CallHasReservation ==
    /\ \A i \in DOMAIN calls : calls[i] \in DOMAIN resv
    /\ \A w \in Workers :
          st[w].call = "call" =>
              /\ InvocationKey(w) \in DOMAIN resv
              /\ \A i \in DOMAIN calls : calls[i] # InvocationKey(w)
              /\ \A v \in Workers \ {w} :
                    st[v].call = "call" => InvocationKey(v) # InvocationKey(w)

(***************************************************************************)
(* What the pass in the graph believes of a hypothesis is what its row     *)
(* says, once a later entry or a supersession does not take it back.       *)
(***************************************************************************)
BeliefsAreRows ==
    \A w \in Workers : pc[w] \in Nodes =>
        LET list == st[w].hyps
        IN  \A i \in DOMAIN list :
              /\ list[i].id \in DOMAIN hyps
              /\ IsLatest(list, i) /\ list[i].status # "superseded" =>
                    hyps[list[i].id] = list[i]

(***************************************************************************)
(* A pass that reached the end knows how, and names a cause on grounds; a  *)
(* completed run is driven by nobody, and only such a run has a verdict.   *)
(***************************************************************************)
EndIsEarned ==
    /\ \A w \in Workers : pc[w] = "end" =>
          /\ st[w].target \in {"failed", "uncertain", "escalated"}
          /\ st[w].target = "escalated" => Grounds
    /\ run.status = "completed" => \A w \in Workers : pc[w] \notin Nodes
    /\ verdict # "none" => run.status = "completed"
    /\ verdict = "escalated" => Grounds

\* A call of the attempt under way may have been charged to the run.
Pending(s) == IF s.call \in {"call", "settle", "answer", "transient", "permanent"} THEN 1 ELSE 0

\* The calls are paid by n tokens and by what lost passes made the ledger forget.
PaidBy(n) == Len(calls) <= n + 2 * lost

(***************************************************************************)
(* How far the ledgers account for the calls.  A node starts from the      *)
(* checkpoint's ledger; what its own calls add to the run's row is at most *)
(* what it counts itself.  A planner refused by the budget forgets one     *)
(* call, after which the run is bound to end without another; and whoever  *)
(* resumes finds every call in the checkpoint or put down to a lost pass.  *)
(***************************************************************************)
Accounted(w) ==
    LET s == st[w]
        kept == ckpt.ledger.tokens
    IN  /\ s.ledger = ckpt.ledger
        /\ pc[w] \in {"coordinator", "evidence_collector"} =>
              PaidBy(kept) /\ ~s.unrecoverable
        /\ pc[w] \in AskingNodes =>
              /\ ~s.unrecoverable
              /\ run.ledger.tokens <= kept + s.spent + Pending(s)
              /\ PaidBy(run.ledger.tokens - (IF s.call = "call" THEN 1 ELSE 0))
              /\ s.call = "call" => run.ledger.tokens < Policy.tokens
        /\ pc[w] = "hypothesis_engine" /\ (s.call # "ask" \/ s.attempt = 2) =>
              EvidenceCount(s) > 0
        /\ pc[w] = "terminator" =>
              PaidBy(kept) \/ (PaidBy(kept + 1) /\ s.refusal /\ ~s.unrecoverable)
        /\ pc[w] = "end" =>
              PaidBy(kept) \/ (PaidBy(kept + 1) /\ s.target # "failed")

CallsAreAccounted ==
    /\ \A w \in Workers : pc[w] \in Nodes => Accounted(w)
    /\ (\A w \in Workers : pc[w] \notin Nodes) =>
          PaidBy(ckpt.ledger.tokens) \/ run.status = "completed"
    /\ WithinBudget

\* A worker keeps the item's lock for as long as it is at work on the item.
AtWorkUnderLock ==
    \A w \in Workers : pc[w] \notin {"idle", "found"} => itemLock = w

===========================================================================
