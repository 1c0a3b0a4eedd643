# A TLA+ verification of the Autonomous SRE Incident Commander

ASIC investigates production incidents with an LLM-driven graph, proposes a remediation,
decides deterministically whether it may act, asks a human where it must, sends at most one
write to the target and verifies the result. Its state is PostgreSQL rows; its actors are
worker processes, API requests and ingestion, all racing on those rows. This directory models
that state, its transactions and its faults, checks the models with TLC and proves the central
results with TLAPS.

Paths below are relative to the repository root; the Python package is `src/asic`.

## 1. Inventory

| Component | State it keeps | Operations | Interacts with | What makes it correct |
|---|---|---|---|---|
| Incident state machine (`domain/incident_state.py`) | none (a table) | `assert_transition_allowed` | everything that moves an incident | every status change is an edge its actor may take |
| Event log and projections (`db/projections.py`) | `incident` (status, version, high-water mark), `incident_event`, `timeline_event` | append, transition, derive status, project timeline | API, kernels, nodes, ingestion, postmortem | gapless log; status and timeline derivable from it; history is a legal walk |
| Policy rules (`domain/policy.py`) | none | `evaluate_policy`, `detect_ambiguity` | policy gate node | autonomy only for r1, outside production, unambiguous, not overridden |
| Node contracts (`contracts/`) | none | `validate_update`, `permits_capability` | kernels, broker | a node writes and reaches only what its contract lists |
| Remediation kernel and graph (`orchestration/remediation`) | `workflow_run` (status, lease), `workflow_checkpoint` | start, resume, drive, suspend, finalise, dead-letter | worker, nodes | one pass at a time; every run ends |
| Nodes G6-G10, write authority, dispatch recovery | `remediation_action`, `policy_decision`, `approval`, `remediation_baseline`, `verification`, execution intent | plan, gate, approve, execute, verify, recover | broker, event log | replay never decides twice; an unknown outcome is neither resent nor assumed clean; a verdict rests on an effect |
| Verification and trust (`remediation/`) | baseline, observation and verdict rows | observe, judge, audit the lineage | metrics reads, memory | "verified" rests on two measurements; the audit and the verifier agree |
| Tool broker, registry, grants (`tools/`) | effect claims, `tool_execution`, `tenant_tool_grant` | authorise, claim, dispatch with deadline, record | executor, notifications, adapters | at most one effect per key; a record says what happened; nothing withdrawn is used |
| Integrations (`integrations/`), notifications (`notifications/`) | none of their own | announce an event; roll back, post, open a ticket | broker, vendors | an announcement or a rollback is made once and on what was read |
| Investigation dispatch and kernel (`ingestion/dispatch.py`, `orchestration/kernel.py`) | `investigation_dispatch`, `workflow_run`, checkpoints | dispatch, start, resume, finalise | worker, nodes G2-G5 | one run per request; resumable at every node boundary; it ends |
| Investigation nodes, budgets, termination (`orchestration/nodes`, `domain/budget.py`, `llm/`) | steps, evidence, hypotheses, `model_call_reservation` | plan, collect, hypothesise, reflect, reserve, settle | broker, model | no call paid for twice; a cause only on grounds; bounded spending |
| Ingestion and correlation (`ingestion/`) | `signal_receipt`, `alert`, `incident_reopen_candidate` | ingest, correlate, attach | event log, dispatch | duplicates and stale observations change nothing; one incident per burst; nothing lost |
| Knowledge (`knowledge/`) | `knowledge_source`, `knowledge_document`, retrieval records | import, revoke, restrict, search, show | evidence nodes | one version in force per moment; withdrawn text is not shown |
| Postmortems and memory (`postmortem/`, `memory/`) | `postmortem`, `memory_promotion`, `memory_entry` | draft, propose, decide | event log, verification | a draft is from a complete record set; a memory is earned when it is approved |
| API (`api/`) | `api_idempotency_record`, `remediation_request`; threads, connections | authenticate, controls, approvals, requests, reads | event log, worker | a key acts once; an answer is true; every request is answered |
| Retention (`retention/`) | a tenant's policy, `retention_run` | validate, plan, delete a batch | API records | only what may be deleted, when it may be |
| Worker (`worker/runtime.py`) | advisory item locks, slots | discover, claim, run, drain | kernels, author | nothing stays stranded |
| Deployment (`scripts/deploy_release.py`) | the migration Job | clear, create, watch, apply | Kubernetes | one migration at a time, and one's own |
| Evaluation, simulators, observability, acceptance and demonstration scripts | none the system acts on | | | not modelled |

What is hard here: several workers and requests interleave on the same rows at READ COMMITTED;
a node is a transaction but an external call is not; a worker may die or stall anywhere; the
lease is time-bounded; an adapter call that was abandoned can still take effect; approvals,
baselines, menus and proposals are used long after they were read. The `hazards` of
`PROJECT.json` list these at their lines with the properties that watch them.

## 2. Modules

| Module | Models |
|---|---|
| `IncidentState` | statuses, the transition table, `assert_transition_allowed` |
| `Policy` | the policy gate's rules as pure operators |
| `NodeContracts` | what each node may write and call |
| `WriteContract` | abstract: what is promised about one external write |
| `RemediationRun` | one remediation run, its workers, nodes, broker, people, time, faults |
| `VerificationLineage` | how one action is measured and how the measurement is audited |
| `IncidentLog` | one incident's event log under racing transactions |
| `SignalIngestion` | one tenant's signals: receipts, alerts, correlation, reopen candidates |
| `InvestigationRules`, `InvestigationRun` | termination and reflection rules and budgets as operators; one request from dispatch to the end of its run |
| `ToolRegistry`, `ToolBroker` | catalogues, grants, argument ownership as tables; announcements and a rollback through the broker to the vendors |
| `KnowledgeBase` | one knowledge source, its importers, managers and readers |
| `IncidentRecord`, `PostmortemAuthor`, `MemoryPromotion`, `Aftermath` | the records around an incident's end; the two components that build on them; their composition |
| `AccessRules`, `RetentionRules`, `ApiServer` | permissions and retention as operators; requests, pool, keys, retention batches and the hand-off to the worker |
| `Release` | the deployment sequence around the migration Job |
| `RemediationRun_proofs`, `IncidentLog_proofs`, `SignalIngestion_proofs`, `ToolBroker_proofs`, `ApiServer_proofs`, `InvestigationRun_proofs` | the theorems about the module they are named after |
| `Knowledge_proofs` | the theorems about `KnowledgeBase` and `Aftermath` |
| `Attribution_proofs` | the theorems about `Release` and `VerificationLineage` |
| `MC*` | instances for TLC |

`RemediationRun` extends `IncidentState` and `Policy` and refines `WriteContract` (the mapping is
the `Contract` instance at its end). Several modules open up what another takes as one step or one
choice: `IncidentLog` the status change of `RemediationRun`, `VerificationLineage` its verdict,
`ToolBroker` its dispatch. `InvestigationRun` uses the contracts of `NodeContracts` as a guard of
every node boundary, `ToolBroker` as the first stage of authorisation.

### RemediationRun and the code

A worker's *pass* is one traversal of the graph. `pc[w]` says where it is: `found`, `picked`,
`resuming` (the worker has listed the run, holds the item's advisory lock, has read the run), a
node, a step inside the executor, or `end`. Every node is one transaction with its checkpoint
(`CommitNode`), so it is one step; an exception rolls it back and dead-letters the run (`Raise`).
The executor is split at its commits and at the external call:

`executor -> intent -> authorize -> lookup -> claim -> call -> outcome`, or `executor -> recover`.

| Variable | Row or state |
|---|---|
| `run`, `owner`, `expired` | `workflow_run.status`, `lease_owner`, `lease_expires_at < now` |
| `ckptTerm` | `terminated` in the latest checkpoint |
| `incident`, `lock` | `incident.status`, the row lock the executor holds from EXECUTION_STARTED to its commit |
| `verdict`, `approval`, `windowClosed` | the policy decision, the approval row, its deadline |
| `action`, `baseline`, `executed`, `settled`, `verification` | the action's status, baseline row, `executed_at`, settling window, verdict |
| `claimed`, `receipt` | the broker's effect claim; the `tool_execution` row |
| `calls`, `effects`, `late` | the target: calls received, effects applied, an abandoned call still running |
| `prior` | what another action left under the same effect key: a claim, a receipt |
| `observed` | no column: a read-back found the target in the wanted state, whoever brought it there |
| `itemLock` | the worker's advisory lock on the work item |

Faults (`MaxFaults` in all): `Crash` (process death, or failure of the transaction that suspends,
finalises or dead-letters), `NodeError` (any exception out of a node: a failed statement, a lost
version check of the incident or action row, a broken invariant), `TxLost` (the connection of the
executor's transaction), `ItemLockLost`. A lease belongs to one kernel instance
(`remediation/kernel.py`, `__init__`), so the lease of a pass that died is owned by a name nobody
has: `Dead`. `Stalls` allows a pass to outlive its lease.

An effect key has no action in it (`domain/idempotency.py:125`), so the broker's claim and its lookup of a
recorded execution may meet those of another action (`OtherAction`): a recorded success of it is
answered as this action's, and nothing is sent. A read-back (`Reconcile`) compares the target's state with
the wanted one, so another actor's change confirms a write that may have been lost.

Left to the environment: what the model proposes, whether a precondition holds, what the target
answers, what the metric reads, what people decide. Left out: the SI-6 hash comparison (no code
writes the hashed columns), the roles an approver needs beyond the endpoint's permission (they only
remove behaviours), a second proposal by a stalled pass (one action per run here; both passes use
the same model-call key, so the second replays the recorded answer).

### IncidentLog and the code

A session is a transaction: `Read` or `ReadLocked` the incident, `Replay` for an API request, then
`Transition`, `ChangeSeverity`, `InsertKeyed`, `InsertUnkeyed`, `Project`, and `Commit` or `Abort`.
`draft[s]` holds what it wrote and nobody else sees; `rowLock` is the incident row's lock, taken by
the first write. ORM writes compare `version` with the one that was read; the high-water mark is
written past the ORM and unversioned, under the lock. The event's `request` field is no column: it
remembers which API call caused the event.

### SignalIngestion and the code

A session is one call of `IngestionService.ingest`. `Receive` covers normalisation, the time check and
the wait for the tenant's advisory lock; the time it compares with was read before the wait, so it may
be any earlier clock. Under the lock the call runs to its end, as one step for each of its outcomes
(`AnswerDuplicate`, `RefuseSignal`, `RecordChange`, `RejectOccurrence`, `SuppressAlert`,
`ResolveUnattached`; an occurrence is rejected if it belongs to another scope or if two alert rows answer to
it, the latter for the members of `Duplicated`), except where it meets writers that do not take that lock: humans and kernels
ending (`Terminate`) and reopening (`Reopen`) incidents. So reading an attached incident
(`OpenAttached`), selecting candidates (`Select`), locking them one by one in the ranking's order
(`LockCandidate`) and writing are separate steps, with the incident rows' locks in `rowLock`.
An exception or a lock timeout rolls everything back (`Abort`).

`sources` is a set of signals each of which may be delivered any number of times, in any order and
concurrently. A signal is what normalisation yields: `digest` stands for the content digest, `scope`
for environment, service and category, `event` for the delivery's identity. `heard` counts the
ALERT_RECEIVED events per content; `ended` is no column, it remembers that the incident was terminated
before.

### InvestigationRun and the code

`Discover`, `ClaimItem`, `Dispatch`, `Start`, `FollowLink`, `MarkCompleted` and `DispatchFailed` are the
dispatcher; `Resume`, `Finalise` and `DeadLetter` the kernel; `Coordinator`, `Planner*`, `Evidence*`,
`Hypothesise` and `Terminator` the nodes. A node is one step with its checkpoint (`CommitNode`), guarded by
its contract (`_validate`), except that a model call goes through `Lookup`, `Reserve`, `CallProvider` and
`Settle`, each in a transaction of its own: `resv` holds the reservations, `calls` lists the keys the
provider was really called for, one entry per call. `st[w]` is the graph state a pass carries, `ckpt` what a
resume gets back, `run.ledger` the budget row that every node boundary overwrites. `lost` is no column: it
counts the passes that ended inside the graph, by a crash or an exception, for `OverspendBounded`; nor is
`stalled`, which remembers that a pass lost the session with its item lock and went on (`Stall`).
A draft cites any subset of the evidence (`cites`), a reflection on the "latest" hypothesis means the most
confident of those just accepted (`Strongest`), and a collection degrades in three ways: uncharged when the
broker refuses by raising, charged when the source does not answer or a knowledge manifest does not hold.
`InvestigationRules` holds the budget arithmetic, the termination rules in their order and the routing after
a reflection.

### ToolBroker and the code

A caller is one `NotificationService.announce` or one write of the executor. It takes its menu, then for
each capability is authorised (`_authorize`), claims the effect (`_claim_write`), hands the request to an
adapter thread and waits for it until the deadline, classifies the outcome and records it. The thread has
a life of its own (`thread[c][t]`): it looks things up, sends, and the vendor applies (`applies`) when it
likes, also after the caller gave up or died. `posted`, `issues`, `rollout` and `serving` are the vendors;
`served` remembers the revisions a deployment has served.
`ToolRegistry` is the static part: catalogues by risk tier, who owns an argument, what may be granted;
its assumption, evaluated by TLC, says that what the contracts name is what the catalogues offer.

### KnowledgeBase, the aftermath, verification

`KnowledgeBase` splits an import where it reads without the lock (`Ingest`), where it reads under it
(`CommitReads`) and where it writes; a management change loads and writes in two steps because it takes
no lock. A search finds, records and, later and under the clearances of that moment, shows.

`IncidentRecord` is what the last two components share: the state changes, the evidence and the verdict,
changed by responders and the control plane under the incident row's lock. `PostmortemAuthor` loads a
record set, drafts outside any transaction and persists under the lock after looking again.
`MemoryPromotion` proposes and decides. `Aftermath` runs them together.

`VerificationLineage` has a clock: the metric changes, reads take time and answer with the newest sample
of their window, and the profile may get new versions. `trusted_verified_outcome` is the audit as an
operator over the stored rows.

### ApiServer and Release

A request's `stage` says how far it has come; what it holds (a pool thread, a connection, an ingest
slot, the advisory lock of its key) follows from the stage. An endpoint takes its connection before it
enters and gives it back before its answer is validated on another thread. The tables are the
idempotency records, the remediation requests and the incident; `effects` remembers what was really
changed. The retention executor deletes old records in batches; the worker picks requests up, starts
runs, gives up and dies. A run moves the incident (`RunMoves`) and ends (`RunEnds`) with the incident as its
last node left it, which may be `investigating`: `left` remembers that a run ended so.

`Release` runs up to two deployments against one Job name. A Job's UID is the deployment that created
it. `serialized` tells whether the workflow's concurrency group is in force. Operators, the Job
controller and the garbage collector act in between, and every polling loop may meet its deadline. A Job can
be deleted in the background at any time, also over its running pod; `slipped` remembers that this happened
while a deployment was past its look at the pods and had not created its Job yet. An apply may fail half-way.

## 3. Runs

| Run | Configuration | Shows |
|---|---|---|
| `remediation_leased` | 2 workers, 3 policy cases (one per outcome), 2 faults, no stalls, fairness | `OnlyLeaseholderActs`, `CleanMeansUntouched`, and that `RunEnds` and `ExecutionIsJudged` |
| `remediation_stalled` | 2 workers, 6 policy cases (also one per reason for asking), 2 faults, stalls | `AtMostOnce`, `WriteHasAuthority`, `VerdictRestsOnEffect` without mutual exclusion, and `RefinesContract` |
| `incident_log` | 2 sessions, 1 request, 1 event key, 3 events, 3 versions | `Gapless`, `StatusMatchesLog`, `LogIsAWalk`, `TimelineHasNoHole` |
| `signal_ingestion` | 2 sessions, 3 sets of 4 or 5 signals, 3 incidents, 1 ranked candidate | `HeardOnce`, `ShowsLatest`, `OneIncidentPerBurst`, `FiringIsNotLost` |
| `investigation_race` | 2 workers, 1 domain, 1 fault or human control, stalls in a run's first step | `OneRunPerRequest`, `CalledOnce`, `EscalatedOnGrounds`, `OverspendBounded` |
| `investigation_last_attempt` | 1 worker, 2 attempts, 2 faults, 1 human control, fairness | a violation: `RunEnds` is false (section 5) |
| `tool_broker` | 2 announcers of one event, 1 executor, 1 fault, 1 withdrawal, 1 foreign deploy | `AppliedOnce`, `RecordIsTrue`, `RevokedIsNotUsed`, `EveryDestinationTried` |
| `knowledge` | 2 importers, 1 manager, 1 reader, 4 bodies, 2 versions, 2 clock ticks | `OneVersionPerMoment`, `AddedUnderStandingPolicy`, `WithdrawnIsNotShown` |
| `aftermath` | 2 sessions, 1 user, 1 agent, 4 state changes, 1 evidence row, 1 promotion | `OneDraftPerRecordSet`, `DraftIsTrue`, `DraftMissesNothing`, `EntryIsEarned` |
| `verification` | 2 sources, 3 values, clock to 8, windows of 2 and 3 | `VerifiedRestsOnMeasurement`, `RefusedOnlyForAgeOrSource` |
| `api` | 2 or 3 requests, 2 threads, 1 or 2 connections, 2 days, 3 retention policies, fairness | `KeyActsOnce`, `AnswerIsTrue`, `HandoffIsSound`, `EveryRequestAnswered` |
| `release` | 2 deployments and a predecessor | `OneMigration`, `AppliedOnOwnMigration` |

Bounds. Two workers are what a race over one run needs (a pass and its successor); two faults let a
recovery itself be interrupted. The policy cases are one per outcome and per reason for asking. The
log's bounds allow a stale transition to meet two commits. In ingestion two sessions are what a race
for the lock needs, and with at most one ranked candidate two incidents in reach already overflow; the
three sets of signals are a burst that overflows, one alert that fires repeatedly and resolves, and
irregular signals (a reused event id, an occurrence claimed by two services, an unregistered service, a
malformed body). The investigation's budget leaves room for two collections and one hypothesis, so that
each dimension can run out first. `MaxDisturbances` bounds faults and human controls together and
`MaxStallIteration` says how far into a run a lock may be lost: in `investigation_race` one disturbance and
the first step, which gives 4.6 million states; the proofs drop both. `investigation_last_attempt` needs
as many faults as attempts. With one fewer, and the human control, the same `RunEnds` holds on the same
instance (64 thousand states): an incident that a person escalated lets the graph be resumed again and
again, and the wall clock of the run's budget ends that. At the broker a second announcer is the
repetition, and one withdrawal and one deploy suffice to fall between any two steps. A knowledge source
with two versions has a chain, and two importers race to extend it. Four state changes are a resolution,
a reopening and a second resolution. In `verification` the clock lets the windows be missed on both
sides. In the API three requests can hold both threads and the only connection, and two days pass the
shortest retention. In `release` one deployment interrupted, another repeating it and a Job from before
are three Jobs under one name.

Deadlock is checked for `incident_log` only. Elsewhere the instance really stops: the run is finished,
nothing new is delivered, the bounded clock has run out. What must not get stuck is stated as liveness.

Fairness. `RemediationRun`: a live worker goes on with its pass, since every external call has a deadline
and every statement a timeout; the poller keeps polling; leases, windows and settling periods elapse.
`InvestigationRun`: the same for passes and leases, and the wall clock of the budget goes on, since it counts
from the run's start (`_observe_elapsed`). `ApiServer`: a request that can take its next step
takes it; the pool's own deadlines are not fair, so that a request is answered without one firing.
Nothing obliges a person to act, a fault to happen, a provider to recover or an abandoned call to
complete.

## 4. Proofs

`RemediationRun_proofs` proves, for any sets of workers and policy inputs, any number of faults and
with stalls unless said:

* `TypeCorrect`;
* `AtMostOnceHolds`. `AtMostOnce` is not inductive: a pass about to call must be known to be the
  first. `CallNeedsClaim` adds that a call implies the claim, that a pass at `call` owns it with
  nothing sent yet, and that no two passes are there;
* `WriteHasAuthorityHolds`, through `AuthorityPrecedesCall`: the recorded verdict is the policy's,
  authority was found when the broker let the pass on, and neither is ever withdrawn;
* `VerdictRestsOnEffectHolds`, through `EvidenceIsSound`: what a pass or a receipt calls a success
  has an effect behind it or another action's success under the key, a read-back is asked only after a claim,
  and nothing is dispatched without a baseline. The theorem says what the code guarantees, which is less
  than an effect of this action (section 5). As a corollary the
  verifier's branch for an executed action without a baseline is dead code;
* `OnlyLeaseholderActsHolds`, assuming `~Stalls`, through `LeaseDiscipline`;
* `CleanMeansUntouchedHolds`, assuming `~Stalls`, through `CleanEvidence`: what a pass still in the graph
  knows of the write agrees with the claim, and nothing is recorded as clean over a claim that could
  have been used. With stalls it is false (section 5), which is where `LeaseDiscipline` is needed;
* `RefinesContractHolds`: with stalls, the run implements `WriteContract`: the right to cause the effect is
  taken once, by this action under authority or by another; only its holder sends, once; and success is
  reported only once it is attested. Each action is shown to be one
  step of the abstract write or to leave its variables alone, from the invariants above.

`IncidentLog_proofs` proves, for any sets of sessions, requests and keys and any bounds:

* `TypeCorrect`;
* `GaplessHolds`, `StatusMatchesLogHolds`, `LogIsAWalkHolds`, `HolderDrawsFreshNumberHolds`, all from
  `LogInv`. The idea is that every session's *view* - the committed rows with its draft on top - has
  the properties already (`ViewIsSound`), a draft exists only under the row lock (`DraftUnderLock`),
  and a version that still matches has kept its status (`SnapshotIsVersioned`, `DraftIsVersioned`).
  So a write extends one sound view (`AppendKeepsSound`), a commit replaces the committed rows by it
  and a rollback returns to them;
* `TimelineHasNoHoleHolds`, through `ProjectionIsSound`: what a session is about to project makes no
  hole in its view. Two projections of one log stay without a hole together (`NoHoleUnion`), and an
  event with a higher number makes none (`NoHoleExtends`);
* `RequestAppliedOnceHolds`, through `RequestHeld` (a request being served is locked, not yet
  remembered and has no event) and `KeyIsNew`.

`SignalIngestion_proofs` proves, for any sessions, sets of signals, scopes, window and number of ranked
candidates, `HeardOnceHolds`, `ShowsLatestHolds`, `OneIncidentPerBurstHolds` and `FiringIsNotLostHolds` as
parts of one inductive invariant. `OneAtWork` says that the tenant's lock leaves one session at work;
`FoundStaysTrue` that what it has found out (no receipt under its key, no attached incident, among its
candidates every incident in reach that never ended) still holds when it writes, because those who write
without the lock only end and reopen incidents and open none; `ReceiptsStand`,
`HeardIsShown` and `RowsStand` relate receipts, alerts and incidents. Ranks are compared as Python compares
tuples (`PrecedesAtFirstDifference`), and equal ranks are of equal content because the digest is one of
their parts.

`ToolBroker_proofs` proves, for any callers, events, catalogue, revocations and faults, `AppliedOnceHolds`,
`RecordIsTrueHolds`, `RevokedIsNotUsedHolds` and `EveryDestinationTriedHolds`. `ClaimDiscipline` says that a
thread runs under a claim that nobody else holds; `EffectMatchesThread` that while a thread's request is
unsettled the effect is not there, and that the thread's phase accounts for what is there afterwards;
`CleanIsOver` that a record of a clean failure belongs to a thread that can do nothing more;
`GoesForward` that a caller does not return to a capability, `NothingSkipped` that it leaves none behind
without a claim.

`ApiServer_proofs` proves, for any requests, pool sizes, retention policies and days, `KeyActsOnceHolds`,
`AnswerIsTrueHolds` and `HandoffIsSoundHolds`. `KeyHeldAlone` says that from finding no record until its
commit a request has its key to itself; `OnItsWay` what a request in flight will be told; `Remembered`
that a change has its record for as long as any valid policy must keep it, and that every record and
every success speaks of a change (`Covers`). That a policy which validates never reaches a younger record is
`PastCutoffIsOld`. The hand-off rests on `OnePending`, `Reopened` and `RunTookIt`: only a run takes
the incident beyond its investigation.

`InvestigationRun_proofs` proves, for any workers, policy, catalogue of domains, model answers and readings,
and any number of faults and human decisions:

* `TypeCorrect`, which includes that the hypothesis rows are numbered as they were created and that a pass
  waits for an answer only in a node that asks. A node boundary is reduced to one of five kinds (`Moves`:
  refused, failed, answered, unasked, judged), and the invariants below are proved per kind;
* `OneRunPerRequestHolds`, through `LinkedOnce`: before the link is set there is no run and nobody in the
  graph or on the way to it;
* `CalledOnceHolds`, through `CallHasReservation`: every call has its reservation, and a pass about to call is
  the only one that holds its key and has not called. Several passes may drive the run at once;
* `LockExcludes`: until a `Stall` (the session that holds the item's advisory lock is lost while its pass goes
  on) one pass at a time is in the graph, through crashes, dead letters and resumptions. The invariant is
  `AtWorkUnderLock`; the leases are not needed for it;
* `EscalationHasGrounds`, through `BeliefsAreRows` (a pass takes no hypothesis for standing that the rows do not
  have as it knows it) and `EndIsEarned`;
* `OverspendIsBounded`, through `CallsAreAccounted`: what a pass has called is charged to the row or to its own
  ledger or pending, what is known at the last boundary pays for all of it when nobody is in the graph, and a
  pass lost in the graph takes two calls with it at most, those of one node.

The last two rest on one inductive invariant, `Sound`, which says all this as long as nothing has stalled. With
stalls both are false: two passes overwrite each other's ledger, and one may escalate on a hypothesis that the
other has superseded.

`Knowledge_proofs` has two parts. About `KnowledgeBase`, whose names carry a prefix (`KnowledgeSpec`) so
that one module can extend both, it proves, for any importers, managers, searchers, bodies and bounds,
`KnowledgeTypeCorrect`, `OneVersionPerMomentHolds`, and the action properties
`AddedUnderStandingPolicyHolds` and `WithdrawnIsNotShownHolds`. `Succession` is the chain of versions: each
one that was not revoked is closed no later than a later one takes effect; `WriterIsCurrent` says that an
importer about to write still knows every open version and the source as it is.

About `Aftermath` it proves, for any sessions, people, claims and bounds, `OneDraftPerRecordSetHolds`,
`DraftIsTrueHolds`, `EntryIsEarnedHolds` and the action property `DraftMissesNothingHolds`. `WriterHasTheRow`
says that a session about to write its draft holds the incident row, so that what it found there stands
although evidence may still arrive; `DraftsStand` that a draft's statements are about a part of the log
that no longer changes (a state change that resolved the incident is the last one that did,
`LastResolution`); `DecisionIsSound` that one person decides on a promotion, on records seen under its
row; `EntriesStand` that every entry was earned, also those a prompt has no room for.

`Attribution_proofs` has two parts. About `VerificationLineage` it proves, for every profile, window, set of
values and clock bound, `VerifiedRestsOnMeasurementHolds` and `RefusedOnlyForAgeOrSourceHolds`, from
`ReadsThePast`, `ReadsAfterSettling` and `RowsAgree`. About `Release`, whose specification is `ReleaseSpec`
so that one module can extend both, it proves, for any set of deployments, serialised or not, `TypeCorrect`,
`OneMigrationHolds` (through `GroupDiscipline` where the workflow's group holds and `SlotDiscipline` where
only the Job's name does and no Job has slipped away) and `AppliedOnOwnMigrationHolds` (through `CompletionIsReal`).

Assumptions. The constants are what the `ASSUME`s of the modules say, no more, and TLC evaluates each on
the runs. Beyond types they say: in `SignalIngestion`, that equal digests mean equal content (the digest
is a SHA-256 of everything but the event id); in `ToolBroker`, that what is granted or revoked comes from
the shipped catalogue (`ScopeAssumption`); in `MemoryPromotion`, that nobody is named like the marker for
a statement taken from the records; in `ApiServer`, that the endpoints which move an incident by
hand are escalate, cancel and resolve (`ControlAssumption`) and that retention days are whole numbers
(`PolicyAssumption`); in `InvestigationRun`, that the policy's limits are positive, that a
model's answer is of the shape its schema enforces, and that dropping the drafts which cite unknown evidence
leaves a list of those drafts (`OutputsAssumption` says this of `KnownDrafts`, because what `SelectSeq` computes is an
induction over data). `~Stalls`, where a theorem assumes it, says that a pass ends within its lease.

What the proofs changed. `AnswerIsTrue` used to say that a client told of success finds exactly its change.
The attempt to prove it met a case the instance did not contain: the log knows an annotation's key for ever,
the idempotency record is deleted by retention, and another text sent under the key afterwards is then
answered with success while the first text stands. The property now speaks of an annotation only while its
key is retained, the instance contains the case, and section 5 lists it. Alternatives that the code tries in order (`Refusal`,
`PlannedAction`, `origin_provenance`) are written as such, since a `CASE` with overlapping arms leaves open
which one is taken; and what a prompt is shown of the memory (`memory_blocks`) is any selection the query's
order and limit allow. `OverspendBounded` used to charge the overspending to faults. The proof failed where
a node ends without any: an answer that revises the hypothesis it has just proposed raises
(`nodes/hypothesis.py:612`), the run is dead-lettered, and a second worker, which had found the item before
the first one claimed it, follows the link and resumes the run with the ledger of the last boundary. TLC
confirms it with two workers. The bound is now per pass lost in the graph, for whatever reason, section 5
lists the case, and the instance has an answer of that kind. A revision names the first entry of the pass's
list with its target's id, so the proof needs that there is a first one (`FirstEntryFound`, from the
library's theorem on minimal elements).

Only model-checked: liveness (`EveryRequestAnswered`, `ExecutionIsJudged` and `RunEnds` of the remediation), since
fairness is outside the prover's reach. Every safety property of every run is proved.
Type correctness, `HolderDrawsFreshNumber` and `RequestAppliedOnce` are proved and no longer part of a run.
The proofs drop every bound of section 3.

## 5. Observations

Where the code does other than a comment or document of the repository says, seen while modelling:

* The `expired` approval row is refused by its own table's CHECK constraint, so an unanswered approval
  dead-letters the run and leaves the incident awaiting approval; `remediation-safety-policy.md` has it
  escalate.
* Without a baseline the remediation run completes and the incident stays `remediating`.
* The lease is not looked at after it was claimed: a pass that outlives it advances without one, and
  with two passes in the graph "no claim yet" does not mean "nothing will be sent" (so
  `CleanMeansUntouched` is checked without stalls only).
* The executor does not look at the incident's status before it writes: a write can be sent on a closed
  incident. A refused write can be recorded as `failed_partial` although nothing was claimed.
* An action can be recorded as `executed` although its write was never sent: the receipt of another action
  under the same effect key answers for it (`tools/broker.py:332`). Or although it was never applied: the
  read-back compares the target with the wanted state only (`remediation/observations.py:55`), whoever
  brought it there. `VerdictRestsOnEffect` states both grounds beside the action's own effect.
* An investigation can name a cause on the results of one query, since two records of one query count as
  two (`nodes/evidence.py:142`); `nodes/hypothesis.py:76` says that one observation is a coincidence until
  something corroborates it. `EscalatedOnGrounds` counts records and says so.
* The sample that decides a verdict may predate the action (`nodes/verifier.py:480`): it must fall into a
  window of 300 seconds before the read, and settling takes 10, 60 or 120. `agent-topology.md:428` has "fresh
  post-action telemetry", and `remediation-safety-policy.md:280` has the window cover settling plus the
  criteria's own. `VerifiedRestsOnMeasurement` says that the sample is later than the baseline and read
  after settling, and does not say that it was taken after the write. The verifier does not compare the
  source of its read with the approved ones; the audit does.
* An operational memory that names evidence or citations and no incident needs no closed one
  (`memory/policy.py:203`), where `CHANGELOG.md:582` requires a closed incident. `EntryIsEarned` asks
  for the end of the incident if the promotion names one.
* A worker that dies in the graph on the last allowed attempt leaves the dispatch pending and the run running;
  neither is found again (`worker/runtime.py:309`), while the same file (39-41) says that a process that dies
  mid-item leaves the item recoverable and `ARCHITECTURE_OVERVIEW.md:46` that every run terminates. The run
  `investigation_last_attempt` shows it; a pending remediation request is left the same way.
* A remediation run may end with the incident in `investigating` (no action proposed, a clean failure, a
  verdict `not_verified`, a dead letter) and nobody behind it; `HandoffIsSound` ends there.
* An abandoned adapter thread may find no ticket and create one later: two Jira issues per incident are
  possible, where the adapter's docstring promises one.
* `broker.invoke` resolves arguments outside its `try`, so a read for a service without a namespace raises
  although the docstring says it never raises for a refusal.
* An annotation sent with another text under a key whose record retention has deleted is answered with
  success and the new text (`api/app.py:601-640`), and the log keeps the first one;
  `docs/architecture/phase9-api-dashboard.md:16-17` says that changed requests under the same key are
  rejected. `AnswerIsTrue` promises an annotation's client its change only while the key is retained.
* `kubectl delete job` names the object, not its UID: of two overlapping deployments one can delete the
  other's active Job, which comments say is never touched. That alone starts no second migration, because the
  pods are looked at again. But the look and the create are two requests (`deploy_release.py:667-675`): if
  deployments overlap and a Job is removed in the background over its running pod between them, two
  migrations run. The workflow's concurrency group excludes it; `OneMigration` names the case.

Other behaviour worth knowing, none of it contradicted by a document:

* A Kubernetes effect key has no action and no time in it: the same rollback is dispatched once ever. HPA
  and node patches, unlike the rollback, do not test the version they read.
* A crash between claim and dispatch means never delivered; a crash between the end of a run and its
  announcement loses the announcement; a tool definition changed between dispatch and recording leaves a
  claim without an execution row.
* The tokens of an interrupted node are forgotten by the next ledger write (`OverspendBounded` gives the
  bound); overlapping passes reset each other's iteration count, and one of them may name a cause on a
  hypothesis that the other has just superseded. A dead-lettered investigation is resumed
  by a worker that had found its item before, though no poll would find it any more. A reflection that
  revises a hypothesis of its own answer takes the node down (`nodes/hypothesis.py:612`).
* A human escalation followed by a failing verdict makes the kernel's last transition raise.
* `effective_at` is read before the commit, so an as-of query answered in between may later answer
  differently; `revoke_version` takes no lock, so a concurrent import can turn a revoked version into a
  superseded one, and a deletion racing a revocation can end as either. Withdrawing the source, which
  `WithdrawnIsNotShown` is about, is final.
* Evidence that arrives after a draft causes no new one; a second proposal of the same memory is possible
  once the first is decided; the memory service has no caller in production yet.
* Two requests of responders who race from `investigating` may end in a 500 for one of them, with nothing
  changed; after retention deleted a key's record a retry acts again, except for annotations.

## 6. Not modelled

* Evaluation harness, simulators, observability, and the acceptance, load, chaos and demonstration
  scripts: nothing in the system acts on their state.
* Token verification with its key cache, the rate limiter's window and body limits: in `ApiServer` a
  refusal by them is a choice. Connection teardown by the web framework is taken as the framework does it.
* Text: prompts, chunking, ranking and fusion of search results, normalisation of vendor payloads, value
  coercion of tool arguments, the sections of a postmortem, redaction.
* The transport, credentials and response parsing of the adapters, and the adapters that read.
* Worker slots, drain, probes and signals; the demonstration command line.
* Row-level security, which PostgreSQL enforces; every module models one tenant. DDL, except where a key or
  a check constraint decides an action's outcome.
* Rows that are written and never read back: ingestion receipts of knowledge, memory write decisions,
  retention receipts, spans and metrics.
* In `ApiServer`, which service and hypothesis a remediation request names, and the statuses a live run
  passes through. In `Release`, the window in which an object deleted in the background is still listed.

## 7. Plan

Done: all components of section 1 except those of section 6, and the theorems of section 4. Next:

1. Two proposals of one run: here another action under the effect key is an environment.
2. What a stalled investigation pass can still spoil, as a bound per stall in place of `~stalled`.
