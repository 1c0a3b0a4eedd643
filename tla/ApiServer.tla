----------------------------- MODULE ApiServer -----------------------------
(***************************************************************************)
(* The HTTP API, the retention executor and the worker's hand-off.  A      *)
(* request passes through pool threads and database connections, both of   *)
(* which are few: it is authenticated on one thread and one connection,    *)
(* runs its endpoint on another, and has its answer validated on a third.  *)
(* A change is remembered under the caller's idempotency key in the        *)
(* transaction that makes it; the executor deletes old records; a          *)
(* remediation request is picked up by the worker.                         *)
(*                                                                         *)
(* Transactions are READ COMMITTED: each statement of an endpoint sees     *)
(* what has been committed by then, so the reads of an endpoint that other *)
(* actors can fall between are steps of their own, and a row that a        *)
(* concurrent transaction changed first is noticed at the commit.          *)
(***************************************************************************)
EXTENDS AccessRules, RetentionRules, IncidentState, Sequences

CONSTANTS
    Requests,       \* requests that may arrive, retries of one another included
    Setups,         \* [call, connections]: what may be asked, and the pool's size
    Assignments,    \* role assignments that may be in force
    Environment,    \* the environment of the incident
    Threads,        \* threads of the server's pool
    IngestSlots,    \* ingests in progress at once
    Policies,       \* retention policies the tenant may have at any time
    BatchLimit,     \* rows a retention batch deletes at most
    MaxAttempts,    \* worker attempts at one remediation request
    MaxDay          \* days the model runs for

ASSUME ApiAssumption ==
    /\ {Threads, IngestSlots, BatchLimit, MaxAttempts}
            \subseteq Nat \ {0}
    /\ \A s \in Setups : s.connections \in Nat \ {0}
    /\ MaxDay \in Nat
    /\ None \notin Nat \cup {"conflict", "error"}

\* There is no endpoint but escalate, cancel and resolve to move an incident by hand.
ASSUME ControlAssumption ==
    \A s \in Setups : \A r \in DOMAIN s.call :
        s.call[r].op = "control" => s.call[r].body \in {"escalated", "resolved"}

\* validate_retention_policy takes whole numbers of days only.
ASSUME PolicyAssumption ==
    \A policy \in Policies : \A c \in DOMAIN policy : policy[c].days \in Int

VARIABLES
    call,           \* request -> [op, user, key, body], for the ones that are sent
    connections,    \* connections of the database pool
    stage,          \* request -> how far it has come
    answer,         \* request -> what the client is told
    principal,      \* request -> the grants it was authenticated with
    seen,           \* request -> the incident row as its transaction read it
    records,        \* api_idempotency_record
    effects,        \* history: the changes made through the API
    incident,       \* incident.status
    handoffs,       \* remediation_request rows, oldest first
    live,           \* the hand-off whose run is running or suspended, or None
    worker,         \* the worker: [at, item]
    left,           \* history: a run ended and left the incident neither escalated nor resolved
    day             \* the clock

setup == <<call, connections>>
requestVars == <<setup, stage, answer, principal, seen>>
storeVars == <<records, effects>>
handoffVars == <<incident, handoffs, live, worker, left>>
vars == <<requestVars, storeVars, handoffVars, day>>

(***************************************************************************)
(* Calls.                                                                  *)
(***************************************************************************)
Changes == {"control", "annotate", "request_remediation", "decide_approval"}
Reads == {"list_incidents", "incident_read", "approvals", "suite_runs", "administration", "audit"}

SameKey(r, q) == call[r].user = call[q].user /\ call[r].key = call[q].key

(***************************************************************************)
(* What a request holds.  An endpoint returns its connection before it     *)
(* gives up its thread; only a request whose endpoint raised keeps one     *)
(* without a thread, and its teardown does not wait for a pool thread.     *)
(***************************************************************************)
AwaitsConnection == {"verifying", "called", "auditing", "scoping", "ingesting"}
InTransaction == {"loading", "reading", "keyed", "checked", "writing", "recording",
                  "scoped", "persisting"}
KeyHeld == {"keyed", "checked", "writing"}
Slotted == {"slotted", "scoping", "scoped", "body", "ingesting", "persisting"}

\* Mutant: the connection stays with the request until its session is torn down
\* after the answer has been validated.
OnConnection_UntilTeardown == InTransaction \cup {"failing", "replying"}

OnConnection == InTransaction \cup {"failing"}

OnThread == AwaitsConnection \cup InTransaction

In(stages) == {r \in Requests : stage[r] \in stages}
FreeThread == Cardinality(In(OnThread)) < Threads
FreeConnection == Cardinality(In(OnConnection)) < connections
FreeSlot == Cardinality(In(Slotted)) < IngestSlots

Go(r, s) == stage' = [stage EXCEPT ![r] = s]

\* The endpoint ends: it commits, closes its session and returns its value.
Return(r) == /\ Go(r, "replying")
             /\ answer' = [answer EXCEPT ![r] = "ok"]

\* The endpoint raises: nothing is committed.
Raise(r, problem) == /\ Go(r, "failing")
                     /\ answer' = [answer EXCEPT ![r] = problem]

\* The client is answered, and what the server held for the request is dropped.
Answer(r, what) ==
    /\ Go(r, "answered")
    /\ answer' = [answer EXCEPT ![r] = what]
    /\ principal' = [principal EXCEPT ![r] = {}]
    /\ seen' = [seen EXCEPT ![r] = None]

Init ==
    /\ \E s \in Setups : call = s.call /\ connections = s.connections
    /\ stage = [r \in Requests |-> "unsent"]
    /\ answer = [r \in Requests |-> None]
    /\ principal = [r \in Requests |-> {}]
    /\ incident = "escalated"
    /\ seen = [r \in Requests |-> None]
    /\ records = {} /\ effects = {}
    /\ handoffs = <<>> /\ live = None
    /\ worker = [at |-> "idle", item |-> None] /\ left = FALSE
    /\ day = 0

(***************************************************************************)
(* Authentication: one thread, then one connection of its own, both given  *)
(* back before anything else happens.                                      *)
(***************************************************************************)
Send(r) == /\ stage[r] = "unsent" /\ r \in DOMAIN call
           /\ Go(r, "arrived")
           /\ UNCHANGED <<setup, answer, principal, seen, storeVars, handoffVars, day>>

Verify(r) == /\ stage[r] = "arrived" /\ FreeThread
             /\ Go(r, "verifying")
             /\ UNCHANGED <<setup, answer, principal, seen, storeVars, handoffVars, day>>

\* The token is refused, or its holder has spent the rate limit.
RefuseToken(r) ==
    /\ stage[r] = "verifying"
    /\ Answer(r, "refused")
    /\ UNCHANGED <<setup, storeVars, handoffVars, day>>

\* Roles are granted and taken away at any time; the ones that stand now are read.
authenticate(r) ==
    /\ stage[r] = "loading"
    /\ \E standing \in SUBSET {a \in Assignments : a.user = call[r].user} :
            principal' = [principal EXCEPT ![r] = GrantsOf(call[r].user, standing, day)]
    /\ Go(r, "admitted")
    /\ UNCHANGED <<setup, answer, seen, storeVars, handoffVars, day>>

(***************************************************************************)
(* Every wait for a connection ends with one or with the pool's deadline.  *)
(* A session binds its tenant when its transaction begins, not before.     *)
(***************************************************************************)
AfterConnecting ==
    [verifying |-> "loading", called |-> "reading", auditing |-> "recording",
     scoping |-> "scoped", ingesting |-> "persisting"]

Connect(r) ==
    /\ stage[r] \in AwaitsConnection /\ FreeConnection
    /\ Go(r, AfterConnecting[stage[r]])
    /\ seen' = IF stage[r] = "called" THEN [seen EXCEPT ![r] = [status |-> incident, current |-> TRUE]]
               ELSE seen
    /\ UNCHANGED <<setup, answer, principal, storeVars, handoffVars, day>>

\* A denial is answered as one whether or not it could be audited.
PoolTimeout(r) ==
    /\ stage[r] \in AwaitsConnection /\ ~FreeConnection
    /\ Answer(r, IF stage[r] = "auditing" THEN "denied" ELSE "busy")
    /\ UNCHANGED <<setup, storeVars, handoffVars, day>>

(***************************************************************************)
(* Endpoints that only read.                                               *)
(***************************************************************************)
CallEndpoint(r) ==
    /\ stage[r] = "admitted" /\ call[r].op # "ingest_alert" /\ FreeThread
    /\ Go(r, "called")
    /\ UNCHANGED <<setup, answer, principal, seen, storeVars, handoffVars, day>>

Visible(r) == allows_environment(principal[r], "incident.read", Environment)

Unless(r, permitted) == IF permitted THEN Return(r) ELSE Raise(r, "denied")

\* One page of the rows of the caller's environments.
ListIncidents(r) ==
    /\ call[r].op = "list_incidents"
    /\ Unless(r, allows_any_environment(principal[r], "incident.read"))

\* The incident, its timeline, evidence, hypotheses, actions, traces, postmortems.
ReadIncident(r) ==
    /\ call[r].op = "incident_read"
    /\ IF Visible(r) THEN Return(r) ELSE Raise(r, "not_found")

ReadApprovals(r) ==
    /\ call[r].op = "approvals"
    /\ Unless(r, allows_any_environment(principal[r], "remediation.approve"))

ReadEvaluation(r) ==
    /\ call[r].op = "suite_runs"
    /\ Unless(r, allows_tenant_wide(principal[r], "evaluation.read"))

ReadAdministration(r) ==
    /\ call[r].op = "administration"
    /\ Unless(r, allows_tenant_wide(principal[r], "administration.read"))

ReadAudit(r) ==
    /\ call[r].op = "audit"
    /\ Unless(r, allows_tenant_wide(principal[r], "audit.read"))

Read(r) ==
    /\ stage[r] = "reading"
    /\ \/ ListIncidents(r)
       \/ ReadIncident(r)
       \/ ReadApprovals(r)
       \/ ReadEvaluation(r)
       \/ ReadAdministration(r)
       \/ ReadAudit(r)
    /\ UNCHANGED <<setup, principal, seen, storeVars, handoffVars, day>>

(***************************************************************************)
(* Endpoints that change something.                                        *)
(***************************************************************************)
RequiredFor(op) == IF op = "decide_approval" THEN "remediation.approve" ELSE "incident.control"

Authorize(r) ==
    /\ stage[r] = "reading" /\ call[r].op \in Changes
    /\ \/ /\ call[r].op # "decide_approval" /\ ~Visible(r)
          /\ Raise(r, "not_found")
       \/ /\ call[r].op = "decide_approval" \/ Visible(r)
          /\ ~allows_environment(principal[r], RequiredFor(call[r].op), Environment)
          /\ Raise(r, "denied")
    /\ UNCHANGED <<setup, principal, seen, storeVars, handoffVars, day>>

Authorized(r) ==
    /\ call[r].op # "decide_approval" => Visible(r)
    /\ allows_environment(principal[r], RequiredFor(call[r].op), Environment)

RecordOf(r) == {rec \in records : rec.user = call[r].user /\ rec.key = call[r].key}

\* Mutant: any request under a known key gets the answer that was given first.
Repeats_Key(r, rec) == TRUE

\* The digest of the operation and the body it was remembered with.
Repeats(r, rec) == rec.op = call[r].op /\ rec.body = call[r].body

\* The advisory lock on the caller's key, held until the transaction ends.
KeyFree(r) == \A q \in Requests \ {r} : stage[q] \in KeyHeld => ~SameKey(q, r)

_replay(r) ==
    /\ stage[r] = "reading" /\ call[r].op \in Changes /\ Authorized(r) /\ KeyFree(r)
    /\ IF RecordOf(r) = {} THEN Go(r, "keyed") /\ UNCHANGED answer
       ELSE IF \E rec \in RecordOf(r) : Repeats(r, rec)
            THEN Return(r)
            ELSE Raise(r, "conflict")
    /\ UNCHANGED <<setup, principal, seen, storeVars, handoffVars, day>>

(***************************************************************************)
(* The change itself.                                                      *)
(***************************************************************************)
RemediationRequest == [status |-> "pending", attempts |-> 0]
IsPending(h) == h.status = "pending"
Pending == {i \in 1..Len(handoffs) : IsPending(handoffs[i])}

\* Human controls: escalate or resolve, whichever the body asks for.
MayControl(r) ==
    assert_transition_allowed(seen[r].status, call[r].body, "human", TRUE, TRUE)

\* An approval is decided once; the decision service locks the action.
Decided == \E e \in effects : e.op = "decide_approval"

\* request_remediation looks for a live run first and for a pending request after.
NoLiveRun(r) ==
    /\ stage[r] = "keyed" /\ call[r].op = "request_remediation"
    /\ IF live = None THEN Go(r, "checked") /\ UNCHANGED answer ELSE Raise(r, "conflict")
    /\ UNCHANGED <<setup, principal, seen, storeVars, handoffVars, day>>

NoPendingRequest(r) ==
    /\ stage[r] = "checked"
    /\ IF Pending = {} /\ seen[r].status \in {"escalated", "investigating"}
       THEN Go(r, "writing") /\ UNCHANGED answer
       ELSE Raise(r, "conflict")
    /\ UNCHANGED <<setup, principal, seen, storeVars, handoffVars, day>>

\* The other changes go straight from their key to their write.
Prepare(r) ==
    /\ stage[r] = "keyed" /\ call[r].op # "request_remediation"
    /\ IF \/ call[r].op = "control" /\ ~MayControl(r)
          \/ call[r].op = "decide_approval" /\ Decided
       THEN Raise(r, "conflict")
       ELSE Go(r, "writing") /\ UNCHANGED answer
    /\ UNCHANGED <<setup, principal, seen, storeVars, handoffVars, day>>

\* incident.version_id: the row has not changed since the transaction read it.
Unchanged(r) == seen[r].current

\* The row is written: every transaction that has read it holds an old version.
Moved(to) ==
    /\ incident' = to
    /\ seen' = [r \in Requests |->
                    IF seen[r] = None THEN None ELSE [seen[r] EXCEPT !.current = FALSE]]
    /\ left' = FALSE

\* Requests that write the incident row, by the status they read.
MovesIncident(r) ==
    \/ call[r].op = "control"
    \/ call[r].op = "request_remediation" /\ seen[r].status = "escalated"

\* The partial unique index: one pending request for an incident.
uq_pending_incident == Pending = {}

Refusal(r) ==
    IF MovesIncident(r) /\ ~Unchanged(r) THEN "conflict"
    ELSE IF call[r].op = "request_remediation" /\ ~uq_pending_incident THEN "error"
    ELSE IF call[r].op = "decide_approval" /\ Decided THEN "conflict"
    ELSE None

\* An annotation carries the key into the incident's log, which knows it for ever.
AlreadyAnnotated(r) ==
    /\ call[r].op = "annotate"
    /\ \E e \in effects : e.op = "annotate" /\ e.user = call[r].user /\ e.key = call[r].key

Effect(r) == [user |-> call[r].user, key |-> call[r].key, op |-> call[r].op,
              body |-> call[r].body, by |-> r, day |-> day]

Record(r) == [user |-> call[r].user, key |-> call[r].key, op |-> call[r].op,
              body |-> call[r].body, day |-> day]

\* Mutant: the response is remembered in a transaction of its own, which is lost.
_remember_Later(r) == records' = records

_remember(r) == records' = records \cup {Record(r)}

Write(r) ==
    /\ stage[r] = "writing"
    /\ IF Refusal(r) # None
       THEN Raise(r, Refusal(r)) /\ UNCHANGED <<seen, records, effects, incident, handoffs, left>>
       ELSE /\ _remember(r)
            /\ effects' = IF AlreadyAnnotated(r) THEN effects ELSE effects \cup {Effect(r)}
            /\ IF MovesIncident(r)
               THEN Moved(IF call[r].op = "control" THEN call[r].body ELSE "investigating")
               ELSE UNCHANGED <<incident, seen, left>>
            /\ handoffs' = IF call[r].op # "request_remediation" THEN handoffs
                           ELSE Append(handoffs, RemediationRequest)
            /\ Return(r)
    /\ UNCHANGED <<setup, principal, live, worker, day>>

(***************************************************************************)
(* The end of a request.                                                   *)
(***************************************************************************)
\* The framework tears the session down outside the pool: rollback, release.
Teardown(r) ==
    /\ stage[r] = "failing"
    /\ IF answer[r] = "denied" THEN Go(r, "denied") /\ UNCHANGED <<answer, principal, seen>>
                              ELSE Answer(r, answer[r])
    /\ UNCHANGED <<setup, storeVars, handoffVars, day>>

\* A thread validates the returned value; only then is the client answered.
Respond(r) ==
    /\ stage[r] = "replying" /\ FreeThread
    /\ Answer(r, answer[r])
    /\ UNCHANGED <<setup, storeVars, handoffVars, day>>

PermissionOf(op) ==
    CASE op \in Changes -> RequiredFor(op)
      [] op \in {"list_incidents", "incident_read"} -> "incident.read"
      [] op = "approvals" -> "remediation.approve"
      [] op = "suite_runs" -> "evaluation.read"
      [] op = "administration" -> "administration.read"
      [] op = "audit" -> "audit.read"
      [] OTHER -> "ingestion.write"

permission_denied(r) ==
    /\ stage[r] = "denied" /\ FreeThread
    /\ IF IsAudited(call[r].op \in Reads, PermissionOf(call[r].op))
       THEN Go(r, "auditing") /\ UNCHANGED <<answer, principal, seen>>
       ELSE Answer(r, "denied")
    /\ UNCHANGED <<setup, storeVars, handoffVars, day>>

\* The audit row itself is read by no one here.
_record_denial(r) ==
    /\ stage[r] = "recording"
    /\ Answer(r, "denied")
    /\ UNCHANGED <<setup, storeVars, handoffVars, day>>

(***************************************************************************)
(* Ingestion: a slot first, which costs no connection, then one            *)
(* transaction for the connector's scope and one for the alert.  The       *)
(* alert's own effect is SignalIngestion's.                                *)
(***************************************************************************)
ingest_alert(r) ==
    /\ stage[r] = "admitted" /\ call[r].op = "ingest_alert"
    /\ \/ /\ allows_environment(principal[r], "ingestion.write", Environment)
          /\ FreeSlot
          /\ Go(r, "slotted") /\ UNCHANGED answer
       \/ /\ ~allows_environment(principal[r], "ingestion.write", Environment)
          /\ Go(r, "denied")
          /\ answer' = [answer EXCEPT ![r] = "denied"]
    /\ UNCHANGED <<setup, principal, seen, storeVars, handoffVars, day>>

SlotTimeout(r) ==
    /\ stage[r] = "admitted" /\ call[r].op = "ingest_alert" /\ ~FreeSlot
    /\ Answer(r, "busy")
    /\ UNCHANGED <<setup, storeVars, handoffVars, day>>

TakeThread(r) ==
    /\ stage[r] \in {"slotted", "body"} /\ FreeThread
    /\ Go(r, IF stage[r] = "slotted" THEN "scoping" ELSE "ingesting")
    /\ UNCHANGED <<setup, answer, principal, seen, storeVars, handoffVars, day>>

\* The connector's scope stands, or it does not; either way the connection goes back.
_check_connector_scope(r) ==
    /\ stage[r] = "scoped"
    /\ \/ Go(r, "body") /\ UNCHANGED <<answer, principal, seen>>
       \/ Answer(r, "not_found")

CheckScope(r) ==
    /\ _check_connector_scope(r)
    /\ UNCHANGED <<setup, storeVars, handoffVars, day>>

Ingest(r) ==
    /\ stage[r] = "persisting"
    /\ Answer(r, "ok") \/ Answer(r, "invalid")
    /\ UNCHANGED <<setup, storeVars, handoffVars, day>>

\* The server process dies: open transactions roll back, clients hear nothing.
Crash ==
    /\ In({"unsent", "answered"}) # Requests
    /\ stage' = [r \in Requests |-> IF stage[r] = "unsent" THEN "unsent" ELSE "answered"]
    /\ answer' = [r \in Requests |->
                    IF stage[r] \in {"unsent", "answered"} THEN answer[r] ELSE "lost"]
    /\ principal' = [r \in Requests |-> {}]
    /\ seen' = [r \in Requests |-> None]
    /\ UNCHANGED <<setup, storeVars, handoffVars, day>>

(***************************************************************************)
(* The worker: it counts an attempt, starts the run and links the request  *)
(* to it in one transaction, and hands what it cannot start back.          *)
(***************************************************************************)
workerUnchanged == <<setup, stage, answer, principal, storeVars, day>>

_start_remediation ==
    /\ worker.at = "idle"
    /\ \E i \in Pending :
            /\ handoffs[i].attempts < MaxAttempts
            /\ handoffs' = [handoffs EXCEPT ![i].attempts = @ + 1]
            /\ worker' = [at |-> "counted", item |-> i]
    /\ UNCHANGED <<incident, seen, live, left, workerUnchanged>>

Exhausted(i) == handoffs[i].attempts >= MaxAttempts

Rest == worker' = [at |-> "idle", item |-> None]

\* The database admits one running or suspended run for an incident.
uq_workflow_run_active == live = None

\* RemediationKernel.start: the request is locked, the incident checked, the run
\* inserted and the request linked to it, all in one transaction.
StartRun ==
    LET i == worker.item
    IN  /\ worker.at = "counted"
        /\ \/ /\ ~IsPending(handoffs[i])
              /\ Rest
              /\ UNCHANGED <<handoffs, live>>
           \/ /\ IsPending(handoffs[i])
              /\ \E superseded \in BOOLEAN : superseded \/ incident # "investigating"
              /\ worker' = [worker EXCEPT !.at = "refused"]
              /\ UNCHANGED <<handoffs, live>>
           \/ /\ IsPending(handoffs[i]) /\ incident = "investigating"
              /\ uq_workflow_run_active
              /\ handoffs' = [handoffs EXCEPT ![i].status = "started"]
              /\ live' = i
              /\ worker' = [worker EXCEPT !.at = "driving"]
        /\ UNCHANGED <<incident, seen, left, workerUnchanged>>

\* Anything else that goes wrong - the index refusing the run, a lost
\* connection, a node of the first pass - is retried until attempts run out.
StartFails ==
    /\ \/ worker.at = "counted" /\ IsPending(handoffs[worker.item])
       \/ worker.at = "driving"
    /\ IF Exhausted(worker.item) THEN worker' = [worker EXCEPT !.at = "refused"] ELSE Rest
    /\ UNCHANGED <<incident, seen, handoffs, live, left, workerUnchanged>>

\* The first pass ends or suspends; the run is the remediation kernel's from here.
PassEnds ==
    /\ worker.at = "driving" /\ Rest
    /\ UNCHANGED <<incident, seen, handoffs, live, left, workerUnchanged>>

\* Mutant: a request that could not be started is rejected and that is all.
ReturnsIncident_Never == FALSE

\* The worker hands the incident back to a human when no run is live.
ReturnsIncident == incident = "investigating" /\ live = None

_reject ==
    /\ worker.at = "refused"
    /\ handoffs' = [handoffs EXCEPT ![worker.item].status = IF @ = "pending" THEN "rejected" ELSE @]
    /\ IF ReturnsIncident THEN Moved("escalated") ELSE UNCHANGED <<incident, seen, left>>
    /\ Rest
    /\ UNCHANGED <<live, workerUnchanged>>

\* Nothing is expected of the machine: a human has the incident, or it is over.
WithHumans == {"escalated", "resolved"}

\* What a remediation run makes of the incident; "remediating" stands for awaiting_approval,
\* remediating and verifying, which the API's transitions do not tell apart.
RemediationMoves ==
    {<<"investigating", "remediating">>, <<"investigating", "escalated">>,
     <<"remediating", "investigating">>, <<"remediating", "escalated">>,
     <<"remediating", "resolved">>}

WorkerDies ==
    /\ worker.at # "idle" /\ Rest
    /\ UNCHANGED <<incident, seen, handoffs, live, left, workerUnchanged>>

\* A node of the run moves the incident (RemediationRun).
RunMoves ==
    /\ live # None
    /\ \E move \in RemediationMoves : incident = move[1] /\ Moved(move[2])
    /\ UNCHANGED <<handoffs, live, worker, workerUnchanged>>

\* The run is completed or dead-lettered: the incident stays what the last node made it,
\* investigating for instance if no action was proposed or the action failed without a trace.
RunEnds ==
    /\ live # None
    /\ live' = None
    /\ left' = (incident \notin WithHumans)
    /\ UNCHANGED <<incident, seen, handoffs, worker, workerUnchanged>>

(***************************************************************************)
(* Retention: an invocation fixes its clock and deletes batch after batch, *)
(* each in a transaction of its own under the policy it reads there; it    *)
(* may stop after any of them.                                             *)
(***************************************************************************)
_one_batch ==
    /\ \E now \in 0..day, policy \in Policies :
            LET doomed == PastCutoff(records, policy, now)
            IN  /\ IsValidPolicy(policy)
                /\ PlannedAction(policy, "operational_cache", Cardinality(doomed))
                        = "preview_eligible"
                /\ \E batch \in Batches(doomed, BatchLimit) : records' = records \ batch
    /\ UNCHANGED <<requestVars, effects, handoffVars, day>>

(***************************************************************************)
(* The clock.                                                              *)
(***************************************************************************)
\* Deadlines keep a request far shorter than a day.
Tick ==
    /\ day < MaxDay /\ In({"unsent", "answered"}) = Requests
    /\ day' = day + 1
    /\ UNCHANGED <<requestVars, storeVars, handoffVars>>

\* What the server does with a request it has, short of its deadlines.
Serve(r) ==
    \/ Verify(r) \/ RefuseToken(r) \/ authenticate(r) \/ Connect(r)
    \/ CallEndpoint(r) \/ Read(r)
    \/ Authorize(r) \/ _replay(r) \/ NoLiveRun(r) \/ NoPendingRequest(r) \/ Prepare(r) \/ Write(r)
    \/ Teardown(r) \/ Respond(r) \/ permission_denied(r) \/ _record_denial(r)
    \/ ingest_alert(r) \/ TakeThread(r) \/ CheckScope(r) \/ Ingest(r)

Work == _start_remediation \/ StartRun \/ StartFails \/ PassEnds \/ _reject

Next ==
    \/ \E r \in Requests : Send(r) \/ Serve(r) \/ PoolTimeout(r) \/ SlotTimeout(r)
    \/ Crash
    \/ Work \/ WorkerDies \/ RunMoves \/ RunEnds
    \/ _one_batch
    \/ Tick

Spec == Init /\ [][Next]_vars

(***************************************************************************)
(* The server runs: a thread that has what it needs goes on, and both      *)
(* pools serve their waiters in order.  No deadline is relied on.          *)
(***************************************************************************)
FairSpec == Spec /\ \A r \in Requests : WF_vars(Serve(r))

(***************************************************************************)
(* What makes the properties inductive.                                    *)
(***************************************************************************)
Stage ==
    OnThread \cup OnConnection \cup Slotted
        \cup {"unsent", "arrived", "admitted", "replying", "denied", "answered"}

Told == {"ok", "refused", "denied", "busy", "not_found", "conflict", "error", "invalid", "lost"}

TypeOK ==
    /\ \E s \in Setups : call = s.call /\ connections = s.connections
    /\ stage \in [Requests -> Stage]
    /\ answer \in [Requests -> Told \cup {None}]
    /\ \A rec \in records : rec.day \in 0..day
    /\ \A e \in effects : e.day \in 0..day /\ e.by \in Requests
    /\ handoffs \in Seq([status : {"pending", "started", "rejected"}, attempts : 0..MaxAttempts])
    /\ live \in 1..Len(handoffs) \cup {None}
    /\ worker \in [at : {"idle", "counted", "driving", "refused"}, item : Nat \cup {None}]
    /\ worker.at # "idle" => worker.item \in 1..Len(handoffs)
    /\ left \in BOOLEAN
    /\ day \in 0..MaxDay

\* Whoever holds a key holds it alone, and finds no record under it till it ends.
KeyHeldAlone ==
    \A r \in In(KeyHeld) :
        RecordOf(r) = {} /\ \A q \in In(KeyHeld) \ {r} : ~SameKey(q, r)

\* What was asked for, and what the request will be told of it.
OnItsWay ==
    /\ \A r \in Requests \ In({"unsent"}) : r \in DOMAIN call
    /\ \A r \in In(Slotted) : call[r].op = "ingest_alert"
    /\ \A r \in In({"failing"}) : answer[r] # "ok"
    /\ \A e \in effects : stage[e.by] \in {"replying", "answered"} /\ answer[e.by] \in {"ok", "lost"}

(***************************************************************************)
(* Properties.                                                             *)
(***************************************************************************)

\* Every request that arrives is answered without a pool deadline having to
\* fire, however many threads and connections the others hold: no request keeps
\* a connection while it waits for a thread (_releasing_session, _session).
EveryRequestAnswered ==
    \A r \in Requests : stage[r] = "arrived" ~> stage[r] = "answered"

\* The least a tenant's policy keeps the records of keys.
KeptDays == CLASS_POLICIES["operational_cache"].minimum_days

\* A key makes its change once: a second change under the same key is more than
\* the tenant's shortest allowed retention later, and an annotation is never
\* made twice (_replay, _remember, append_incident_event, _one_batch).
KeyActsOnce ==
    \A e, f \in effects :
        (e # f /\ e.user = f.user /\ e.key = f.key) =>
            /\ e.op # "annotate" \/ f.op # "annotate"
            /\ e.day > f.day + KeptDays \/ f.day > e.day + KeptDays

\* The change a call asks for.
Makes(e, c) == e.user = c.user /\ e.key = c.key /\ e.op = c.op /\ e.body = c.body

\* No change under the caller's key is so old that its record may have been deleted.
Retained(r) ==
    \A e \in effects : e.user = call[r].user /\ e.key = call[r].key => day <= e.day + KeptDays

\* What a record or a success speaks of: the change itself, or, once its record may have
\* been deleted, the annotation that the log keeps under the key.
Covers(e, c) ==
    \/ Makes(e, c)
    \/ /\ e.user = c.user /\ e.key = c.key /\ e.op = c.op
       /\ e.op = "annotate" /\ day > e.day + KeptDays

\* A change is remembered for as long as any tenant must keep the record, and every
\* record and every success speaks of a change.
Remembered ==
    /\ \A e \in effects :
          \/ day > e.day + KeptDays
          \/ \E rec \in records : rec.user = e.user /\ rec.key = e.key /\ rec.day = e.day
    /\ \A rec \in records : \E e \in effects : Covers(e, rec)
    /\ \A r \in In({"replying", "answered"}) :
          (answer[r] = "ok" /\ call[r].op \in Changes) => \E e \in effects : Covers(e, call[r])

\* A client that is told of success has exactly the change it asked for, made once under
\* its key by itself or by the request it repeats; one that is told anything else but
\* silence has changed nothing (_releasing_session commits before it answers).  For an
\* annotation this is said only while its key is retained: once retention has deleted the
\* record, the log still knows the key, and another text under it is answered with success
\* and not kept (append_incident_event).
AnswerIsTrue ==
    \A r \in In({"answered"}) :
        /\ /\ answer[r] = "ok" /\ call[r].op \in Changes
           /\ call[r].op = "annotate" => Retained(r)
           => \E e \in effects : Makes(e, call[r])
        /\ answer[r] \notin {"ok", "lost"} => \A e \in effects : e.by # r

\* An incident has one pending request at most, and once it is reopened there is a live
\* run or a pending request behind it until a human has it again or a run that was started
\* has ended without that (a run may, and leaves the incident as its last node made it).
\* What the worker cannot start goes back to a human and never leaves an incident
\* stranded, whatever the controls, the run and a second request do in between
\* (request_remediation, RemediationKernel.start, _reject).
HandoffIsSound ==
    /\ Cardinality(Pending) <= 1
    /\ incident \notin WithHumans /\ ~left => live # None \/ Pending # {}

=============================================================================
