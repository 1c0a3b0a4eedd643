---------------------------- MODULE ToolBroker ----------------------------
(***************************************************************************)
(* The sole way out of the system.  Callers push effectful capability      *)
(* requests through the broker: the notification service S2 announces an   *)
(* incident event to every destination the tenant granted, and the         *)
(* remediation executor asks for a deployment rollback.  Each request is   *)
(* authorised, claimed, sent by an adapter on a thread of its own under a  *)
(* deadline, classified and recorded.                                      *)
(*                                                                         *)
(* The adapter thread outlives the caller that gave up on it, and a        *)
(* request on the wire outlives the process that sent it: the vendor may   *)
(* apply it at any later time, or never.                                   *)
(***************************************************************************)
EXTENDS ToolRegistry, Sequences, TLC

CONSTANTS
    Announcers,     \* calls of NotificationService.announce
    Executors,      \* calls of the remediation executor
    EventOf,        \* the event an announcer announces; an executor's target
    Opening,        \* the events that open a ticket
    Catalogue,      \* the capabilities that are looked at; no other is granted
    Revocable,      \* the capabilities an administrator withdraws or changes
    Owned,          \* {"namespace"} if the incident's service owns one, or {}
    MaxFaults,      \* failures of the network, the database and processes
    MaxRevocations, \* grants, connector bindings and tools withdrawn or changed
    MaxDeploys      \* rollouts by someone else

Callers == Announcers \cup Executors

ASSUME CallersAssumption == Announcers \cap Executors = {} /\ DOMAIN EventOf = Callers
ASSUME BoundsAssumption == {MaxFaults, MaxRevocations, MaxDeploys} \subseteq Nat

VARIABLES
    grants,     \* tenant_tool_grant rows that are enabled
    bindings,   \* capabilities whose connector and scope binding are in force
    tools,      \* tool_definition rows: as their descriptors, disabled, or different
    claims,     \* effect keys with a committed dispatch claim
    execs,      \* tool_execution rows: the outcome recorded for a key
    call,       \* each caller: where it is and the menu it holds
    thread,     \* the adapter thread of a caller's request
    posted,     \* how often the vendor applied the effect of a key
    issues,     \* Jira issues that carry the incident's label
    rollout,    \* resourceVersion of the deployment
    serving,    \* the revision it serves
    served,     \* the revisions it has served so far
    refusedAt,  \* requests made when the capability was no longer granted
    faults, revocations, deploys

vars == <<grants, bindings, tools, claims, execs, call, thread, posted, issues,
          rollout, serving, served, refusedAt, faults, revocations, deploys>>

---------------------------------------------------------------------------
_CAPABILITY_ORDER ==
    <<"write.jira_issue", "write.jira_comment", "write.pagerduty_event",
      "notify.slack_channel", "notify.teams_channel", "write.grafana_annotation">>

ExternalRecords == capabilities(integrations)

NATIVE_TOOLS == ExternalRecords \cup {"mutate.k8s_deployment"}

ASSUME ScopeAssumption == Catalogue \subseteq NATIVE_TOOLS /\ Revocable \subseteq Catalogue

\* The registry a caller's broker was built with, and the tier it stops at.
RegistryOf(c) == IF c \in Announcers THEN integrations ELSE remediation_full
MaxTierOf(c) == IF c \in Announcers THEN "r1" ELSE "r2"

DescriptorOf(c, t) == CHOOSE d \in for_capability(RegistryOf(c), t) : TRUE

\* What a caller asks for, in order.
Agenda(c) == IF c \in Announcers THEN _CAPABILITY_ORDER ELSE <<"mutate.k8s_deployment">>

ContractOf(c) == IF c \in Announcers THEN S2_NOTIFICATION_SERVICE ELSE G9_REMEDIATION_EXECUTOR

\* The key of an effect: what is asked for and of what, never who asks.
tool_execution_key(c, t) == <<t, EventOf[c]>>

Keys == {tool_execution_key(c, t) : c \in Callers, t \in Catalogue}

\* An opening event creates the ticket and any other one comments on it.
Announces(c, t) ==
    /\ t = "write.jira_issue" => EventOf[c] \in Opening
    /\ t = "write.jira_comment" => EventOf[c] \notin Opening

_compare(t) == tools[t] # "differs"

\* A registry raises when any one of its own rows differs from its descriptor.
assert_matches_database(c) ==
    \A t \in Catalogue \cap capabilities(RegistryOf(c)) : _compare(t)

\* Enabled grants of enabled tools, under the ceiling and the node's contract.
resolve(c) ==
    {t \in grants \cap capabilities(RegistryOf(c)) :
        /\ tools[t] # "disabled"
        /\ rank[DescriptorOf(c, t).tier] <= rank[MaxTierOf(c)]
        /\ permits_capability(ContractOf(c), t)}

\* What callers fill in themselves.
Supplied(c) ==
    IF c \in Announcers THEN _event_arguments \ scope_arguments
    ELSE {"deployment", "to_revision"}

ArgumentsBind(c, t) ==
    /\ resolve_arguments(DescriptorOf(c, t), Owned)
    /\ bind_arguments(DescriptorOf(c, t), Supplied(c))

\* Adapters that read the vendor's state before they write to it.
LooksFirst(t) == t \in {"write.jira_issue", "write.jira_comment", "mutate.k8s_deployment"}

NoThread == [phase |-> "none", seen |-> 0, result |-> "none"]

FirstPhase(t) == IF LooksFirst(t) THEN "look" ELSE "connect"

Running == {"look", "connect"}

---------------------------------------------------------------------------
Init ==
    /\ grants = Catalogue
    /\ bindings = Catalogue
    /\ tools = [t \in Catalogue |-> "described"]
    /\ claims = {}
    /\ execs = <<>>
    /\ call = [c \in Callers |-> [pc |-> "start", at |-> 1, menu |-> {}]]
    /\ thread = [c \in Callers |-> [t \in Catalogue |-> NoThread]]
    /\ posted = [k \in Keys |-> 0]
    /\ issues = 0
    /\ rollout = 1
    /\ serving = "other"
    /\ served = {"other"}
    /\ refusedAt = {}
    /\ faults = 0
    /\ revocations = 0
    /\ deploys = 0

Fault == faults < MaxFaults /\ faults' = faults + 1

Asked(c) == Agenda(c)[call[c].at]

Goto(c, pc) == call' = [call EXCEPT ![c].pc = pc]

\* The caller has its receipt and turns to the next capability.
Receive(c) == call' = [call EXCEPT ![c].pc = "next", ![c].at = @ + 1]

world == <<posted, issues, rollout, serving, served>>
admin == <<grants, bindings, tools, revocations, deploys>>

\* The event is loaded and the menu resolved once; a registry that differs from
\* the database ends the call.
menu_for(c) ==
    /\ call[c].pc = "start"
    /\ call' = IF assert_matches_database(c)
               THEN [call EXCEPT ![c].pc = "next", ![c].menu = resolve(c)]
               ELSE [call EXCEPT ![c].pc = "failed"]
    /\ UNCHANGED <<claims, execs, thread, world, admin, refusedAt, faults>>

\* Positions of the agenda that are still to come, on the menu, and apply.
Left(c) ==
    {i \in call[c].at .. Len(Agenda(c)) :
        Agenda(c)[i] \in call[c].menu /\ Announces(c, Agenda(c)[i])}

\* A recorded execution is the answer to every later request with its key.
_from_recorded(c, t) == tool_execution_key(c, t) \in DOMAIN execs

\* Mutant: the menu that was resolved first is the authority.
authorizeByMenu(c, i) ==
    LET t == Agenda(c)[i]
        allowed == t \in call[c].menu /\ t \in bindings /\ ArgumentsBind(c, t)
        recorded == _from_recorded(c, t)
    IN  IF allowed /\ ~recorded
        THEN call' = [call EXCEPT ![c].pc = "claim", ![c].at = i]
        ELSE call' = [call EXCEPT ![c].at = i + 1]

\* The grants are read afresh for an effect, the connector and its binding on
\* every call, and then a recorded execution is replayed instead of repeated.
\* A refusal is a receipt like any other; a registry that differs is not.
_authorize(c, i) ==
    LET t == Agenda(c)[i]
        allowed == t \in resolve(c) /\ t \in bindings /\ ArgumentsBind(c, t)
        recorded == _from_recorded(c, t)
    IN  call' = CASE ~assert_matches_database(c) -> [call EXCEPT ![c].pc = "failed"]
                  [] assert_matches_database(c) /\ allowed /\ ~recorded ->
                       [call EXCEPT ![c].pc = "claim", ![c].at = i]
                  [] OTHER -> [call EXCEPT ![c].at = i + 1]

\* The loop over the destinations puts the next request to the broker, or ends.
announce(c) ==
    /\ call[c].pc = "next"
    /\ \/ /\ Left(c) = {}
          /\ Goto(c, "done")
          /\ UNCHANGED refusedAt
       \/ \E i \in Left(c) :
              /\ \A j \in Left(c) : i <= j
              /\ _authorize(c, i)
              /\ refusedAt' = IF Agenda(c)[i] \in grants \cap bindings
                                  /\ tools[Agenda(c)[i]] = "described" THEN refusedAt
                              ELSE refusedAt \cup {<<c, Agenda(c)[i]>>}
    /\ UNCHANGED <<claims, execs, thread, world, admin, faults>>

\* Mutant: the claim is written and not looked for.
claimUnchecked(c) ==
    LET t == Asked(c) IN
    /\ call[c].pc = "claim"
    /\ claims' = claims \cup {tool_execution_key(c, t)}
    /\ thread' = [thread EXCEPT ![c][t].phase = FirstPhase(t)]
    /\ Goto(c, "waiting")
    /\ UNCHANGED <<execs, world, admin, refusedAt, faults>>

\* Under the tenant's advisory lock, in a transaction of its own: the claim is
\* committed before any provider can see the request, and never taken twice.
_claim_write(c) ==
    LET t == Asked(c)
        key == tool_execution_key(c, t)
    IN  /\ call[c].pc = "claim"
        /\ \/ /\ key \in claims
              /\ Receive(c)
              /\ UNCHANGED <<claims, thread>>
           \/ /\ key \notin claims
              /\ claims' = claims \cup {key}
              /\ thread' = [thread EXCEPT ![c][t].phase = FirstPhase(t)]
              /\ Goto(c, "waiting")
        /\ UNCHANGED <<execs, world, admin, refusedAt, faults>>

---------------------------------------------------------------------------
\* The adapter thread.  Everything before the write is sent is known clean.
Becomes(c, t, phase) == thread' = [thread EXCEPT ![c][t].phase = phase]

\* The thread answers its caller.  A request that was sent stays on the wire
\* unless the answer says what became of it.
Answers(c, t, phase, result) ==
    thread' = [thread EXCEPT ![c][t].phase = phase, ![c][t].result = result]

\* Nothing was sent: the connector's kind, settings, credential or endpoint is
\* wrong, a read failed, or no connection was made.
FailsClean(c, t) == Fault /\ Answers(c, t, "end", "not_applied")

callers == <<call, claims, execs, refusedAt>>

\* Jira is searched for the incident's label.  One issue answers a create and
\* takes a comment; a comment needs one; two are a conflict for either.
_find(c, t) ==
    /\ t \in {"write.jira_issue", "write.jira_comment"}
    /\ thread[c][t].phase = "look"
    /\ \/ /\ IF issues = (IF t = "write.jira_issue" THEN 0 ELSE 1)
             THEN Becomes(c, t, "connect")
             ELSE Answers(c, t, "end", IF issues = 1 THEN "ok" ELSE "not_applied")
          /\ UNCHANGED faults
       \/ FailsClean(c, t)
    /\ UNCHANGED <<callers, world, admin>>

\* The deployment is read with its version, and left alone when it already
\* serves the target revision.
deployment_rollback(c, t) ==
    /\ t = "mutate.k8s_deployment"
    /\ thread[c][t].phase = "look"
    /\ \/ /\ IF serving = EventOf[c]
             THEN Answers(c, t, "end", "ok")
             ELSE thread' = [thread EXCEPT ![c][t].phase = "connect", ![c][t].seen = rollout]
          /\ UNCHANGED faults
       \/ FailsClean(c, t)
    /\ UNCHANGED <<callers, world, admin>>

\* The connection is made and the request sent.
connect(c, t) ==
    /\ thread[c][t].phase = "connect"
    /\ \/ Becomes(c, t, "wire") /\ UNCHANGED faults
       \/ FailsClean(c, t)
    /\ UNCHANGED <<callers, world, admin>>

\* The patch tests resourceVersion; the API server refuses a stale one.
staleVersion(c, t) ==
    t = "mutate.k8s_deployment" /\ thread[c][t].seen # rollout

\* The vendor applies a request, even one that everyone has given up on.
applies(c, t) ==
    /\ thread[c][t].phase = "wire"
    /\ ~staleVersion(c, t)
    /\ posted' = [posted EXCEPT ![tool_execution_key(c, t)] = @ + 1]
    /\ issues' = issues + IF t = "write.jira_issue" THEN 1 ELSE 0
    /\ IF t = "mutate.k8s_deployment"
       THEN /\ rollout' = rollout + 1
            /\ serving' = EventOf[c]
            /\ served' = served \cup {EventOf[c]}
       ELSE UNCHANGED <<rollout, serving, served>>
    /\ Becomes(c, t, "applied")
    /\ UNCHANGED <<callers, admin, faults>>

\* Mutant: a server error counts as a refusal.
errorIsRefusal(c, t) ==
    /\ thread[c][t].phase \in {"wire", "applied"}
    /\ thread[c][t].result = "none"
    /\ \/ thread[c][t].phase = "applied" /\ Answers(c, t, "end", "ok") /\ UNCHANGED faults
       \/ Fault /\ Answers(c, t, thread[c][t].phase, "not_applied")
    /\ UNCHANGED <<callers, world, admin>>

\* What the vendor answers.  A 2xx with the expected body is a success.  A 3xx,
\* a 4xx or Slack's ok=false says that nothing was done.  A 5xx, an answer that
\* cannot be read, or none at all leaves a write unknown.
raise_for_status(c, t) ==
    /\ thread[c][t].phase \in {"wire", "applied"}
    /\ thread[c][t].result = "none"
    /\ \/ /\ thread[c][t].phase = "applied"
          /\ Answers(c, t, "end", "ok")
          /\ UNCHANGED faults
       \/ /\ thread[c][t].phase = "wire"
          /\ IF staleVersion(c, t) THEN UNCHANGED faults ELSE Fault
          /\ Answers(c, t, "end", "not_applied")
       \/ Fault /\ Answers(c, t, thread[c][t].phase, "unknown")
    /\ UNCHANGED <<callers, world, admin>>

---------------------------------------------------------------------------
\* How a result is recorded.
Outcome(result) ==
    CASE result = "ok" -> "succeeded"
      [] result = "not_applied" -> "failed_clean"
      [] result = "unknown" -> "unknown"

\* The rows with one more, or with another outcome for a key that has one.
WithOutcome(key, outcome) ==
    [k \in DOMAIN execs \cup {key} |-> IF k = key THEN outcome ELSE execs[k]]

\* Mutant: a delivery that did not succeed ends the announcement.
recordGivesUp(c, t, outcome) ==
    \/ /\ assert_matches_database(c)
       /\ execs' = WithOutcome(tool_execution_key(c, t), outcome)
       /\ IF outcome = "succeeded" THEN Receive(c) ELSE Goto(c, "done")
       /\ UNCHANGED faults
    \/ /\ IF assert_matches_database(c) THEN Fault ELSE UNCHANGED faults
       /\ Goto(c, "failed")
       /\ UNCHANGED execs

\* The execution row and its audit record are committed and the caller goes
\* on; if that fails, or the row of the tool has changed since, the exception
\* ends the whole announcement.
Record(c, t, outcome) ==
    \/ /\ assert_matches_database(c)
       /\ execs' = WithOutcome(tool_execution_key(c, t), outcome)
       /\ Receive(c)
       /\ UNCHANGED faults
    \/ /\ IF assert_matches_database(c) THEN Fault ELSE UNCHANGED faults
       /\ Goto(c, "failed")
       /\ UNCHANGED execs

_dispatch(c) ==
    /\ call[c].pc = "waiting"
    /\ thread[c][Asked(c)].result # "none"
    /\ Record(c, Asked(c), Outcome(thread[c][Asked(c)].result))
    /\ UNCHANGED <<claims, thread, world, admin, refusedAt>>

\* The deadline passes: a write is unknown, and its thread runs on.
_invoke_with_deadline(c) ==
    /\ call[c].pc = "waiting"
    /\ thread[c][Asked(c)].result = "none"
    /\ Record(c, Asked(c), "unknown")
    /\ UNCHANGED <<claims, thread, world, admin, refusedAt>>

\* The process dies, and every thread of it that has not sent its request.
Crash(c) ==
    /\ call[c].pc \notin {"crashed", "failed", "done"}
    /\ Fault
    /\ Goto(c, "crashed")
    /\ thread' = [thread EXCEPT ![c] =
           [t \in Catalogue |->
               IF @[t].phase \in Running THEN [@[t] EXCEPT !.phase = "end"] ELSE @[t]]]
    /\ UNCHANGED <<claims, execs, world, admin, refusedAt>>

\* An administrator withdraws a grant, or a connector's binding, or disables a
\* tool, or a release with another descriptor for it is migrated.
Revoke(t) ==
    /\ revocations < MaxRevocations
    /\ revocations' = revocations + 1
    /\ \/ t \in grants /\ grants' = grants \ {t} /\ UNCHANGED <<bindings, tools>>
       \/ t \in bindings /\ bindings' = bindings \ {t} /\ UNCHANGED <<grants, tools>>
       \/ /\ tools[t] = "described"
          /\ \E row \in {"disabled", "differs"} : tools' = [tools EXCEPT ![t] = row]
          /\ UNCHANGED <<grants, bindings>>
    /\ UNCHANGED <<callers, thread, world, faults, deploys>>

\* Somebody else rolls the deployment out, to any revision.
Deploy ==
    /\ deploys < MaxDeploys
    /\ deploys' = deploys + 1
    /\ rollout' = rollout + 1
    /\ serving' \in {"other"} \cup {EventOf[x] : x \in Executors}
    /\ served' = served \cup {serving'}
    /\ UNCHANGED <<callers, thread, posted, issues, faults, grants, bindings,
                   tools, revocations>>

Adapter(c, t) ==
    \/ _find(c, t) \/ deployment_rollback(c, t) \/ connect(c, t)
    \/ raise_for_status(c, t)

Caller(c) ==
    \/ menu_for(c) \/ announce(c) \/ _claim_write(c)
    \/ _dispatch(c) \/ _invoke_with_deadline(c)

Next ==
    \/ \E c \in Callers : Caller(c) \/ Crash(c)
    \/ \E c \in Callers, t \in Catalogue : Adapter(c, t) \/ applies(c, t)
    \/ \E t \in Revocable : Revoke(t)
    \/ Deploy

Spec == Init /\ [][Next]_vars

---------------------------------------------------------------------------
\* Before its request is sent, and while the vendor may still apply it.
Unsettled == Running \cup {"wire"}

AdapterThread ==
    [phase : Unsettled \cup {"none", "applied", "end"}, seen : Nat,
     result : {"none", "ok", "not_applied", "unknown"}]

Invocation ==
    [pc : {"start", "next", "claim", "waiting", "done", "failed", "crashed"},
     at : Nat \ {0}, menu : SUBSET Catalogue]

TypeOK ==
    /\ grants \subseteq Catalogue /\ bindings \subseteq Catalogue
    /\ tools \in [Catalogue -> {"described", "disabled", "differs"}]
    /\ claims \subseteq Keys
    /\ DOMAIN execs \subseteq claims
    /\ \A k \in DOMAIN execs : execs[k] \in {"succeeded", "failed_clean", "unknown"}
    /\ call \in [Callers -> Invocation]
    /\ thread \in [Callers -> [Catalogue -> AdapterThread]]
    /\ posted \in [Keys -> Nat]
    /\ {issues, rollout, faults, revocations, deploys} \subseteq Nat
    /\ refusedAt \subseteq Callers \X Catalogue

\* A caller at the broker asks for something of its agenda; once it waits, the
\* request has a thread.
AtTheBroker ==
    \A c \in Callers :
        /\ call[c].pc \in {"claim", "waiting"} =>
               call[c].at \in 1 .. Len(Agenda(c)) /\ Asked(c) \in Catalogue
        /\ call[c].pc = "waiting" => thread[c][Asked(c)].phase # "none"

\* A thread runs under a claim, and under a claim runs one thread.
ClaimDiscipline ==
    \A c \in Callers, t \in Catalogue :
        thread[c][t].phase # "none" =>
            /\ tool_execution_key(c, t) \in claims
            /\ \A d \in Callers :
                   EventOf[d] = EventOf[c] /\ thread[d][t].phase # "none" => d = c

\* What a thread's phase and answer say of the effect.
EffectMatchesThread ==
    /\ serving \in served
    /\ \A k \in Keys \ claims : posted[k] = 0
    /\ \A c \in Callers, t \in Catalogue :
           LET k == tool_execution_key(c, t)
               th == thread[c][t]
           IN  /\ th.phase \in Unsettled => posted[k] = 0
               /\ th.phase = "applied" => posted[k] = 1
               /\ th.phase = "none" => th.result = "none"
               /\ th.result = "not_applied" => th.phase = "end" /\ posted[k] = 0
               /\ th.result = "ok" =>
                      /\ th.phase = "end"
                      /\ \/ posted[k] = 1
                         \/ t = "write.jira_issue" /\ issues > 0
                         \/ t = "mutate.k8s_deployment" /\ EventOf[c] \in served

\* A request recorded as failed clean has no thread left that could be applied.
CleanIsOver ==
    \A c \in Callers, t \in Catalogue :
        /\ tool_execution_key(c, t) \in DOMAIN execs
        /\ execs[tool_execution_key(c, t)] = "failed_clean"
        => thread[c][t].phase \in {"none", "end"}

Stopped == {"done", "failed", "crashed"}

\* What a caller has still to ask for has no thread yet, and it never comes back
\* to what was refused.
GoesForward ==
    \A c \in Callers, t \in Catalogue : \A i \in 1 .. Len(Agenda(c)) :
        Agenda(c)[i] = t /\ call[c].pc \notin Stopped =>
            /\ i > call[c].at \/ (i = call[c].at /\ call[c].pc # "waiting") =>
                   thread[c][t].phase = "none"
            /\ <<c, t>> \in refusedAt => i < call[c].at

---------------------------------------------------------------------------
\* What the caller's menu lets it ask for, what of its agenda it has behind it, and
\* what has come of asking.
Due(c, t) == t \in call[c].menu /\ Announces(c, t) /\ ArgumentsBind(c, t)
Behind(c, i) ==
    /\ call[c].pc \notin {"start", "failed", "crashed"}
    /\ call[c].pc = "done" \/ i < call[c].at
Settled(c, t) == tool_execution_key(c, t) \in claims \/ <<c, t>> \in refusedAt

\* The vendor applies an effect at most once, whoever asks for it, however
\* often, concurrently or again after a crash, and whatever became of the
\* answer: "at most once per transition per destination".
AppliedOnce == \A k \in Keys : posted[k] <= 1

\* A recorded outcome stays true of the outside world.  After failed_clean the
\* effect is not there and never appears, even from a request that was given
\* up; after succeeded it was made under this key, or the adapter found it made:
\* the incident has its ticket, the deployment has served the revision asked for.
RecordIsTrue ==
    \A k \in DOMAIN execs :
        /\ execs[k] = "failed_clean" => posted[k] = 0
        /\ execs[k] = "succeeded" =>
               \/ posted[k] = 1
               \/ k[1] = "write.jira_issue" /\ issues > 0
               \/ k[1] = "mutate.k8s_deployment" /\ k[2] \in served

\* A capability, binding or tool that was withdrawn or changed before a request
\* is made is not used by it, even though the announcer's own menu still has it.
RevokedIsNotUsed ==
    \A c \in Callers, t \in Catalogue :
        <<c, t>> \in refusedAt => thread[c][t].phase = "none"

\* One destination's trouble is not another's: an announcement that ended, rather
\* than raised or died, has put the effect of every destination on its menu that
\* takes the event to a claim, its own or a concurrent one's, unless the
\* destination was withdrawn meanwhile ("Every failure becomes a typed receipt").
EveryDestinationTried ==
    \A c \in Callers : call[c].pc = "done" =>
        \A i \in 1 .. Len(Agenda(c)) : Due(c, Agenda(c)[i]) => Settled(c, Agenda(c)[i])

\* The same of what a caller has behind it, at any time; it starts with nothing there.
NothingSkipped ==
    \A c \in Callers :
        /\ call[c].pc = "start" => call[c].at = 1
        /\ \A i \in 1 .. Len(Agenda(c)) :
              Behind(c, i) /\ Due(c, Agenda(c)[i]) => Settled(c, Agenda(c)[i])

\* A menu has what the ceiling and the contract of its caller permit.
MenuIsPermitted ==
    \A c \in Callers : \A t \in call[c].menu :
        /\ t \in capabilities(RegistryOf(c))
        /\ rank[DescriptorOf(c, t).tier] <= rank[MaxTierOf(c)]
        /\ permits_capability(ContractOf(c), t)
===========================================================================
