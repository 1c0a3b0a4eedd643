-------------------------- MODULE SignalIngestion --------------------------
(***************************************************************************)
(* The ingestion of one tenant's signals: receipts, alert occurrences, the *)
(* correlation of firing alerts into incidents and the requests to reopen  *)
(* closed ones.  Deliveries are at least once, in any order, and run       *)
(* concurrently; each is one transaction, serialised by the tenant's       *)
(* advisory lock.  Incidents meanwhile end and are reopened by others.     *)
(***************************************************************************)
EXTENDS Integers, FiniteSets

CONSTANTS
    Sessions,       \* concurrent ingestion transactions
    Scenarios,      \* sets of signals, one of which the sources deliver
    Duplicated,     \* occurrences with two alert rows, of hosts that wrote other keys
    Registered,     \* scopes whose service is registered from the start
    Incidents,      \* incident identifiers, numbers because ties are broken by them
    None,           \* no lock holder, incident, alert or signal
    WINDOW_SECONDS, \* width of the correlation window
    MAX_CANDIDATES, \* most candidates that are ranked
    FirstClock,     \* the receiver's clock at the start
    MaxClock        \* bound on the receiver's clock

SourceState == {"firing", "resolved"}
AlertSeverity == {"info", "low", "medium", "high", "critical"}

\* "event" is the source's event id, or the content's digest if the source gives none;
\* "scope" is the environment, service and category; "error" is what normalising it raises.
Signal ==
    [event : Nat, digest : Nat, kind : {"alert", "change"}, occurrence : Nat, scope : Nat,
     started : Nat, observed : Nat, state : SourceState, severity : AlertSeverity,
     error : {"none", "invalid_signal"}]

Signals == UNION Scenarios

\* The digest is of everything but the event id.
SameContent(s, t) == [s EXCEPT !.event = 0] = [t EXCEPT !.event = 0]

ASSUME IngestionAssumption ==
    /\ Scenarios \subseteq SUBSET Signal
    /\ \A s \in Signals : s.error = "none" => s.started <= s.observed
    /\ \A S \in Scenarios : \A s, t \in S : s.digest = t.digest => SameContent(s, t)
    /\ Registered \subseteq Nat /\ Duplicated \subseteq Nat
    /\ Incidents \subseteq Nat
    /\ None \notin Sessions /\ None \notin Nat /\ None \notin Signals
    /\ WINDOW_SECONDS \in Nat /\ MAX_CANDIDATES \in Nat
    /\ FirstClock \in Nat /\ MaxClock \in Nat /\ FirstClock <= MaxClock

Occurrences == {s.occurrence : s \in Signals}

VARIABLES
    sources,     \* the signals that are delivered, each any number of times
    clock,       \* the receiver's clock, with the allowed skew
    catalogue,   \* the scopes whose service is registered and active
    receipts,    \* signal_receipt
    alerts,      \* the alert of each occurrence, or None; duplicated ones stay as they are
    incidents,   \* the incident of each identifier, or None
    reopen,      \* incident_reopen_candidate
    heard,       \* ALERT_RECEIVED events appended for each content
    tenantLock,  \* holder of the tenant's advisory lock
    rowLock,     \* holder of each incident's row
    pc,          \* where each session is
    work         \* what each session has in hand

world == <<sources, clock, catalogue>>
tables == <<receipts, alerts, incidents, reopen, heard>>
vars == <<world, tables, tenantLock, rowLock, pc, work>>

ReceiptOutcome == {"accepted", "rejected", "retryable", "stale", "unchanged"}

Tag == {"canonical", "source_event_conflict", "unknown_service", "future_observation",
        "correlation_candidate_overflow"}

DeliveryKey == [event : Nat, digest : Nat, tag : Tag]

Receipt ==
    [key : DeliveryKey, signal : Signals, outcome : ReceiptOutcome,
     alert : Occurrences \cup {None}, incident : Incidents \cup {None}]

\* "latest" is the observation the row projects.
Alert == [latest : Signals, incident : Incidents \cup {None}]

\* "ended" remembers that the incident has been terminated before.
Incident ==
    [active : BOOLEAN, scope : Nat, anchor : Nat, severity : 1..4, ended : BOOLEAN]

ASSUME NoneAssumption == None \notin Alert /\ None \notin Incident

ReopenCandidate == [incident : Incidents, alert : Occurrences, receipt : DeliveryKey]

Work ==
    [signal : Signals \cup {None}, error : {"none", "invalid_signal", "future_observation"},
     active : BOOLEAN, candidates : SUBSET Incidents, incident : Incidents \cup {None}]

NoWork == [signal |-> None, error |-> "none", active |-> FALSE, candidates |-> {},
           incident |-> None]

TypeOK ==
    /\ sources \in Scenarios
    /\ clock \in FirstClock..MaxClock
    /\ catalogue \subseteq {s.scope : s \in Signals} \cup Registered
    /\ receipts \subseteq Receipt
    /\ alerts \in [Occurrences -> Alert \cup {None}]
    /\ incidents \in [Incidents -> Incident \cup {None}]
    /\ reopen \subseteq ReopenCandidate
    /\ heard \in [{s.digest : s \in Signals} -> Nat]
    /\ tenantLock \in Sessions \cup {None}
    /\ rowLock \in [Incidents -> Sessions \cup {None}]
    /\ pc \in [Sessions -> {"idle", "received", "attached", "select", "rank", "join"}]
    /\ work \in [Sessions -> Work]

Init ==
    /\ sources \in Scenarios
    /\ clock = FirstClock
    /\ catalogue = Registered
    /\ receipts = {} /\ reopen = {}
    /\ alerts = [o \in Occurrences |-> None]
    /\ incidents = [i \in Incidents |-> None]
    /\ heard = [d \in {s.digest : s \in Signals} |-> 0]
    /\ tenantLock = None
    /\ rowLock = [i \in Incidents |-> None]
    /\ pc = [s \in Sessions |-> "idle"]
    /\ work = [s \in Sessions |-> NoWork]

-----------------------------------------------------------------------------
(* Orders and keys.                                                        *)

_alert_severity_rank(severity) ==
    CASE severity = "info" -> 0
      [] severity = "low" -> 1
      [] severity = "medium" -> 2
      [] severity = "high" -> 3
      [] severity = "critical" -> 4

\* SEV1 .. SEV4: the smaller, the graver.
_severity(signal) ==
    CASE signal.severity = "critical" -> 1
      [] signal.severity = "high" -> 2
      [] signal.severity = "medium" -> 3
      [] signal.severity \in {"low", "info"} -> 4

ObservationRank(signal) ==
    <<signal.observed, IF signal.state = "resolved" THEN 1 ELSE 0,
      _alert_severity_rank(signal.severity), signal.digest>>

\* Tuples compare at the first place where they differ.
Precedes(a, b) ==
    \E n \in 1..4 : a[n] < b[n] /\ \A m \in 1..(n - 1) : a[m] = b[m]

\* Mutant: whatever is delivered last wins.
NotNewer_Never(signal, latest) == FALSE

NotNewer(signal, latest) ==
    ~Precedes(ObservationRank(latest), ObservationRank(signal))

canonical_key(signal) == [event |-> signal.event, digest |-> 0, tag |-> "canonical"]

derived_key(signal, tag) == [event |-> signal.event, digest |-> signal.digest, tag |-> tag]

Received(key) == \E r \in receipts : r.key = key

Retryable == {"unknown_service", "future_observation"}

-----------------------------------------------------------------------------
(* Transactions.                                                           *)

Release(s) ==
    /\ pc' = [pc EXCEPT ![s] = "idle"]
    /\ work' = [work EXCEPT ![s] = NoWork]
    /\ tenantLock' = IF tenantLock = s THEN None ELSE tenantLock
    /\ rowLock' = [i \in Incidents |-> IF rowLock[i] = s THEN None ELSE rowLock[i]]

\* The key is unique: a second insert fails.
AddReceipt(key, signal, outcome, alert, incident) ==
    /\ ~Received(key)
    /\ receipts' = receipts \cup
          {[key |-> key, signal |-> signal, outcome |-> outcome, alert |-> alert,
            incident |-> incident]}

\* Mutant: sessions do not wait for each other.
TenantFree_Always == TRUE

TenantFree == tenantLock = None

\* A delivery arrives, is normalised and waits for the tenant's lock: the time it is
\* compared with was read before the wait.
Receive(s, signal, ingested_at) ==
    /\ pc[s] = "idle" /\ TenantFree
    /\ tenantLock' = s
    /\ pc' = [pc EXCEPT ![s] = "received"]
    /\ work' = [work EXCEPT ![s] =
                  [NoWork EXCEPT !.signal = signal,
                                 !.error = IF signal.error # "none" THEN signal.error
                                           ELSE IF signal.observed > ingested_at
                                           THEN "future_observation" ELSE "none"]]
    /\ UNCHANGED <<world, tables, rowLock>>

\* The same event with other content: a rejection, not a retry.
Conflicts(signal) ==
    \E r \in receipts : r.key = canonical_key(signal) /\ r.signal.digest # signal.digest

AdmissionError(s) ==
    IF Conflicts(work[s].signal) THEN "source_event_conflict"
    ELSE IF work[s].error # "none" THEN work[s].error
    ELSE IF work[s].signal.scope \notin catalogue THEN "unknown_service"
    ELSE "none"

AdmissionKey(s) ==
    LET e == AdmissionError(s) IN
    IF e \in Retryable \cup {"source_event_conflict"}
    THEN derived_key(work[s].signal, e) ELSE canonical_key(work[s].signal)

\* A canonical receipt with the same content answers before anything is validated.
AlreadyReceived(s) ==
    \/ Received(canonical_key(work[s].signal)) /\ ~Conflicts(work[s].signal)
    \/ Received(AdmissionKey(s))

Admitting(s) == pc[s] = "received"

AnswerDuplicate(s) ==
    /\ Admitting(s) /\ AlreadyReceived(s)
    /\ Release(s)
    /\ UNCHANGED <<world, tables>>

RefuseSignal(s) ==
    /\ Admitting(s) /\ ~AlreadyReceived(s) /\ AdmissionError(s) # "none"
    /\ AddReceipt(AdmissionKey(s), work[s].signal,
                  IF AdmissionError(s) \in Retryable THEN "retryable" ELSE "rejected",
                  None, None)
    /\ Release(s)
    /\ UNCHANGED <<world, alerts, incidents, reopen, heard>>

Admitted(s) == Admitting(s) /\ ~AlreadyReceived(s) /\ AdmissionError(s) = "none"

RecordChange(s) ==
    /\ Admitted(s) /\ work[s].signal.kind = "change"
    /\ AddReceipt(AdmissionKey(s), work[s].signal, "accepted", None, None)
    /\ Release(s)
    /\ UNCHANGED <<world, alerts, incidents, reopen, heard>>

-----------------------------------------------------------------------------
(* Alerts.                                                                 *)

AlertOf(s) == alerts[work[s].signal.occurrence]

IsAlert(s) == Admitted(s) /\ work[s].signal.kind = "alert"

\* The row of this key and the one found by source, fingerprint and start are two.
Ambiguous(s) == work[s].signal.occurrence \in Duplicated

\* One occurrence belongs to one service, environment and category.
IdentityConflict(s) == AlertOf(s) # None /\ AlertOf(s).latest.scope # work[s].signal.scope

RejectOccurrence(s) ==
    /\ IsAlert(s) /\ (Ambiguous(s) \/ IdentityConflict(s))
    /\ AddReceipt(AdmissionKey(s), work[s].signal, "rejected", None, None)
    /\ Release(s)
    /\ UNCHANGED <<world, alerts, incidents, reopen, heard>>

Usable(s) == IsAlert(s) /\ ~Ambiguous(s) /\ ~IdentityConflict(s)

OldObservation(s) == AlertOf(s) # None /\ NotNewer(work[s].signal, AlertOf(s).latest)

\* Mutant: a retry is let through although its alert has found an incident since.
PendingRetry_Attached(s) ==
    LET signal == work[s].signal IN
    /\ signal.state = "firing"
    /\ \E r \in receipts :
          /\ r.alert = signal.occurrence /\ r.outcome = "retryable"
          /\ r.key.tag = "correlation_candidate_overflow"
          /\ r.signal.digest = signal.digest /\ r.signal.observed = signal.observed

\* retrying_unattached_firing: this very observation overflowed the correlation before.
PendingRetry(s) ==
    LET signal == work[s].signal IN
    /\ AlertOf(s).incident = None /\ signal.state = "firing"
    /\ \E r \in receipts :
          /\ r.alert = signal.occurrence /\ r.outcome = "retryable"
          /\ r.key.tag = "correlation_candidate_overflow"
          /\ r.signal.digest = signal.digest /\ r.signal.observed = signal.observed

\* An observation no newer than the projected one is recorded and suppressed.
SuppressAlert(s) ==
    /\ Usable(s) /\ OldObservation(s) /\ ~PendingRetry(s)
    /\ AddReceipt(AdmissionKey(s), work[s].signal,
                  IF ObservationRank(work[s].signal) = ObservationRank(AlertOf(s).latest)
                  THEN "unchanged" ELSE "stale",
                  work[s].signal.occurrence, AlertOf(s).incident)
    /\ Release(s)
    /\ UNCHANGED <<world, alerts, incidents, reopen, heard>>

Correlates(s) ==
    Usable(s) /\ (OldObservation(s) => PendingRetry(s))

Attached(s) == AlertOf(s) # None /\ AlertOf(s).incident # None

\* Store the alert; an observation that is not newer leaves the projection alone.
StoreAlert(s, incident) ==
    alerts' = [alerts EXCEPT ![work[s].signal.occurrence] =
                 [latest |-> IF OldObservation(s) THEN AlertOf(s).latest ELSE work[s].signal,
                  incident |-> incident]]

Hear(s) == heard' = [heard EXCEPT ![work[s].signal.digest] = @ + 1]

\* A resolution of an alert that no incident has creates none.
ResolveUnattached(s) ==
    /\ Correlates(s) /\ ~Attached(s) /\ work[s].signal.state = "resolved"
    /\ StoreAlert(s, None)
    /\ AddReceipt(AdmissionKey(s), work[s].signal, "accepted", work[s].signal.occurrence, None)
    /\ Release(s)
    /\ UNCHANGED <<world, incidents, reopen, heard>>

\* Read the incident the alert is attached to, and keep others from ending it.
OpenAttached(s) ==
    /\ Correlates(s) /\ Attached(s)
    /\ LET i == AlertOf(s).incident IN
          /\ rowLock[i] = None
          /\ rowLock' = [rowLock EXCEPT ![i] = s]
          /\ work' = [work EXCEPT ![s].incident = i, ![s].active = incidents[i].active]
    /\ pc' = [pc EXCEPT ![s] = "attached"]
    /\ UNCHANGED <<world, tables, tenantLock>>

\* A firing alert without an incident goes to correlation.
OpenUnattached(s) ==
    /\ Correlates(s) /\ ~Attached(s) /\ work[s].signal.state = "firing"
    /\ pc' = [pc EXCEPT ![s] = "select"]
    /\ UNCHANGED <<world, tables, tenantLock, rowLock, work>>

-----------------------------------------------------------------------------
(* Correlation.                                                            *)

Distance(i, signal) ==
    IF incidents[i].anchor > signal.started THEN incidents[i].anchor - signal.started
    ELSE signal.started - incidents[i].anchor

\* Only the anchor of the opening event counts: later arrivals do not slide the window.
Matches(i, signal) ==
    /\ incidents[i] # None /\ incidents[i].active
    /\ incidents[i].scope = signal.scope
    /\ Distance(i, signal) <= WINDOW_SECONDS

Candidates(signal) == {i \in Incidents : Matches(i, signal)}

\* Mutant: an overflow uses up the delivery's own key.
overflow_key_Canonical(signal) == canonical_key(signal)

overflow_key(signal) == derived_key(signal, "correlation_candidate_overflow")

\* Too many candidates to rank: the alert is stored, and the same delivery may come again.
Overflow(s) ==
    LET signal == work[s].signal IN
    /\ pc[s] = "select"
    /\ Cardinality(Candidates(signal)) > MAX_CANDIDATES
    /\ StoreAlert(s, None)
    /\ IF Received(overflow_key(signal)) THEN UNCHANGED receipts
       ELSE AddReceipt(overflow_key(signal), signal, "retryable", signal.occurrence, None)
    /\ Release(s)
    /\ UNCHANGED <<world, incidents, reopen, heard>>

Select(s) ==
    /\ pc[s] = "select"
    /\ Cardinality(Candidates(work[s].signal)) <= MAX_CANDIDATES
    /\ work' = [work EXCEPT ![s].candidates = Candidates(work[s].signal)]
    /\ pc' = [pc EXCEPT ![s] = "rank"]
    /\ UNCHANGED <<world, tables, tenantLock, rowLock>>

\* decide: the nearest anchor, then the smallest identifier.
Best(s, i) ==
    LET signal == work[s].signal IN
    /\ i \in work[s].candidates
    /\ \A j \in work[s].candidates :
          \/ Distance(i, signal) < Distance(j, signal)
          \/ Distance(i, signal) = Distance(j, signal) /\ i <= j

StillEligible(i) == incidents[i].active

\* Lock the best candidate and look again; one that has ended meanwhile is passed over.
LockCandidate(s) ==
    /\ pc[s] = "rank"
    /\ \E i \in work[s].candidates :
          /\ Best(s, i)
          /\ rowLock[i] \in {None, s}
          /\ rowLock' = [rowLock EXCEPT ![i] = s]
          /\ IF StillEligible(i)
             THEN /\ work' = [work EXCEPT ![s].incident = i]
                  /\ pc' = [pc EXCEPT ![s] = "join"]
             ELSE /\ work' = [work EXCEPT ![s].candidates = @ \ {i}]
                  /\ UNCHANGED pc
    /\ UNCHANGED <<world, tables, tenantLock>>

Graver(s, incident) ==
    IF work[s].signal.state = "firing" /\ _severity(work[s].signal) < incident.severity
    THEN [incident EXCEPT !.severity = _severity(work[s].signal)]
    ELSE incident

AcceptInto(s, i) ==
    /\ StoreAlert(s, i)
    /\ AddReceipt(canonical_key(work[s].signal), work[s].signal, "accepted",
                  work[s].signal.occurrence, i)
    /\ Hear(s)
    /\ Release(s)

\* No candidate is left: open an incident anchored at the alert, with its request for
\* an investigation.
OpenIncident(s) ==
    /\ pc[s] = "rank" /\ work[s].candidates = {}
    /\ \E i \in Incidents :
          /\ incidents[i] = None
          /\ incidents' = [incidents EXCEPT ![i] =
                             [active |-> TRUE, scope |-> work[s].signal.scope,
                              anchor |-> work[s].signal.started,
                              severity |-> _severity(work[s].signal), ended |-> FALSE]]
          /\ AcceptInto(s, i)
    /\ UNCHANGED <<world, reopen>>

JoinIncident(s) ==
    /\ pc[s] = "join"
    /\ incidents' = [incidents EXCEPT ![work[s].incident] = Graver(s, @)]
    /\ AcceptInto(s, work[s].incident)
    /\ UNCHANGED <<world, reopen>>

UpdateIncident(s) ==
    /\ pc[s] = "attached" /\ work[s].active
    /\ incidents' = [incidents EXCEPT ![work[s].incident] = Graver(s, @)]
    /\ AcceptInto(s, work[s].incident)
    /\ UNCHANGED <<world, reopen>>

\* One open candidate per incident and alert.
AsksToReopen(s) ==
    /\ work[s].signal.state = "firing"
    /\ ~\E c \in reopen : c.incident = work[s].incident /\ c.alert = work[s].signal.occurrence

\* The incident has ended: nothing reopens it but a human, who is asked to.
UpdateTerminated(s) ==
    /\ pc[s] = "attached" /\ ~work[s].active
    /\ reopen' = reopen \cup
          IF AsksToReopen(s)
          THEN {[incident |-> work[s].incident, alert |-> work[s].signal.occurrence,
                 receipt |-> canonical_key(work[s].signal)]}
          ELSE {}
    /\ AcceptInto(s, work[s].incident)
    /\ UNCHANGED <<world, incidents>>

\* A lock timeout, a crash or any other exception.
Abort(s) ==
    /\ pc[s] # "idle"
    /\ Release(s)
    /\ UNCHANGED <<world, tables>>

-----------------------------------------------------------------------------
(* Everything else.                                                        *)

Tick ==
    /\ clock < MaxClock
    /\ clock' = clock + 1
    /\ UNCHANGED <<sources, catalogue, tables, tenantLock, rowLock, pc, work>>

RegisterService(scope) ==
    /\ scope \notin catalogue
    /\ catalogue' = catalogue \cup {scope}
    /\ UNCHANGED <<sources, clock, tables, tenantLock, rowLock, pc, work>>

\* apply_transition into and out of a terminal status.
Terminate(i) ==
    /\ incidents[i] # None /\ incidents[i].active /\ rowLock[i] = None
    /\ incidents' = [incidents EXCEPT ![i].active = FALSE, ![i].ended = TRUE]
    /\ UNCHANGED <<world, receipts, alerts, reopen, heard, tenantLock, rowLock,
                   pc, work>>

Reopen(i) ==
    /\ incidents[i] # None /\ ~incidents[i].active /\ rowLock[i] = None
    /\ incidents' = [incidents EXCEPT ![i].active = TRUE]
    /\ UNCHANGED <<world, receipts, alerts, reopen, heard, tenantLock, rowLock,
                   pc, work>>

Next ==
    \/ \E s \in Sessions :
          \/ AnswerDuplicate(s) \/ RefuseSignal(s) \/ RecordChange(s)
          \/ RejectOccurrence(s) \/ SuppressAlert(s) \/ ResolveUnattached(s)
          \/ OpenAttached(s) \/ OpenUnattached(s)
          \/ Overflow(s) \/ Select(s) \/ LockCandidate(s)
          \/ OpenIncident(s) \/ JoinIncident(s) \/ UpdateIncident(s) \/ UpdateTerminated(s)
          \/ Abort(s)
          \/ \E signal \in sources, ingested_at \in FirstClock..clock : Receive(s, signal, ingested_at)
    \/ Tick \/ \E signal \in sources : RegisterService(signal.scope)
    \/ \E i \in Incidents : Terminate(i) \/ Reopen(i)

Spec == Init /\ [][Next]_vars

-----------------------------------------------------------------------------
(* What makes the properties inductive.                                    *)

\* A session at work has the tenant to itself.
OneAtWork ==
    \A s \in Sessions : pc[s] # "idle" =>
        /\ tenantLock = s /\ work[s].signal \in sources
        /\ work[s].error = "invalid_signal" => work[s].signal.error # "none"
        /\ work[s].error = "none" => work[s].signal.error = "none"

\* An alert shows an observation of its own occurrence, and its incident exists;
\* an incident that is not active has ended; an ambiguous occurrence is left alone.
RowsStand ==
    /\ \A o \in Occurrences \cap Duplicated : alerts[o] = None
    /\ \A o \in Occurrences : alerts[o] # None =>
          /\ alerts[o].latest \in sources /\ alerts[o].latest.occurrence = o
          /\ alerts[o].incident # None => incidents[alerts[o].incident] # None
    /\ \A i \in Incidents : incidents[i] # None => incidents[i].active \/ incidents[i].ended

Overflowed(r) == r.key.tag = "correlation_candidate_overflow"

\* A receipt names the alert of its own signal; the retryable receipt of an alert is
\* the overflow of an admitted observation.
ReceiptsStand ==
    \A r \in receipts :
        /\ r.signal \in sources
        /\ r.alert # None => r.alert = r.signal.occurrence /\ alerts[r.alert] # None
        /\ (r.alert # None /\ r.outcome = "retryable") = Overflowed(r)
        /\ Overflowed(r) =>
              /\ r.key = overflow_key(r.signal)
              /\ r.signal.kind = "alert" /\ r.signal.error = "none"

\* An observation that was heard is in an incident, and its alert is as new.
HeardIsShown ==
    \A signal \in sources : heard[signal.digest] > 0 =>
        LET alert == alerts[signal.occurrence] IN
        alert # None /\ alert.incident # None /\ NotNewer(signal, alert.latest)

\* Incidents an alert of the signal would have to join, had they never ended.
Unended(signal) ==
    {i \in Incidents : /\ incidents[i] # None /\ ~incidents[i].ended
                       /\ incidents[i].scope = signal.scope
                       /\ Distance(i, signal) <= WINDOW_SECONDS}

\* What a session has found out stays true until it is done, though the incidents it
\* ranks may end and come back.
FoundStaysTrue ==
    \A s \in Sessions : pc[s] \in {"attached", "select", "rank", "join"} =>
        /\ work[s].signal.kind = "alert" /\ work[s].signal.error = "none"
        /\ work[s].signal.occurrence \notin Duplicated
        /\ ~Received(canonical_key(work[s].signal))
        /\ OldObservation(s) => PendingRetry(s)
        /\ pc[s] = "attached" => Attached(s) /\ work[s].incident = AlertOf(s).incident
        /\ pc[s] # "attached" => ~Attached(s) /\ work[s].signal.state = "firing"
        /\ pc[s] = "rank" => Unended(work[s].signal) \subseteq work[s].candidates
        /\ pc[s] = "rank" => \A i \in work[s].candidates : incidents[i] # None
        /\ pc[s] = "join" => work[s].incident # None /\ incidents[work[s].incident] # None

-----------------------------------------------------------------------------
(* Properties.                                                             *)

(***************************************************************************)
(* However often an observation is delivered, under whatever event ids,    *)
(* concurrently or retried after an overflow, an incident hears of it once *)
(* (deduplication, and the ordering of observations).                      *)
(***************************************************************************)
HeardOnce == \A d \in DOMAIN heard : heard[d] <= 1

(***************************************************************************)
(* Whatever the order of delivery, an alert shows the latest observation   *)
(* among all that were received for it.                                    *)
(***************************************************************************)
ShowsLatest ==
    \A r \in receipts : r.alert # None =>
        ~Precedes(ObservationRank(alerts[r.alert].latest), ObservationRank(r.signal))

(***************************************************************************)
(* Two incidents are open for one burst - same scope, anchors within the   *)
(* window - only if one of them had ended in between, although sessions    *)
(* correlate concurrently and candidates end while they are ranked.        *)
(***************************************************************************)
OneIncidentPerBurst ==
    \A i, j \in Incidents :
        /\ i # j /\ incidents[i] # None /\ incidents[j] # None
        /\ incidents[i].scope = incidents[j].scope
        /\ incidents[i].anchor - incidents[j].anchor \in -WINDOW_SECONDS..WINDOW_SECONDS
        => incidents[i].ended \/ incidents[j].ended

(***************************************************************************)
(* A firing alert that no incident has can still get one: the observation  *)
(* it shows overflowed the correlation, left a retryable receipt and did   *)
(* not use up its delivery's own key.                                      *)
(***************************************************************************)
FiringIsNotLost ==
    \A o \in Occurrences :
        /\ alerts[o] # None /\ alerts[o].incident = None /\ alerts[o].latest.state = "firing"
        => \E r \in receipts :
              /\ r.alert = o /\ r.outcome = "retryable"
              /\ r.signal.digest = alerts[o].latest.digest
              /\ ~\E q \in receipts : q.key = canonical_key(r.signal) /\ q.signal = r.signal

=============================================================================
