---------------------------- MODULE IncidentLog ----------------------------
(***************************************************************************)
(* The event log of one incident and everything derived from it: the       *)
(* materialised status, the gapless sequence and the timeline.  Sessions   *)
(* are database transactions at READ COMMITTED: API requests, graph nodes, *)
(* the ingestion path, the worker.  Each reads the incident, may be made   *)
(* to wait for the incident row's lock, and writes a draft that becomes    *)
(* visible at its commit or never.                                         *)
(***************************************************************************)
EXTENDS IncidentState, Integers

CONSTANTS
    Sessions,     \* concurrent transactions
    Nobody,       \* no lock holder
    Requests,     \* idempotency keys of API requests
    EventKeys,    \* idempotency keys of the system's own repeatable events
    NoKey,        \* an event without a key, a session without a request
    MaxEvents,    \* bound on the length of the log
    MaxVersion    \* bound on the versions of the incident row

ASSUME LogAssumption ==
    /\ Nobody \notin Sessions
    /\ NoKey \notin Requests \cup EventKeys
    /\ Requests \cap EventKeys = {}
    /\ MaxEvents \in Nat /\ MaxVersion \in Nat

VARIABLES
    status,       \* incident.status
    version,      \* incident.version_id: ORM writes of the row check and bump it
    highWater,    \* incident.event_sequence_high_water: written past the ORM, unversioned
    log,          \* the incident_event rows
    timeline,     \* sequences of the events that have a timeline_event row
    remembered,   \* keys with an api_idempotency_record
    rowLock,      \* holder of the incident row
    keyLock,      \* holder of each request key's advisory lock
    pc,           \* where each session is
    snap,         \* status, version and high-water mark each session read
    request,      \* the API request a session serves
    key,          \* the key of the event a session is about to append
    draft         \* a session's uncommitted writes

rowVars == <<status, version, highWater>>
committed == <<rowVars, log, timeline, remembered>>
vars == <<committed, rowLock, keyLock, pc, snap, request, key, draft>>

\* An annotation's event key is derived from its request.
Keys == Requests \cup EventKeys

EventKind == {"state_changed", "severity_changed", "annotated", "suppressed"}

\* "request" is no column: it is the API call that caused the event, for RequestAppliedOnce.
Event ==
    [sequence : Nat, kind : EventKind, from : IncidentStatus, to : IncidentStatus,
     key : Keys \cup {NoKey}, request : Requests \cup {NoKey}]

\* TIMELINE_RULES: bookkeeping of the ingestion path is not shown.
is_visible_on_timeline(e) == e.kind # "suppressed"

Row == [status : IncidentStatus, version : Nat, highWater : Nat]

Draft ==
    [dirty : BOOLEAN, status : IncidentStatus, version : Nat, highWater : Nat,
     events : SUBSET Event, timeline : SUBSET Nat]

NoDraft == [dirty |-> FALSE, status |-> "detected", version |-> 0, highWater |-> 0,
            events |-> {}, timeline |-> {}]

NoRow == [status |-> "detected", version |-> 0, highWater |-> 0]

SessionStep == {"idle", "read", "keyed", "written"}

TypeOK ==
    /\ status \in IncidentStatus /\ version \in Nat /\ highWater \in Nat
    /\ log \subseteq Event
    /\ timeline \subseteq Nat
    /\ remembered \subseteq Requests
    /\ rowLock \in Sessions \cup {Nobody}
    /\ keyLock \in [Requests -> Sessions \cup {Nobody}]
    /\ pc \in [Sessions -> SessionStep]
    /\ snap \in [Sessions -> Row]
    /\ request \in [Sessions -> Requests \cup {NoKey}]
    /\ key \in [Sessions -> Keys \cup {NoKey}]
    /\ draft \in [Sessions -> Draft]

\* The incident as ingestion opens it.
Init ==
    /\ status = "detected" /\ version = 1 /\ highWater = 0
    /\ log = {} /\ timeline = {} /\ remembered = {}
    /\ rowLock = Nobody /\ keyLock = [k \in Requests |-> Nobody]
    /\ pc = [s \in Sessions |-> "idle"]
    /\ snap = [s \in Sessions |-> NoRow]
    /\ request = [s \in Sessions |-> NoKey]
    /\ key = [s \in Sessions |-> NoKey]
    /\ draft = [s \in Sessions |-> NoDraft]

-----------------------------------------------------------------------------
(* Transactions.                                                           *)

Goto(s, step) == pc' = [pc EXCEPT ![s] = step]

EndSession(s) ==
    /\ Goto(s, "idle")
    /\ snap' = [snap EXCEPT ![s] = NoRow]
    /\ request' = [request EXCEPT ![s] = NoKey]
    /\ key' = [key EXCEPT ![s] = NoKey]
    /\ draft' = [draft EXCEPT ![s] = NoDraft]
    /\ rowLock' = IF rowLock = s THEN Nobody ELSE rowLock
    /\ keyLock' = [k \in Requests |-> IF keyLock[k] = s THEN Nobody ELSE keyLock[k]]

\* Mutant: the counter is taken outside the transaction, like a database sequence.
Rollback_KeepsCounter(s) ==
    /\ EndSession(s)
    /\ highWater' = IF draft[s].dirty THEN draft[s].highWater ELSE highWater
    /\ UNCHANGED <<status, version, log, timeline, remembered>>

Rollback(s) == EndSession(s) /\ UNCHANGED committed

\* No other transaction holds the row: an UPDATE or a SELECT FOR UPDATE goes through.
RowFree(s) == rowLock \in {Nobody, s}

\* The row as this transaction sees it.
Current(s) ==
    IF draft[s].dirty
    THEN [status |-> draft[s].status, version |-> draft[s].version,
          highWater |-> draft[s].highWater]
    ELSE [status |-> status, version |-> version, highWater |-> highWater]

\* Lock the row and write it, with one more event.
Write(s, row, e) ==
    /\ rowLock' = s
    /\ draft' = [draft EXCEPT ![s] =
                   [dirty |-> TRUE, status |-> row.status, version |-> row.version,
                    highWater |-> e.sequence, events |-> draft[s].events \cup {e},
                    timeline |-> draft[s].timeline]]

-----------------------------------------------------------------------------
(* What a session does.                                                    *)

\* A plain read of the incident: nothing keeps it from being stale when it is used.
Read(s) ==
    /\ pc[s] = "idle"
    /\ Goto(s, "read")
    /\ snap' = [snap EXCEPT ![s] = Current(s)]
    /\ UNCHANGED <<committed, rowLock, keyLock, request, key, draft>>

\* The ingestion path and the worker's rejection read under the row lock.
ReadLocked(s) ==
    /\ pc[s] = "idle"
    /\ RowFree(s)
    /\ rowLock' = s
    /\ Goto(s, "read")
    /\ snap' = [snap EXCEPT ![s] = Current(s)]
    /\ UNCHANGED <<committed, keyLock, request, key, draft>>

\* _replay: wait for the request key's lock, then answer a repeated delivery from its
\* record.  The incident was read before.
Replay(s, k) ==
    /\ pc[s] = "read" /\ request[s] = NoKey /\ rowLock # s
    /\ keyLock[k] = Nobody
    /\ IF k \in remembered
       THEN Rollback(s)
       ELSE /\ request' = [request EXCEPT ![s] = k]
            /\ keyLock' = [keyLock EXCEPT ![k] = s]
            /\ UNCHANGED <<committed, rowLock, pc, snap, key, draft>>

\* Mutant: the UPDATE does not compare the version.
VersionMatches_Always(s) == TRUE

\* UPDATE incident ... WHERE version_id = <the version read>.
VersionMatches(s) == snap[s].version = Current(s).version

\* The number follows the mark the locked row has now.
NextSequence(s) == Current(s).highWater + 1

EventOf(s, kind, from, to, k) ==
    [sequence |-> NextSequence(s), kind |-> kind, from |-> from, to |-> to, key |-> k,
     request |-> request[s]]

\* A request changes the incident once; a node's transaction may write it several times.
MayWrite(s) == pc[s] = "read" \/ (pc[s] = "written" /\ request[s] = NoKey)

\* Mutant: the status column is written without its event.
Transition_NoEvent(s, target, actor) ==
    /\ MayWrite(s)
    /\ assert_transition_allowed(snap[s].status, target, actor, TRUE, TRUE)
    /\ RowFree(s)
    /\ Current(s).version < MaxVersion
    /\ VersionMatches(s)
    /\ Goto(s, "written")
    /\ rowLock' = s
    /\ draft' = [draft EXCEPT ![s] =
                   [dirty |-> TRUE, status |-> target, version |-> Current(s).version + 1,
                    highWater |-> Current(s).highWater, events |-> draft[s].events,
                    timeline |-> draft[s].timeline]]
    /\ UNCHANGED <<committed, keyLock, snap, request, key>>

\* apply_transition: the state machine judges the status that was read; the flush writes
\* it under the version check and leaves the row locked for the event that follows.
Transition(s, target, actor) ==
    /\ MayWrite(s)
    /\ assert_transition_allowed(snap[s].status, target, actor, TRUE, TRUE)
    /\ RowFree(s)
    /\ Current(s).version < MaxVersion /\ Current(s).highWater < MaxEvents
    /\ IF ~VersionMatches(s)
       THEN Rollback(s)
       ELSE /\ Goto(s, "written")
            /\ Write(s, [status |-> target, version |-> Current(s).version + 1],
                     EventOf(s, "state_changed", snap[s].status, target, NoKey))
            /\ snap' = [snap EXCEPT ![s].status = target,
                                    ![s].version = Current(s).version + 1]
            /\ UNCHANGED <<committed, keyLock, request, key>>

\* Ingestion raises the severity of an incident it has locked: the row's other ORM write.
ChangeSeverity(s) ==
    /\ MayWrite(s) /\ rowLock = s
    /\ Current(s).version < MaxVersion /\ Current(s).highWater < MaxEvents
    /\ IF ~VersionMatches(s)
       THEN Rollback(s)
       ELSE /\ Goto(s, "written")
            /\ Write(s, [status |-> Current(s).status, version |-> Current(s).version + 1],
                     EventOf(s, "severity_changed", Current(s).status, Current(s).status,
                             NoKey))
            /\ snap' = [snap EXCEPT ![s].version = Current(s).version + 1]
            /\ UNCHANGED <<committed, keyLock, request, key>>

\* append_incident_event looks its key up before it waits for the lock.
LookupKey(s, k) ==
    /\ MayWrite(s)
    /\ IF k \in Requests THEN request[s] = k ELSE request[s] = NoKey
    /\ \A e \in log \cup draft[s].events : e.key # k
    /\ key' = [key EXCEPT ![s] = k]
    /\ Goto(s, "keyed")
    /\ UNCHANGED <<committed, rowLock, keyLock, snap, request, draft>>

\* The insert, refused by a unique index if the key or the number is taken.
InsertKeyed(s) ==
    /\ pc[s] = "keyed"
    /\ RowFree(s)
    /\ Current(s).highWater < MaxEvents
    /\ IF \E e \in log : e.key = key[s] \/ e.sequence = NextSequence(s)
       THEN Rollback(s)
       ELSE /\ Goto(s, "written")
            /\ Write(s, Current(s), EventOf(s, "annotated", Current(s).status, Current(s).status, key[s]))
            /\ key' = [key EXCEPT ![s] = NoKey]
            /\ UNCHANGED <<committed, keyLock, snap, request>>

\* An event that may repeat carries no key.
InsertUnkeyed(s) ==
    /\ MayWrite(s) /\ request[s] = NoKey
    /\ RowFree(s)
    /\ Current(s).highWater < MaxEvents
    /\ IF \E e \in log : e.sequence = NextSequence(s)
       THEN Rollback(s)
       ELSE /\ Goto(s, "written")
            /\ Write(s, Current(s), EventOf(s, "suppressed", Current(s).status, Current(s).status, NoKey))
            /\ UNCHANGED <<committed, keyLock, snap, request, key>>

\* The visible events this transaction sees and no timeline row cites yet.
Unprojected(s) ==
    {e.sequence : e \in {f \in log \cup draft[s].events :
                            is_visible_on_timeline(f) /\ f.sequence \notin timeline}}

\* Mutant: the timeline is written outside the transaction.
Project_Eager(s) ==
    /\ MayWrite(s) /\ request[s] = NoKey
    /\ timeline' = timeline \cup Unprojected(s)
    /\ Goto(s, "written")
    /\ UNCHANGED <<rowVars, log, remembered, rowLock, keyLock, snap, request, key, draft>>

\* project_timeline, in one step (what commits between its two reads only makes the unique
\* index refuse it, as Abort may at any time): by the investigation's finalisation and by the postmortem author.
Project(s) ==
    /\ MayWrite(s) /\ request[s] = NoKey
    /\ draft' = [draft EXCEPT ![s].timeline = Unprojected(s)]
    /\ Goto(s, "written")
    /\ UNCHANGED <<committed, rowLock, keyLock, snap, request, key>>

\* _remember: the request's record commits with its effect.
Remember(s) == {request[s]} \ {NoKey}

\* Everything the session drafted becomes visible at once - unless another session has
\* projected one of the same events, which the unique index refuses.
Commit(s) ==
    /\ pc[s] = "written"
    /\ draft[s].timeline \cap timeline = {}
    /\ status' = Current(s).status
    /\ version' = Current(s).version
    /\ highWater' = Current(s).highWater
    /\ log' = log \cup draft[s].events
    /\ timeline' = timeline \cup draft[s].timeline
    /\ remembered' = remembered \cup Remember(s)
    /\ EndSession(s)

ProjectionRefused(s) ==
    /\ pc[s] = "written"
    /\ draft[s].timeline \cap timeline # {}
    /\ Rollback(s)

\* A crash, a refused transition or any other exception.
Abort(s) == pc[s] # "idle" /\ Rollback(s)

Next ==
    \E s \in Sessions :
        \/ Read(s) \/ ReadLocked(s) \/ ChangeSeverity(s)
        \/ InsertKeyed(s) \/ InsertUnkeyed(s) \/ Project(s)
        \/ Commit(s) \/ ProjectionRefused(s) \/ Abort(s)
        \/ \E k \in Requests : Replay(s, k)
        \/ \E k \in Keys : LookupKey(s, k)
        \/ \E target \in IncidentStatus, actor \in ActorType : Transition(s, target, actor)

Spec == Init /\ [][Next]_vars

-----------------------------------------------------------------------------
(* Properties.                                                             *)

\* Each derivation is stated of any log, so that it can be asked of what has committed
\* and of what a session is about to commit.
GaplessIn(events, mark) ==
    /\ \A e \in events : e.sequence \in 1..mark
    /\ \A n \in 1..mark : \E e \in events : e.sequence = n
    /\ \A e, f \in events : e.sequence = f.sequence => e = f

IsStateChange(e) == e.kind = "state_changed"

\* e is the last state change below sequence number n.
LastChangeBelow(events, e, n) ==
    /\ IsStateChange(e) /\ e.sequence < n
    /\ \A f \in events : IsStateChange(f) /\ f.sequence < n => f.sequence <= e.sequence

NoChangeBelow(events, n) == \A f \in events : IsStateChange(f) => f.sequence >= n

\* recompute_incident_status.
DerivesIn(events, mark, st) ==
    /\ NoChangeBelow(events, mark + 1) => st = "detected"
    /\ \A e \in events : LastChangeBelow(events, e, mark + 1) => st = e.to

WalkIn(events) ==
    \A f \in events : IsStateChange(f) =>
        /\ Permitted(f.from, f.to)
        /\ NoChangeBelow(events, f.sequence) => f.from = "detected"
        /\ \A e \in events : LastChangeBelow(events, e, f.sequence) => f.from = e.to

NoHoleIn(events, shown) ==
    \A n \in shown :
        /\ \E e \in events : e.sequence = n /\ is_visible_on_timeline(e)
        /\ \A e \in events : is_visible_on_timeline(e) /\ e.sequence < n => e.sequence \in shown

OnceIn(events) ==
    \A e, f \in events :
        \/ e.request = f.request /\ e.request # NoKey
        \/ e.key = f.key /\ e.key # NoKey
        => e = f

(***************************************************************************)
(* Whatever transactions race, roll back or crash, the committed sequence  *)
(* numbers are exactly 1 .. event_sequence_high_water, one event each: a   *)
(* gap always means a lost event (event_sequence_gaps).                    *)
(***************************************************************************)
Gapless == GaplessIn(log, highWater)

(***************************************************************************)
(* The materialised status is the one the log derives                      *)
(* (assert_status_matches_log never raises), although severity changes,    *)
(* annotations and stale transitions write the same row.                   *)
(***************************************************************************)
StatusMatchesLog == DerivesIn(log, highWater, status)

(***************************************************************************)
(* Read in order, the state changes are one walk through the transition    *)
(* table from "detected": no two racing writers both leave the same state, *)
(* although each judged a status it had read without a lock.               *)
(***************************************************************************)
LogIsAWalk == WalkIn(log)

(***************************************************************************)
(* An API request delivered twice, even concurrently, leaves one event in  *)
(* the log (_replay and _remember), and an event key is used once.         *)
(***************************************************************************)
RequestAppliedOnce == OnceIn(log)

(***************************************************************************)
(* The timeline cites committed events only and has no hole: it never      *)
(* shows an event while leaving out an earlier visible one.                *)
(***************************************************************************)
TimelineHasNoHole == NoHoleIn(log, timeline)

(***************************************************************************)
(* A session that holds the row never draws a number that is taken, so no  *)
(* append is lost to the unique index on the sequence.                     *)
(***************************************************************************)
HolderDrawsFreshNumber ==
    \A s \in Sessions : rowLock = s => \A e \in log : e.sequence < NextSequence(s)

-----------------------------------------------------------------------------
(* What makes them inductive: a session's view - the committed rows with   *)
(* its draft on top - has the same properties, and a draft exists only     *)
(* under the row lock.                                                     *)

View(s) == log \cup draft[s].events

Sound(events, mark, st) ==
    GaplessIn(events, mark) /\ DerivesIn(events, mark, st) /\ WalkIn(events)

CommittedIsSound == Sound(log, highWater, status)

ViewIsSound ==
    \A s \in Sessions : Sound(View(s), Current(s).highWater, Current(s).status)

DraftUnderLock ==
    \A s \in Sessions :
        /\ draft[s].dirty => rowLock = s /\ draft[s].version >= version
        /\ ~draft[s].dirty => draft[s].events = {}
        /\ pc[s] \in {"idle", "read"} => ~draft[s].dirty
        /\ \A e \in draft[s].events : e.sequence > highWater

\* A version that still matches has kept its status.
SnapshotIsVersioned ==
    \A s \in Sessions :
        pc[s] # "idle" =>
            /\ snap[s].version <= Current(s).version
            /\ snap[s].version = Current(s).version => snap[s].status = Current(s).status

\* A version that a draft has kept has kept its status.
DraftIsVersioned ==
    \A s \in Sessions : Current(s).version = version => Current(s).status = status

RequestHeld ==
    /\ \A s \in Sessions : request[s] # NoKey =>
          /\ keyLock[request[s]] = s /\ request[s] \notin remembered
          /\ pc[s] \in {"read", "keyed"} => draft[s].events = {}
    /\ \A e \in log : e.request # NoKey => e.request \in remembered
    /\ \A s \in Sessions : \A e \in draft[s].events : e.request = request[s]

KeyIsNew ==
    \A s \in Sessions :
        /\ OnceIn(View(s))
        /\ pc[s] = "keyed" => \A e \in draft[s].events : e.key # key[s]

ProjectionIsSound ==
    \A s \in Sessions : NoHoleIn(View(s), timeline \cup draft[s].timeline)
=============================================================================
