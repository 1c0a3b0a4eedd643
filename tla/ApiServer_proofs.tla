------------------------- MODULE ApiServer_proofs -------------------------
(***************************************************************************)
(* Keys, answers and hand-offs for any requests, policies and pool sizes.  *)
(* The argument: a key is held by one request from the moment it finds no  *)
(* record until it commits, the record goes in with the change, and only   *)
(* age takes it away; a request is told of success only in the step that   *)
(* commits, or when it repeats what a record speaks of.                    *)
(***************************************************************************)
EXTENDS ApiServer, FiniteSetTheorems, TLAPS

\* At most one request is pending, without counting.
OnePending == \A i, j \in Pending : i = j

Reopened == incident \notin WithHumans /\ ~left => live # None \/ Pending # {}

\* Only a run takes the incident beyond its investigation.
RunTookIt ==
    live # None \/ left \/ incident \in WithHumans \/ incident = "investigating"

KeyInv == KeyHeldAlone /\ OnItsWay /\ Remembered /\ KeyActsOnce

HandoffInv == OnePending /\ Reopened /\ RunTookIt

Inv == KeyInv /\ HandoffInv

---------------------------------------------------------------------------
\* The shortest retention a valid policy may give an idempotency record is one day.
LEMMA KeptDaysIsOne == KeptDays = 1
<1>1. "operational_cache" \in RetentionClass
  BY DEF RetentionClass
<1>2. CLASS_POLICIES["operational_cache"] = Bounds(30, 1, 365, TRUE)
  BY <1>1 DEF CLASS_POLICIES
<1>3. QED
  BY <1>2 DEF KeptDays, Bounds

\* A record a valid policy lets go of is older than the shortest retention.
LEMMA PastCutoffIsOld ==
    ASSUME NEW policy \in Policies, IsValidPolicy(policy), NEW now \in Int, NEW rows,
           NEW row \in PastCutoff(rows, policy, now), row.day \in Int
    PROVE  now > row.day + KeptDays
<1> DEFINE c == "operational_cache"
           days == Resolved(policy, c).days
<1>1. c \in RetentionClass
  BY DEF RetentionClass
<1>2. CLASS_POLICIES[c] = Bounds(30, 1, 365, TRUE)
  BY <1>1 DEF CLASS_POLICIES
<1>3. /\ CLASS_POLICIES[c].default_days = 30 /\ CLASS_POLICIES[c].minimum_days = 1
      /\ CLASS_POLICIES[c].maximum_days = 365
  BY <1>2 DEF Bounds
<1>4. days \in Int /\ 1 <= days
  <2>1. CASE c \in DOMAIN policy
    <3>1. policy[c].days \in Int /\ days = policy[c].days
      BY <2>1, PolicyAssumption DEF Resolved
    <3>2. policy[c].days = CLASS_POLICIES[c].default_days \/ WithinBounds(c, policy[c].days)
      BY <2>1 DEF IsValidPolicy
    <3>3. QED
      BY <1>3, <3>1, <3>2 DEF WithinBounds, Unset
  <2>2. CASE c \notin DOMAIN policy
    BY <1>3, <2>2 DEF Resolved
  <2>3. QED
    BY <2>1, <2>2
<1>5. row.day < now - days
  BY DEF PastCutoff
<1> HIDE DEF days
<1>6. QED
  BY <1>4, <1>5, KeptDaysIsOne

\* What covers a call goes on covering it.
LEMMA CoversLasts ==
    ASSUME day \in Nat, day' \in Nat, day <= day', NEW e, e.day \in Nat, NEW c, Covers(e, c)
    PROVE  Covers(e, c)'
BY KeptDaysIsOne DEF Covers, Makes

---------------------------------------------------------------------------
\* With no request sent and no row written the invariant holds.
LEMMA InitHolds == Init => TypeOK /\ Inv
<1> SUFFICES ASSUME Init PROVE TypeOK /\ Inv
  OBVIOUS
<1>1. "unsent" \in Stage
  BY DEF Stage
<1>2. TypeOK
  <2>1. left \in BOOLEAN /\ worker.at = "idle" /\ live = None
    BY DEF Init
  <2>2. /\ handoffs \in Seq([status : {"pending", "started", "rejected"}, attempts : 0..MaxAttempts])
        /\ worker \in [at : {"idle", "counted", "driving", "refused"}, item : Nat \cup {None}]
        /\ day \in 0..MaxDay /\ records = {} /\ effects = {}
    BY ApiAssumption DEF Init
  <2>3. stage \in [Requests -> Stage] /\ answer \in [Requests -> Told \cup {None}]
    BY <1>1 DEF Init
  <2>4. \E s \in Setups : call = s.call /\ connections = s.connections
    BY DEF Init
  <2>5. QED
    BY <2>1, <2>2, <2>3, <2>4 DEF TypeOK
<1>3. /\ effects = {} /\ records = {} /\ incident \in WithHumans
      /\ \A r \in Requests : stage[r] = "unsent"
  BY DEF Init, WithHumans
<1>4. KeyInv
  BY <1>3 DEF KeyInv, KeyHeldAlone, OnItsWay, Remembered, KeyActsOnce, In, KeyHeld, Slotted
<1>5. Pending = {}
  BY DEF Init, Pending
<1>6. HandoffInv
  BY <1>3, <1>5 DEF HandoffInv, OnePending, Reopened, RunTookIt
<1>7. QED
  BY <1>2, <1>4, <1>6 DEF Inv

\* A step that leaves the incident, the requests for remediation and the runs alone.
LEMMA HandoffFrame ==
    ASSUME TypeOK, HandoffInv, UNCHANGED <<incident, handoffs, live, left>>
    PROVE  HandoffInv'
BY DEF HandoffInv, OnePending, Reopened, RunTookIt, Pending, IsPending

\* A request goes on, and no row of the stores is written.
LEMMA RequestStep ==
    ASSUME TypeOK, Inv, NEW r \in Requests, NEW s \in Stage, NEW a \in Told \cup {None},
           stage' = [stage EXCEPT ![r] = s], answer' = [answer EXCEPT ![r] = a],
           UNCHANGED <<setup, storeVars, handoffVars, day>>,
           stage[r] = "unsent" => r \in DOMAIN call, stage[r] # "answered",
           stage[r] = "replying" => s = "answered" /\ a = answer[r],
           s \in KeyHeld => stage[r] \in KeyHeld \/ (RecordOf(r) = {} /\ KeyFree(r)),
           s \in Slotted => call[r].op = "ingest_alert",
           s = "failing" => a # "ok",
           s \in {"replying", "answered"} /\ a = "ok" /\ call[r].op \in Changes =>
               \E e \in effects : Covers(e, call[r])
    PROVE  TypeOK' /\ Inv'
<1>1. UNCHANGED <<call, connections, records, effects, incident, handoffs, live, worker, left, day>>
  BY DEF setup, storeVars, handoffVars
<1>2. /\ stage' \in [Requests -> Stage] /\ stage'[r] = s /\ answer'[r] = a
      /\ answer' \in [Requests -> Told \cup {None}]
      /\ \A q \in Requests : q # r => stage'[q] = stage[q] /\ answer'[q] = answer[q]
  BY DEF TypeOK
<1>3. TypeOK'
  BY <1>1, <1>2 DEF TypeOK
<1>4. KeyHeldAlone /\ OnItsWay /\ Remembered /\ KeyActsOnce
  BY DEF Inv, KeyInv
<1>5. KeyHeldAlone'
  <2> SUFFICES ASSUME NEW p \in Requests, stage'[p] \in KeyHeld
               PROVE  /\ RecordOf(p) = {}
                      /\ \A q \in Requests : q # p /\ stage'[q] \in KeyHeld => ~SameKey(q, p)
    BY <1>1 DEF KeyHeldAlone, In, RecordOf, SameKey
  <2>1. CASE p = r
    <3>1. CASE stage[r] \in KeyHeld
      BY <1>2, <1>4, <2>1, <3>1 DEF KeyHeldAlone, In
    <3>2. CASE stage[r] \notin KeyHeld
      BY <1>2, <2>1, <3>2 DEF KeyFree
    <3>3. QED
      BY <3>1, <3>2
  <2>2. CASE p # r
    <3>1. stage[p] \in KeyHeld
      BY <1>2, <2>2
    <3>2. RecordOf(p) = {} /\ \A q \in Requests : q # p /\ stage[q] \in KeyHeld => ~SameKey(q, p)
      BY <1>4, <3>1 DEF KeyHeldAlone, In
    <3>3. stage'[r] \in KeyHeld => ~SameKey(r, p)
      <4>1. CASE stage[r] \in KeyHeld
        BY <2>2, <3>2, <4>1
      <4>2. CASE stage[r] \notin KeyHeld
        <5>1. SameKey(r, p) => SameKey(p, r)
          BY DEF SameKey
        <5>2. QED
          BY <1>2, <2>2, <3>1, <4>2, <5>1 DEF KeyFree
      <4>3. QED
        BY <4>1, <4>2
    <3>4. QED
      BY <1>2, <3>2, <3>3
  <2>3. QED
    BY <2>1, <2>2
<1>6. OnItsWay'
  <2>1. \A e \in effects : /\ e.by \in Requests /\ stage[e.by] \in {"replying", "answered"}
                           /\ answer[e.by] \in {"ok", "lost"}
    BY <1>4 DEF OnItsWay, TypeOK
  <2>2. \A e \in effects : stage'[e.by] \in {"replying", "answered"} /\ answer'[e.by] \in {"ok", "lost"}
    BY <1>2, <2>1
  <2>3. \A p \in Requests : stage'[p] \in Slotted => call[p].op = "ingest_alert"
    BY <1>2, <1>4 DEF OnItsWay, In
  <2>4. \A p \in Requests : stage'[p] = "failing" => answer'[p] # "ok"
    BY <1>2, <1>4 DEF OnItsWay, In
  <2>5. \A p \in Requests : stage'[p] # "unsent" => p \in DOMAIN call
    BY <1>2, <1>4 DEF OnItsWay, In
  <2>6. QED
    BY <1>1, <2>2, <2>3, <2>4, <2>5 DEF OnItsWay, In
<1>7. Remembered'
  <2>1. \A e, c : Covers(e, c)' <=> (/\ e.user = c.user /\ e.key = c.key /\ e.op = c.op
                                     /\ (e.body = c.body \/ (e.op = "annotate" /\ day > e.day + KeptDays)))
    BY <1>1 DEF Covers, Makes
  <2>2. \A e, c : Covers(e, c) <=> (/\ e.user = c.user /\ e.key = c.key /\ e.op = c.op
                                     /\ (e.body = c.body \/ (e.op = "annotate" /\ day > e.day + KeptDays)))
    BY DEF Covers, Makes
  <2>3. \A p \in Requests : stage'[p] \in {"replying", "answered"} /\ answer'[p] = "ok"
                            /\ call[p].op \in Changes => \E e \in effects : Covers(e, call[p])
    BY <1>2, <1>4 DEF Remembered, In
  <2>4. QED
    BY <1>1, <1>4, <2>1, <2>2, <2>3 DEF Remembered, In
<1>8. KeyActsOnce'
  BY <1>1, <1>4 DEF KeyActsOnce
<1>9. HandoffInv'
  BY <1>1, HandoffFrame DEF Inv
<1>10. QED
  BY <1>3, <1>5, <1>6, <1>7, <1>8, <1>9 DEF Inv, KeyInv

---------------------------------------------------------------------------
\* The ways a request goes on.
LEMMA GoesOn ==
    ASSUME TypeOK, Inv, NEW r \in Requests, NEW s \in Stage, Go(r, s), UNCHANGED answer,
           UNCHANGED <<setup, storeVars, handoffVars, day>>,
           stage[r] = "unsent" => r \in DOMAIN call,
           stage[r] \notin {"replying", "answered"}, s \notin {"failing", "replying", "answered"},
           s \in KeyHeld => stage[r] \in KeyHeld \/ (RecordOf(r) = {} /\ KeyFree(r)),
           s \in Slotted => call[r].op = "ingest_alert"
    PROVE  TypeOK' /\ Inv'
<1>1. answer' = [answer EXCEPT ![r] = answer[r]] /\ answer[r] \in Told \cup {None}
  BY DEF TypeOK
<1>2. stage' = [stage EXCEPT ![r] = s]
  BY DEF Go
<1>3. QED
  BY <1>1, <1>2, RequestStep

\* An endpoint that refuses gives its connection back with the problem it tells.
LEMMA Raises ==
    ASSUME TypeOK, Inv, NEW r \in Requests, NEW problem \in Told \ {"ok"}, Raise(r, problem),
           UNCHANGED <<setup, storeVars, handoffVars, day>>,
           stage[r] \notin {"unsent", "replying", "answered"}
    PROVE  TypeOK' /\ Inv'
<1>1. "failing" \in Stage /\ "failing" \notin KeyHeld /\ "failing" \notin Slotted
  BY DEF Stage, OnConnection, KeyHeld, Slotted
<1>2. stage' = [stage EXCEPT ![r] = "failing"] /\ answer' = [answer EXCEPT ![r] = problem]
  BY DEF Raise, Go
<1>3. QED
  BY <1>1, <1>2, RequestStep

\* An endpoint that succeeds without writing repeats what a record speaks of.
LEMMA Returns ==
    ASSUME TypeOK, Inv, NEW r \in Requests, Return(r),
           UNCHANGED <<setup, storeVars, handoffVars, day>>,
           stage[r] \notin {"unsent", "replying", "answered"},
           call[r].op \in Changes => \E e \in effects : Covers(e, call[r])
    PROVE  TypeOK' /\ Inv'
<1>1. /\ "replying" \in Stage /\ "replying" \notin KeyHeld /\ "replying" \notin Slotted
      /\ "ok" \in Told
  BY DEF Stage, KeyHeld, Slotted, Told
<1>2. stage' = [stage EXCEPT ![r] = "replying"] /\ answer' = [answer EXCEPT ![r] = "ok"]
  BY DEF Return, Go
<1>3. QED
  BY <1>1, <1>2, RequestStep

\* The answer is sent, or the client learns nothing.
LEMMA Answers ==
    ASSUME TypeOK, Inv, NEW r \in Requests, NEW what \in Told \cup {None}, Answer(r, what),
           UNCHANGED <<setup, storeVars, handoffVars, day>>,
           stage[r] \notin {"unsent", "answered"}, stage[r] = "replying" => what = answer[r],
           stage[r] # "replying" /\ what = "ok" => call[r].op \notin Changes
    PROVE  TypeOK' /\ Inv'
<1>1. "answered" \in Stage /\ "answered" \notin KeyHeld /\ "answered" \notin Slotted
  BY DEF Stage, KeyHeld, Slotted
<1>2. stage' = [stage EXCEPT ![r] = "answered"] /\ answer' = [answer EXCEPT ![r] = what]
  BY DEF Answer, Go
<1>3. what = "ok" /\ call[r].op \in Changes => \E e \in effects : Covers(e, call[r])
  <2>1. CASE stage[r] = "replying"
    BY <2>1 DEF Inv, KeyInv, Remembered, In
  <2>2. QED
    BY <2>1
<1>4. QED
  BY <1>1, <1>2, <1>3, RequestStep

---------------------------------------------------------------------------
\* Authentication, connections and threads.
LEMMA AdmissionStep ==
    ASSUME TypeOK, Inv, NEW r \in Requests,
           \/ Send(r) \/ Verify(r) \/ authenticate(r) \/ CallEndpoint(r) \/ TakeThread(r)
           \/ Connect(r)
    PROVE  TypeOK' /\ Inv'
<1>1. UNCHANGED answer /\ UNCHANGED <<setup, storeVars, handoffVars, day>>
  BY DEF Send, Verify, authenticate, CallEndpoint, TakeThread, Connect
<1>2. stage[r] \in Slotted => call[r].op = "ingest_alert"
  BY DEF Inv, KeyInv, OnItsWay, In
<1>3. ASSUME NEW s \in {"arrived", "verifying", "admitted", "called", "scoping", "ingesting",
                        "loading", "reading", "recording", "scoped", "persisting"},
             Go(r, s), stage[r] \notin {"replying", "answered"},
             stage[r] = "unsent" => r \in DOMAIN call,
             s \in Slotted => stage[r] \in Slotted
      PROVE  TypeOK' /\ Inv'
  <2>1. s \in Stage /\ s \notin KeyHeld /\ s \notin {"failing", "replying", "answered"}
    BY DEF Stage, OnThread, OnConnection, AwaitsConnection, InTransaction, KeyHeld
  <2>2. QED
    BY <1>1, <1>2, <1>3, <2>1, GoesOn
<1>4. CASE Send(r)
  <2>1. Go(r, "arrived") /\ stage[r] = "unsent" /\ r \in DOMAIN call /\ "arrived" \notin Slotted
    BY <1>4 DEF Send, Slotted
  <2>2. QED
    BY <1>3, <2>1
<1>5. CASE Verify(r)
  <2>1. Go(r, "verifying") /\ stage[r] = "arrived" /\ "verifying" \notin Slotted
    BY <1>5 DEF Verify, Slotted
  <2>2. QED
    BY <1>3, <2>1
<1>6. CASE authenticate(r)
  <2>1. Go(r, "admitted") /\ stage[r] = "loading" /\ "admitted" \notin Slotted
    BY <1>6 DEF authenticate, Slotted
  <2>2. QED
    BY <1>3, <2>1
<1>7. CASE CallEndpoint(r)
  <2>1. Go(r, "called") /\ stage[r] = "admitted" /\ "called" \notin Slotted
    BY <1>7 DEF CallEndpoint, Slotted
  <2>2. QED
    BY <1>3, <2>1
<1>8. CASE TakeThread(r)
  <2>1. /\ Go(r, "scoping") \/ Go(r, "ingesting")
        /\ stage[r] \in {"slotted", "body"}
        /\ stage[r] \in Slotted
    BY <1>8 DEF TakeThread, Slotted
  <2>2. QED
    BY <1>3, <2>1
<1>9. CASE Connect(r)
  <2>1. stage[r] \in AwaitsConnection /\ Go(r, AfterConnecting[stage[r]])
    BY <1>9 DEF Connect
  <2>2. /\ AfterConnecting[stage[r]] \in {"loading", "reading", "recording", "scoped", "persisting"}
        /\ stage[r] \notin {"unsent", "replying", "answered"}
        /\ AfterConnecting[stage[r]] \in Slotted => stage[r] \in Slotted
    BY <2>1 DEF AwaitsConnection, AfterConnecting, Slotted
  <2>3. QED
    BY <1>3, <2>1, <2>2
<1>10. QED
  BY <1>4, <1>5, <1>6, <1>7, <1>8, <1>9

\* Refusals and deadlines.
LEMMA RefusalStep ==
    ASSUME TypeOK, Inv, NEW r \in Requests,
           RefuseToken(r) \/ PoolTimeout(r) \/ SlotTimeout(r) \/ _record_denial(r)
    PROVE  TypeOK' /\ Inv'
<1>1. /\ UNCHANGED <<setup, storeVars, handoffVars, day>>
      /\ stage[r] \notin {"unsent", "replying", "answered"}
      /\ \E what \in {"refused", "denied", "busy"} : Answer(r, what)
  BY DEF RefuseToken, PoolTimeout, SlotTimeout, _record_denial, AwaitsConnection
<1>2. {"refused", "denied", "busy"} \subseteq Told \ {"ok"}
  BY DEF Told
<1>3. QED
  BY <1>1, <1>2, Answers

\* The end of a request, and the audit of a denial.
LEMMA EndStep ==
    ASSUME TypeOK, Inv, NEW r \in Requests, Teardown(r) \/ Respond(r) \/ permission_denied(r)
    PROVE  TypeOK' /\ Inv'
<1>1. UNCHANGED <<setup, storeVars, handoffVars, day>>
  BY DEF Teardown, Respond, permission_denied
<1>2. answer[r] \in Told \cup {None} /\ "denied" \in Told
  BY DEF TypeOK, Told
<1>3. \A s \in {"denied", "auditing"} : /\ s \in Stage /\ s \notin KeyHeld /\ s \notin Slotted
                                      /\ s \notin {"failing", "replying", "answered"}
  BY DEF Stage, OnThread, AwaitsConnection, KeyHeld, Slotted
<1>4. CASE Teardown(r)
  <2>1. stage[r] = "failing" /\ answer[r] # "ok"
    BY <1>4 DEF Teardown, Inv, KeyInv, OnItsWay, In
  <2>2. (Go(r, "denied") /\ UNCHANGED answer) \/ Answer(r, answer[r])
    BY <1>4 DEF Teardown
  <2>3. QED
    BY <1>1, <1>2, <1>3, <2>1, <2>2, GoesOn, Answers
<1>5. CASE Respond(r)
  <2>1. stage[r] = "replying" /\ Answer(r, answer[r])
    BY <1>5 DEF Respond
  <2>2. QED
    BY <1>1, <1>2, <2>1, Answers
<1>6. CASE permission_denied(r)
  <2>1. stage[r] = "denied"
    BY <1>6 DEF permission_denied
  <2>2. (Go(r, "auditing") /\ UNCHANGED answer) \/ Answer(r, "denied")
    BY <1>6 DEF permission_denied
  <2>3. QED
    BY <1>1, <1>2, <1>3, <2>1, <2>2, GoesOn, Answers
<1>7. QED
  BY <1>4, <1>5, <1>6

\* The ingestion endpoint takes a slot and checks the scope; it changes no row here.
LEMMA IngestionStep ==
    ASSUME TypeOK, Inv, NEW r \in Requests, ingest_alert(r) \/ CheckScope(r) \/ Ingest(r)
    PROVE  TypeOK' /\ Inv'
<1>1. UNCHANGED <<setup, storeVars, handoffVars, day>>
  BY DEF ingest_alert, CheckScope, Ingest
<1>2. {"denied", "not_found", "ok", "invalid"} \subseteq Told
  BY DEF Told
<1>3. stage[r] \in Slotted => call[r].op = "ingest_alert"
  BY DEF Inv, KeyInv, OnItsWay, In
<1>4. \A s \in {"slotted", "body", "denied"} :
         /\ s \in Stage /\ s \notin KeyHeld /\ s \notin {"failing", "replying", "answered"}
         /\ s \in Slotted <=> s # "denied"
  BY DEF Stage, KeyHeld, Slotted
<1>5. CASE ingest_alert(r)
  <2>1. stage[r] = "admitted" /\ call[r].op = "ingest_alert"
    BY <1>5 DEF ingest_alert
  <2>2. CASE Go(r, "slotted") /\ UNCHANGED answer
    BY <1>1, <1>4, <2>1, <2>2, GoesOn
  <2>3. CASE Go(r, "denied") /\ answer' = [answer EXCEPT ![r] = "denied"]
    <3>1. stage' = [stage EXCEPT ![r] = "denied"]
      BY <2>3 DEF Go
    <3>2. QED
      BY <1>1, <1>2, <1>4, <2>1, <2>3, <3>1, RequestStep
  <2>4. QED
    BY <1>5, <2>2, <2>3 DEF ingest_alert
<1>6. CASE CheckScope(r)
  <2>1. stage[r] = "scoped" /\ stage[r] \in Slotted
    BY <1>6 DEF CheckScope, _check_connector_scope, Slotted
  <2>2. (Go(r, "body") /\ UNCHANGED answer) \/ Answer(r, "not_found")
    BY <1>6 DEF CheckScope, _check_connector_scope
  <2>3. QED
    BY <1>1, <1>2, <1>3, <1>4, <2>1, <2>2, GoesOn, Answers
<1>7. CASE Ingest(r)
  <2>1. stage[r] = "persisting" /\ stage[r] \in Slotted
    BY <1>7 DEF Ingest, Slotted
  <2>2. call[r].op \notin Changes
    BY <1>3, <2>1 DEF Changes
  <2>3. Answer(r, "ok") \/ Answer(r, "invalid")
    BY <1>7 DEF Ingest
  <2>4. QED
    BY <1>1, <1>2, <2>1, <2>2, <2>3, Answers
<1>8. QED
  BY <1>5, <1>6, <1>7

\* The endpoints that only read.
LEMMA ReadStep ==
    ASSUME TypeOK, Inv, NEW r \in Requests, Read(r)
    PROVE  TypeOK' /\ Inv'
<1>1. UNCHANGED <<setup, storeVars, handoffVars, day>> /\ stage[r] = "reading"
  BY DEF Read
<1>2. call[r].op \notin Changes
  BY DEF Read, ListIncidents, ReadIncident, ReadApprovals, ReadEvaluation,
         ReadAdministration, ReadAudit, Changes
<1>3. Return(r) \/ Raise(r, "denied") \/ Raise(r, "not_found")
  BY DEF Read, ListIncidents, ReadIncident, ReadApprovals, ReadEvaluation,
         ReadAdministration, ReadAudit, Unless
<1>4. {"denied", "not_found"} \subseteq Told \ {"ok"}
  BY DEF Told
<1>5. QED
  BY <1>1, <1>2, <1>3, <1>4, Returns, Raises

\* The endpoints that change something, up to their write.
LEMMA PrepareStep ==
    ASSUME TypeOK, Inv, NEW r \in Requests,
           Authorize(r) \/ _replay(r) \/ NoLiveRun(r) \/ NoPendingRequest(r) \/ Prepare(r)
    PROVE  TypeOK' /\ Inv'
<1>1. UNCHANGED <<setup, storeVars, handoffVars, day>>
  BY DEF Authorize, _replay, NoLiveRun, NoPendingRequest, Prepare
<1>2. {"denied", "not_found", "conflict"} \subseteq Told \ {"ok"}
  BY DEF Told
<1>3. KeyHeld = {"keyed", "checked", "writing"}
  BY DEF KeyHeld
<1>4. \A s \in {"keyed", "checked", "writing"} :
         s \in Stage /\ s \notin Slotted /\ s \notin {"failing", "replying", "answered"}
  BY DEF Stage, OnThread, InTransaction, Slotted
<1>5. CASE Authorize(r)
  <2>1. stage[r] = "reading" /\ (Raise(r, "not_found") \/ Raise(r, "denied"))
    BY <1>5 DEF Authorize
  <2>2. QED
    BY <1>1, <1>2, <2>1, Raises
<1>6. CASE _replay(r)
  <2>1. stage[r] = "reading" /\ KeyFree(r)
    BY <1>6 DEF _replay
  <2>2. CASE RecordOf(r) = {}
    <3>1. Go(r, "keyed") /\ UNCHANGED answer
      BY <1>6, <2>2 DEF _replay
    <3>2. QED
      BY <1>1, <1>4, <2>1, <2>2, <3>1, GoesOn
  <2>3. CASE RecordOf(r) # {} /\ \E rec \in RecordOf(r) : Repeats(r, rec)
    <3>1. PICK rec \in records : /\ rec.user = call[r].user /\ rec.key = call[r].key
                                 /\ rec.op = call[r].op /\ rec.body = call[r].body
      BY <2>3 DEF RecordOf, Repeats
    <3>2. PICK e \in effects : Covers(e, rec)
      BY DEF Inv, KeyInv, Remembered
    <3>3. Covers(e, call[r])
      BY <3>1, <3>2 DEF Covers, Makes
    <3>4. Return(r)
      BY <1>6, <2>3 DEF _replay
    <3>5. QED
      BY <1>1, <2>1, <3>3, <3>4, Returns
  <2>4. CASE RecordOf(r) # {} /\ ~\E rec \in RecordOf(r) : Repeats(r, rec)
    <3>1. Raise(r, "conflict")
      BY <1>6, <2>4 DEF _replay
    <3>2. QED
      BY <1>1, <1>2, <2>1, <3>1, Raises
  <2>5. QED
    BY <2>2, <2>3, <2>4
<1>7. CASE NoLiveRun(r) \/ NoPendingRequest(r) \/ Prepare(r)
  <2>1. /\ stage[r] \in {"keyed", "checked"} /\ stage[r] \in KeyHeld
        /\ \/ Raise(r, "conflict")
           \/ (Go(r, "checked") /\ UNCHANGED answer)
           \/ (Go(r, "writing") /\ UNCHANGED answer)
    BY <1>3, <1>7 DEF NoLiveRun, NoPendingRequest, Prepare
  <2>2. QED
    BY <1>1, <1>2, <1>4, <2>1, GoesOn, Raises
<1>8. QED
  BY <1>5, <1>6, <1>7

---------------------------------------------------------------------------
\* The write: the change, its record and the answer commit together.
LEMMA RefusedWrite ==
    ASSUME TypeOK, Inv, NEW r \in Requests, Write(r), Refusal(r) # None
    PROVE  TypeOK' /\ Inv'
<1>1. stage[r] = "writing" /\ Raise(r, Refusal(r))
  BY DEF Write
<1>2. UNCHANGED <<setup, storeVars, handoffVars, day>>
  BY DEF Write, storeVars, handoffVars
<1>3. Refusal(r) \in {"conflict", "error"}
  BY DEF Refusal
<1>4. Refusal(r) \in Told \ {"ok"}
  BY <1>3 DEF Told
<1>5. QED
  BY <1>1, <1>2, <1>4, Raises

\* No record under a key that is held: a change under it is past the retention.
LEMMA HeldKeyIsOld ==
    ASSUME TypeOK, Inv, NEW r \in Requests, stage[r] \in KeyHeld, NEW e \in effects,
           e.user = call[r].user, e.key = call[r].key
    PROVE  day > e.day + KeptDays
<1>1. RecordOf(r) = {}
  BY DEF Inv, KeyInv, KeyHeldAlone, In
<1>2. \/ day > e.day + KeptDays
      \/ \E rec \in records : rec.user = e.user /\ rec.key = e.key /\ rec.day = e.day
  BY DEF Inv, KeyInv, Remembered
<1>3. QED
  BY <1>1, <1>2 DEF RecordOf

\* A write adds its change and its record together, under the key it holds.
LEMMA WriteKeepsKeys ==
    ASSUME TypeOK, Inv, NEW r \in Requests, Write(r), Refusal(r) = None
    PROVE  /\ stage' \in [Requests -> Stage] /\ answer' \in [Requests -> Told \cup {None}]
           /\ \A rec \in records' : rec.day \in 0..day'
           /\ \A e \in effects' : e.day \in 0..day' /\ e.by \in Requests
           /\ KeyInv'
<1> DEFINE new == Effect(r)
           rec0 == Record(r)
<1>1. /\ stage[r] = "writing" /\ stage' = [stage EXCEPT ![r] = "replying"]
      /\ answer' = [answer EXCEPT ![r] = "ok"] /\ records' = records \cup {rec0}
      /\ effects' = IF AlreadyAnnotated(r) THEN effects ELSE effects \cup {new}
      /\ UNCHANGED <<call, connections, day>>
  BY DEF Write, Return, Go, _remember, setup
<1>2. /\ new.user = call[r].user /\ new.key = call[r].key /\ new.op = call[r].op
      /\ new.body = call[r].body /\ new.by = r /\ new.day = day
  BY DEF Effect
<1>3. /\ rec0.user = call[r].user /\ rec0.key = call[r].key /\ rec0.op = call[r].op
      /\ rec0.body = call[r].body /\ rec0.day = day
  BY DEF Record
<1> HIDE DEF new, rec0
<1>4. day \in Nat
  BY ApiAssumption DEF TypeOK
<1>5. stage[r] \in KeyHeld /\ "replying" \notin KeyHeld /\ "replying" \notin Slotted
  BY <1>1 DEF KeyHeld, Slotted
<1>6. /\ stage' \in [Requests -> Stage] /\ stage'[r] = "replying" /\ answer'[r] = "ok"
      /\ answer' \in [Requests -> Told \cup {None}]
      /\ \A q \in Requests : q # r => stage'[q] = stage[q] /\ answer'[q] = answer[q]
  BY <1>1 DEF TypeOK, Stage, Told
<1>7. KeyHeldAlone /\ OnItsWay /\ Remembered /\ KeyActsOnce
  BY DEF Inv, KeyInv
<1>8. \A rec \in records' : rec.day \in 0..day'
  BY <1>1, <1>3, <1>4 DEF TypeOK
<1>9. \A e \in effects' : e.day \in 0..day' /\ e.by \in Requests
  BY <1>1, <1>2, <1>4 DEF TypeOK
<1>10. KeyHeldAlone'
  <2> SUFFICES ASSUME NEW p \in Requests, stage'[p] \in KeyHeld
               PROVE  /\ \A rec \in records' : ~(rec.user = call[p].user /\ rec.key = call[p].key)
                      /\ \A q \in Requests : q # p /\ stage'[q] \in KeyHeld => ~SameKey(q, p)
    BY <1>1 DEF KeyHeldAlone, In, RecordOf, SameKey
  <2>1. p # r /\ stage[p] \in KeyHeld
    BY <1>5, <1>6
  <2>2. RecordOf(p) = {} /\ \A q \in Requests : q # p /\ stage[q] \in KeyHeld => ~SameKey(q, p)
    BY <1>7, <2>1 DEF KeyHeldAlone, In
  <2>3. ~SameKey(r, p)
    BY <1>5, <2>1, <2>2
  <2>4. \A rec \in records' : ~(rec.user = call[p].user /\ rec.key = call[p].key)
    BY <1>1, <1>3, <2>2, <2>3 DEF RecordOf, SameKey
  <2>5. \A q \in Requests : q # p /\ stage'[q] \in KeyHeld => ~SameKey(q, p)
    BY <1>5, <1>6, <2>2
  <2>6. QED
    BY <2>4, <2>5
<1>11. OnItsWay'
  <2>1. \A e \in effects' : stage'[e.by] \in {"replying", "answered"} /\ answer'[e.by] \in {"ok", "lost"}
    BY <1>1, <1>2, <1>6, <1>7, <1>9 DEF OnItsWay
  <2>2. \A p \in Requests : /\ stage'[p] \in Slotted => call[p].op = "ingest_alert"
                            /\ stage'[p] = "failing" => answer'[p] # "ok"
                            /\ stage'[p] # "unsent" => p \in DOMAIN call
    BY <1>1, <1>5, <1>6, <1>7 DEF OnItsWay, In
  <2>3. QED
    BY <1>1, <2>1, <2>2 DEF OnItsWay, In
<1>12. \A e \in effects : e.user = call[r].user /\ e.key = call[r].key => day > e.day + KeptDays
  BY <1>5, HeldKeyIsOld
<1>13. \E e \in effects' : Covers(e, call[r]) /\ Covers(e, rec0)
  <2>1. CASE AlreadyAnnotated(r)
    <3>1. PICK e \in effects : e.op = "annotate" /\ e.user = call[r].user /\ e.key = call[r].key
      BY <2>1 DEF AlreadyAnnotated
    <3>2. call[r].op = "annotate" /\ effects' = effects /\ day > e.day + KeptDays
      BY <1>1, <1>12, <2>1, <3>1 DEF AlreadyAnnotated
    <3>3. QED
      BY <1>3, <3>1, <3>2 DEF Covers, Makes
  <2>2. CASE ~AlreadyAnnotated(r)
    BY <1>1, <1>2, <1>3, <2>2 DEF Covers, Makes
  <2>3. QED
    BY <2>1, <2>2
<1>14. effects \subseteq effects' /\ records \subseteq records' /\ rec0 \in records'
  BY <1>1
<1>15. Remembered'
  <2>1. \A e \in effects' : \/ day > e.day + KeptDays
                            \/ \E rec \in records' : rec.user = e.user /\ rec.key = e.key
                                                     /\ rec.day = e.day
    <3> SUFFICES ASSUME NEW e \in effects'
                 PROVE  \/ day > e.day + KeptDays
                        \/ \E rec \in records' : rec.user = e.user /\ rec.key = e.key
                                                 /\ rec.day = e.day
      OBVIOUS
    <3>1. CASE e \in effects
      BY <1>7, <1>14, <3>1 DEF Remembered
    <3>2. CASE e = new
      BY <1>2, <1>3, <1>14, <3>2
    <3>3. QED
      BY <1>1, <3>1, <3>2
  <2>2. \A rec \in records' : \E e \in effects' : Covers(e, rec)
    BY <1>1, <1>7, <1>13, <1>14 DEF Remembered
  <2>3. \A p \in Requests : stage'[p] \in {"replying", "answered"} /\ answer'[p] = "ok"
                            /\ call[p].op \in Changes => \E e \in effects' : Covers(e, call[p])
    BY <1>6, <1>7, <1>13, <1>14 DEF Remembered, In
  <2>4. \A e, c : Covers(e, c) => Covers(e, c)'
    BY <1>1 DEF Covers, Makes
  <2>5. \A rec \in records' : \E e \in effects' : Covers(e, rec)'
    BY <2>2, <2>4
  <2>6. \A p \in Requests : stage'[p] \in {"replying", "answered"} /\ answer'[p] = "ok"
                            /\ call[p].op \in Changes => \E e \in effects' : Covers(e, call[p])'
    BY <1>1, <2>3 DEF Covers, Makes
  <2>7. QED
    BY <1>1, <2>1, <2>5, <2>6 DEF Remembered, In
<1>16. KeyActsOnce'
  <2>1. \A e \in effects : /\ e.user = new.user /\ e.key = new.key
                           => /\ new.day > e.day + KeptDays
                              /\ AlreadyAnnotated(r) \/ e.op # "annotate" \/ new.op # "annotate"
    BY <1>2, <1>12 DEF AlreadyAnnotated
  <2> SUFFICES ASSUME NEW e \in effects', NEW f \in effects', e # f, e.user = f.user,
                      e.key = f.key
               PROVE  /\ e.op # "annotate" \/ f.op # "annotate"
                      /\ e.day > f.day + KeptDays \/ f.day > e.day + KeptDays
    BY DEF KeyActsOnce
  <2>2. CASE e \in effects /\ f \in effects
    BY <1>7, <2>2 DEF KeyActsOnce
  <2>3. CASE ~AlreadyAnnotated(r) /\ e = new /\ f \in effects
    BY <2>1, <2>3
  <2>4. CASE ~AlreadyAnnotated(r) /\ f = new /\ e \in effects
    BY <2>1, <2>4
  <2>5. QED
    BY <1>1, <2>2, <2>3, <2>4
<1>17. QED
  BY <1>6, <1>8, <1>9, <1>10, <1>11, <1>15, <1>16 DEF KeyInv

\* A hand-off is made only where none is pending.
LEMMA WriteKeepsHandoffs ==
    ASSUME TypeOK, Inv, NEW r \in Requests, Write(r), Refusal(r) = None
    PROVE  /\ handoffs' \in Seq([status : {"pending", "started", "rejected"},
                                 attempts : 0..MaxAttempts])
           /\ Len(handoffs) <= Len(handoffs') /\ left' \in BOOLEAN /\ HandoffInv'
<1> DEFINE H == [status : {"pending", "started", "rejected"}, attempts : 0..MaxAttempts]
<1>1. stage[r] = "writing" /\ live' = live /\ handoffs \in Seq(H) /\ left \in BOOLEAN
      /\ OnePending /\ Reopened /\ RunTookIt
  BY DEF Write, TypeOK, Inv, HandoffInv
<1>2. CASE call[r].op = "request_remediation"
  <2>1. Pending = {}
    BY <1>2, ApiAssumption DEF Refusal, uq_pending_incident
  <2>2. handoffs' = Append(handoffs, RemediationRequest)
    BY <1>2 DEF Write
  <2>3. RemediationRequest \in H /\ RemediationRequest.status = "pending"
    BY ApiAssumption DEF RemediationRequest
  <2> HIDE DEF H
  <2>4. /\ handoffs' \in Seq(H) /\ Len(handoffs') = Len(handoffs) + 1
        /\ handoffs'[Len(handoffs) + 1] = RemediationRequest
        /\ \A i \in 1..Len(handoffs) : handoffs'[i] = handoffs[i]
    BY <1>1, <2>2, <2>3
  <2>5. Len(handoffs) \in Nat
    BY <1>1
  <2>6. Pending' = {Len(handoffs) + 1}
    <3>1. \A i \in 1..Len(handoffs) : ~IsPending(handoffs[i])
      BY <2>1 DEF Pending
    <3>2. \A i \in 1..(Len(handoffs) + 1) : IsPending(handoffs'[i]) <=> i = Len(handoffs) + 1
      BY <2>3, <2>4, <2>5, <3>1 DEF IsPending
    <3>3. Pending' = {i \in 1..(Len(handoffs) + 1) : IsPending(handoffs'[i])}
      BY <2>4 DEF Pending, IsPending
    <3>4. QED
      BY <2>5, <3>2, <3>3
  <2>7. /\ left' \in BOOLEAN
        /\ (incident' = "investigating") \/ (incident' = incident /\ left' = left)
    BY <1>1, <1>2 DEF Write, Moved
  <2>8. HandoffInv'
    BY <1>1, <2>6, <2>7 DEF HandoffInv, OnePending, Reopened, RunTookIt
  <2>9. QED
    BY <2>4, <2>5, <2>7, <2>8 DEF H
<1>3. CASE call[r].op # "request_remediation"
  <2>1. handoffs' = handoffs
    BY <1>3 DEF Write
  <2>2. CASE call[r].op = "control"
    <3>1. incident' = call[r].body /\ left' = FALSE
      BY <2>2 DEF Write, MovesIncident, Moved
    <3>2. r \in DOMAIN call
      BY <1>1 DEF Inv, KeyInv, OnItsWay, In
    <3>3. call[r].body \in {"escalated", "resolved"}
      BY <2>2, <3>2, ControlAssumption DEF TypeOK
    <3>4. OnePending' /\ Reopened' /\ RunTookIt'
      BY <1>1, <2>1, <3>1, <3>3 DEF OnePending, Reopened, RunTookIt, WithHumans, Pending, IsPending
    <3>5. left' \in BOOLEAN
      BY <3>1
    <3> HIDE DEF H
    <3>6. handoffs' \in Seq(H) /\ Len(handoffs) <= Len(handoffs')
      BY <1>1, <2>1
    <3>7. QED
      BY <3>4, <3>5, <3>6 DEF HandoffInv, H
  <2>3. CASE call[r].op # "control"
    <3>1. incident' = incident /\ left' = left
      BY <1>3, <2>3 DEF Write, MovesIncident
    <3>2. QED
      BY <1>1, <2>1, <3>1, HandoffFrame DEF Inv
  <2>4. QED
    BY <2>2, <2>3
<1>4. QED
  BY <1>2, <1>3

\* An endpoint writes: refused by the state of the incident, or done and remembered.
LEMMA WriteStep ==
    ASSUME TypeOK, Inv, NEW r \in Requests, Write(r)
    PROVE  TypeOK' /\ Inv'
<1>1. CASE Refusal(r) # None
  BY <1>1, RefusedWrite
<1>2. CASE Refusal(r) = None
  <2>1. /\ stage' \in [Requests -> Stage] /\ answer' \in [Requests -> Told \cup {None}]
        /\ \A rec \in records' : rec.day \in 0..day'
        /\ \A e \in effects' : e.day \in 0..day' /\ e.by \in Requests
        /\ KeyInv'
    BY <1>2, WriteKeepsKeys
  <2>2. /\ handoffs' \in Seq([status : {"pending", "started", "rejected"},
                              attempts : 0..MaxAttempts])
        /\ Len(handoffs) <= Len(handoffs') /\ left' \in BOOLEAN /\ HandoffInv'
    BY <1>2, WriteKeepsHandoffs
  <2>3. UNCHANGED <<call, connections, live, worker, day>>
    BY DEF Write, setup
  <2>4. Len(handoffs) \in Nat /\ Len(handoffs') \in Nat
    BY <2>2 DEF TypeOK
  <2>5. /\ live' \in 1..Len(handoffs') \cup {None}
        /\ worker'.at # "idle" => worker'.item \in 1..Len(handoffs')
    BY <2>2, <2>3, <2>4 DEF TypeOK
  <2>6. TypeOK'
    BY <2>1, <2>2, <2>3, <2>5 DEF TypeOK
  <2>7. QED
    BY <2>1, <2>2, <2>6 DEF Inv
<1>3. QED
  BY <1>1, <1>2

---------------------------------------------------------------------------
\* Everybody else.
LEMMA CrashStep ==
    ASSUME TypeOK, Inv, Crash
    PROVE  TypeOK' /\ Inv'
<1>1. /\ UNCHANGED <<call, connections, records, effects, incident, handoffs, live, worker, left, day>>
      /\ stage' = [r \in Requests |-> IF stage[r] = "unsent" THEN "unsent" ELSE "answered"]
      /\ answer' = [r \in Requests |->
                       IF stage[r] \in {"unsent", "answered"} THEN answer[r] ELSE "lost"]
  BY DEF Crash, setup, storeVars, handoffVars
<1>2. {"unsent", "answered"} \subseteq Stage /\ "lost" \in Told
      /\ {"unsent", "answered"} \cap (KeyHeld \cup Slotted) = {}
  BY DEF Stage, Told, KeyHeld, Slotted
<1>3. /\ stage' \in [Requests -> Stage] /\ answer' \in [Requests -> Told \cup {None}]
      /\ \A p \in Requests : stage'[p] = IF stage[p] = "unsent" THEN "unsent" ELSE "answered"
      /\ \A p \in Requests :
            answer'[p] = IF stage[p] \in {"unsent", "answered"} THEN answer[p] ELSE "lost"
  BY <1>1, <1>2 DEF TypeOK
<1>4. TypeOK'
  BY <1>1, <1>3 DEF TypeOK
<1>5. KeyHeldAlone /\ OnItsWay /\ Remembered /\ KeyActsOnce
  BY DEF Inv, KeyInv
<1>6. KeyHeldAlone'
  BY <1>2, <1>3 DEF KeyHeldAlone, In
<1>7. OnItsWay'
  <2>1. \A e \in effects : e.by \in Requests
    BY DEF TypeOK
  <2>2. \A e \in effects : stage'[e.by] \in {"replying", "answered"} /\ answer'[e.by] \in {"ok", "lost"}
    BY <1>3, <1>5, <2>1 DEF OnItsWay
  <2>3. \A p \in Requests : /\ stage'[p] \notin Slotted /\ stage'[p] # "failing"
                            /\ stage'[p] # "unsent" => p \in DOMAIN call
    BY <1>2, <1>3, <1>5 DEF OnItsWay, In
  <2>4. QED
    BY <1>1, <2>2, <2>3 DEF OnItsWay, In
<1>8. Remembered'
  <2>1. \A p \in Requests : stage'[p] \in {"replying", "answered"} /\ answer'[p] = "ok" =>
                               stage[p] = "answered" /\ answer[p] = "ok"
    BY <1>3
  <2>2. \A p \in Requests : stage'[p] \in {"replying", "answered"} /\ answer'[p] = "ok"
                            /\ call[p].op \in Changes => \E e \in effects : Covers(e, call[p])
    BY <1>5, <2>1 DEF Remembered, In
  <2>3. \A e, c : Covers(e, c) => Covers(e, c)'
    BY <1>1 DEF Covers, Makes
  <2>4. \A p \in Requests : stage'[p] \in {"replying", "answered"} /\ answer'[p] = "ok"
                            /\ call[p].op \in Changes => \E e \in effects : Covers(e, call[p])'
    BY <1>1, <2>2 DEF Covers, Makes
  <2>5. QED
    BY <1>1, <1>5, <2>3, <2>4 DEF Remembered, In
<1>9. KeyActsOnce'
  BY <1>1, <1>5 DEF KeyActsOnce
<1>10. HandoffInv'
  BY <1>1, HandoffFrame DEF Inv
<1>11. QED
  BY <1>4, <1>6, <1>7, <1>8, <1>9, <1>10 DEF Inv, KeyInv

\* Requests and keys, while only others move and days go by.
LEMMA KeyFrame ==
    ASSUME TypeOK, KeyInv, UNCHANGED <<setup, stage, answer, effects>>,
           records' \subseteq records, day' \in Nat, day <= day',
           \A rec \in records \ records' : day' > rec.day + KeptDays
    PROVE  /\ \A rec \in records' : rec.day \in 0..day'
           /\ \A e \in effects' : e.day \in 0..day' /\ e.by \in Requests
           /\ KeyInv'
<1>1. UNCHANGED <<call, connections, stage, answer, effects>>
  BY DEF setup
<1>2. day \in Nat /\ KeptDays = 1
  BY ApiAssumption, KeptDaysIsOne DEF TypeOK
<1>3. /\ \A rec \in records : rec.day \in 0..day
      /\ \A e \in effects : e.day \in 0..day /\ e.by \in Requests
  BY DEF TypeOK
<1>4. /\ \A rec \in records' : rec.day \in 0..day'
      /\ \A e \in effects' : e.day \in 0..day' /\ e.by \in Requests
  BY <1>1, <1>2, <1>3
<1>5. KeyHeldAlone'
  BY <1>1 DEF KeyInv, KeyHeldAlone, In, RecordOf, SameKey
<1>6. OnItsWay' /\ KeyActsOnce'
  BY <1>1 DEF KeyInv, OnItsWay, KeyActsOnce, In
<1>7. \A e \in effects : \A c : Covers(e, c) => Covers(e, c)'
  BY <1>2, <1>3, CoversLasts
<1>8. Remembered'
  <2>1. \A e \in effects : \/ day' > e.day + KeptDays
                           \/ \E rec \in records' : rec.user = e.user /\ rec.key = e.key
                                                    /\ rec.day = e.day
    <3> SUFFICES ASSUME NEW e \in effects
                 PROVE  \/ day' > e.day + KeptDays
                        \/ \E rec \in records' : rec.user = e.user /\ rec.key = e.key
                                                 /\ rec.day = e.day
      OBVIOUS
    <3>1. CASE day > e.day + KeptDays
      BY <1>2, <1>3, <3>1
    <3>2. CASE \E rec \in records : rec.user = e.user /\ rec.key = e.key /\ rec.day = e.day
      BY <3>2
    <3>3. QED
      BY <3>1, <3>2 DEF KeyInv, Remembered
  <2>2. \A rec \in records' : \E e \in effects : Covers(e, rec)'
    BY <1>7 DEF KeyInv, Remembered
  <2>3. \A p \in Requests : stage[p] \in {"replying", "answered"} /\ answer[p] = "ok"
                            /\ call[p].op \in Changes => \E e \in effects : Covers(e, call[p])
    BY DEF KeyInv, Remembered, In
  <2>4. \A p \in Requests : stage[p] \in {"replying", "answered"} /\ answer[p] = "ok"
                            /\ call[p].op \in Changes => \E e \in effects : Covers(e, call[p])'
    <3> SUFFICES ASSUME NEW p \in Requests, stage[p] \in {"replying", "answered"},
                        answer[p] = "ok", call[p].op \in Changes
                 PROVE  \E e \in effects : Covers(e, call[p])'
      OBVIOUS
    <3>1. PICK e \in effects : Covers(e, call[p])
      BY <2>3
    <3>2. e.day \in Nat
      BY <1>2, <1>3
    <3>3. Covers(e, call[p])'
      BY <1>1, <1>2, <3>1, <3>2 DEF Covers, Makes
    <3>4. QED
      BY <3>3
  <2>5. QED
    BY <1>1, <2>1, <2>2, <2>4 DEF Remembered, In
<1>9. QED
  BY <1>4, <1>5, <1>6, <1>8 DEF KeyInv

\* A retention batch deletes only records older than the shortest retention.
LEMMA RetentionStep ==
    ASSUME TypeOK, Inv, _one_batch
    PROVE  TypeOK' /\ Inv'
<1>1. PICK now \in 0..day, policy \in Policies :
         LET doomed == PastCutoff(records, policy, now)
         IN  /\ IsValidPolicy(policy)
             /\ \E batch \in Batches(doomed, BatchLimit) : records' = records \ batch
  BY DEF _one_batch
<1>2. PICK batch \in Batches(PastCutoff(records, policy, now), BatchLimit) :
         records' = records \ batch
  BY <1>1
<1>3. batch \subseteq PastCutoff(records, policy, now)
  BY DEF Batches
<1>4. UNCHANGED <<setup, stage, answer, effects, incident, handoffs, live, worker, left, day>>
  BY DEF _one_batch, requestVars, handoffVars
<1>5. day \in Nat /\ \A rec \in records : rec.day \in Nat
  BY ApiAssumption DEF TypeOK
<1>6. \A rec \in records \ records' : day' > rec.day + KeptDays
  <2> SUFFICES ASSUME NEW rec \in records \ records' PROVE day' > rec.day + KeptDays
    OBVIOUS
  <2>1. rec \in PastCutoff(records, policy, now) /\ rec.day \in Nat
    BY <1>2, <1>3, <1>5
  <2>2. now > rec.day + KeptDays
    BY <1>1, <2>1, PastCutoffIsOld
  <2>3. QED
    BY <1>4, <1>5, <2>1, <2>2, KeptDaysIsOne
<1>7. /\ \A rec \in records' : rec.day \in 0..day'
      /\ \A e \in effects' : e.day \in 0..day' /\ e.by \in Requests
      /\ KeyInv'
  <2>1. records' \subseteq records /\ day' \in Nat /\ day <= day' /\ KeyInv
    BY <1>2, <1>4, <1>5 DEF Inv
  <2>2. QED
    BY <1>4, <1>6, <2>1, KeyFrame
<1>8. TypeOK'
  BY <1>4, <1>7 DEF TypeOK, setup
<1>9. HandoffInv'
  BY <1>4, HandoffFrame DEF Inv
<1>10. QED
  BY <1>7, <1>8, <1>9 DEF Inv

\* A day passes: what was young enough to be remembered may no longer be.
LEMMA TickStep ==
    ASSUME TypeOK, Inv, Tick \/ UNCHANGED vars
    PROVE  TypeOK' /\ Inv'
<1>1. UNCHANGED <<setup, stage, answer, effects, records, incident, handoffs, live, worker, left>>
  BY DEF Tick, vars, requestVars, storeVars, handoffVars
<1>2. day \in 0..MaxDay /\ day' \in 0..MaxDay /\ day <= day' /\ day' \in Nat
  BY ApiAssumption DEF Tick, vars, TypeOK
<1>3. KeyInv
  BY DEF Inv
<1>4. /\ \A rec \in records' : rec.day \in 0..day'
      /\ \A e \in effects' : e.day \in 0..day' /\ e.by \in Requests
      /\ KeyInv'
  BY <1>1, <1>2, <1>3, KeyFrame
<1>5. TypeOK'
  BY <1>1, <1>2, <1>4 DEF TypeOK, setup
<1>6. HandoffInv'
  BY <1>1, HandoffFrame DEF Inv
<1>7. QED
  BY <1>4, <1>5, <1>6 DEF Inv

---------------------------------------------------------------------------
\* The worker and the run.
LEMMA WorkerStep ==
    ASSUME TypeOK, Inv,
           Work \/ WorkerDies \/ RunMoves \/ RunEnds
    PROVE  TypeOK' /\ Inv'
<1> DEFINE H == [status : {"pending", "started", "rejected"}, attempts : 0..MaxAttempts]
           W == [at : {"idle", "counted", "driving", "refused"}, item : Nat \cup {None}]
           n == Len(handoffs)
<1>1. UNCHANGED <<setup, stage, answer, records, effects, day>>
  BY DEF Work, WorkerDies, RunMoves, RunEnds, _start_remediation, StartRun, StartFails, PassEnds, _reject,
         workerUnchanged, storeVars
<1>2. /\ handoffs \in Seq(H) /\ n \in Nat /\ OnePending /\ Reopened /\ RunTookIt
      /\ live \in 1..n \cup {None} /\ MaxAttempts \in Nat /\ left \in BOOLEAN /\ None \notin Nat
  BY ApiAssumption DEF TypeOK, Inv, HandoffInv
<1>3. worker.at # "idle" => worker.item \in 1..n
  BY DEF TypeOK
<1>4. SUFFICES /\ handoffs' \in Seq(H) /\ Len(handoffs') = n
               /\ live' \in 1..n \cup {None}
               /\ worker' \in W /\ left' \in BOOLEAN
               /\ worker'.at # "idle" => worker'.item \in 1..n
               /\ HandoffInv'
  <2>1. KeyInv /\ day \in Nat
    BY ApiAssumption DEF Inv, TypeOK
  <2>2. KeyInv'
    BY <1>1, <2>1, KeyFrame
  <2>3. TypeOK'
    BY <1>1, <1>4 DEF TypeOK, setup
  <2>4. QED
    BY <1>4, <2>2, <2>3 DEF Inv
<1>5. ASSUME NEW i \in 1..n, NEW h \in H, handoffs' = [handoffs EXCEPT ![i] = h]
      PROVE  /\ handoffs' \in Seq(H) /\ Len(handoffs') = n /\ handoffs'[i] = h
             /\ \A j \in 1..n : j # i => handoffs'[j] = handoffs[j]
             /\ Pending' = {j \in 1..n : IsPending(handoffs'[j])}
  <2> HIDE DEF H
  <2>1. /\ handoffs' \in Seq(H) /\ Len(handoffs') = n /\ handoffs'[i] = h
        /\ \A j \in 1..n : j # i => handoffs'[j] = handoffs[j]
    BY <1>2, <1>5
  <2>2. QED
    BY <2>1 DEF Pending, IsPending
<1>6. \A i \in 1..n : handoffs[i] \in H
  <2> HIDE DEF H
  <2>1. QED
    BY <1>2
<1>7. CASE _start_remediation
  <2>1. PICK i \in Pending :
           /\ handoffs[i].attempts < MaxAttempts
           /\ handoffs' = [handoffs EXCEPT ![i].attempts = @ + 1]
           /\ worker' = [at |-> "counted", item |-> i]
    BY <1>7 DEF _start_remediation
  <2> DEFINE h == [handoffs[i] EXCEPT !.attempts = @ + 1]
  <2>2. i \in 1..n /\ handoffs[i].status = "pending" /\ UNCHANGED <<incident, live, left>>
    BY <1>7 DEF Pending, IsPending, _start_remediation
  <2>3. h \in H /\ h.status = "pending"
    <3>1. handoffs[i] \in H
      BY <1>6, <2>2
    <3>2. handoffs[i].attempts + 1 \in 0..MaxAttempts
      BY <1>2, <2>1, <3>1
    <3>3. QED
      BY <2>2, <3>1, <3>2
  <2>4. handoffs' = [handoffs EXCEPT ![i] = h]
    BY <2>1
  <2> HIDE DEF h, H
  <2>5. /\ handoffs' \in Seq(H) /\ Len(handoffs') = n /\ handoffs'[i] = h
        /\ \A j \in 1..n : j # i => handoffs'[j] = handoffs[j]
        /\ Pending' = {j \in 1..n : IsPending(handoffs'[j])}
    BY <1>5, <2>2, <2>3, <2>4
  <2>6. Pending' = Pending
    BY <2>2, <2>3, <2>5 DEF Pending, IsPending
  <2>7. HandoffInv'
    BY <1>2, <2>2, <2>6 DEF HandoffInv, OnePending, Reopened, RunTookIt
  <2>8. QED
    BY <1>2, <2>1, <2>2, <2>5, <2>7
<1>8. ASSUME UNCHANGED <<handoffs, live, incident, left>>,
             worker' \in W,
             worker'.at # "idle" => worker.at # "idle" /\ worker'.item = worker.item
      PROVE  /\ handoffs' \in Seq(H) /\ Len(handoffs') = n
             /\ live' \in 1..n \cup {None}
             /\ worker' \in W /\ left' \in BOOLEAN
             /\ worker'.at # "idle" => worker'.item \in 1..n
             /\ HandoffInv'
  <2>1. HandoffInv'
    BY <1>8, HandoffFrame DEF Inv
  <2> HIDE DEF H, W
  <2>2. QED
    BY <1>2, <1>3, <1>8, <2>1
<1>9. ASSUME NEW i \in 1..n, NEW h \in H, handoffs' = [handoffs EXCEPT ![i] = h],
             h.status # "pending"
      PROVE  handoffs' \in Seq(H) /\ Len(handoffs') = n /\ OnePending'
  <2> HIDE DEF H
  <2>1. /\ handoffs' \in Seq(H) /\ Len(handoffs') = n /\ handoffs'[i] = h
        /\ \A j \in 1..n : j # i => handoffs'[j] = handoffs[j]
        /\ Pending' = {j \in 1..n : IsPending(handoffs'[j])}
    BY <1>5, <1>9
  <2>2. Pending' \subseteq Pending
    BY <1>9, <2>1 DEF Pending, IsPending
  <2>3. QED
    BY <1>2, <2>1, <2>2 DEF OnePending
<1>10. worker \in W
  BY DEF TypeOK
<1>11. CASE StartRun
  <2> DEFINE i == worker.item
  <2>1. worker.at = "counted" /\ i \in 1..n /\ UNCHANGED <<incident, left>>
    BY <1>3, <1>11 DEF StartRun
  <2>2. CASE Rest /\ UNCHANGED <<handoffs, live>>
    <3>1. worker' \in W /\ worker'.at = "idle"
      BY <2>2 DEF Rest
    <3>2. QED
      BY <1>8, <2>1, <2>2, <3>1
  <2>3. CASE worker' = [worker EXCEPT !.at = "refused"] /\ UNCHANGED <<handoffs, live>>
    <3>1. worker' \in W /\ worker'.at = "refused" /\ worker'.item = worker.item
      BY <2>3, <1>10
    <3>2. QED
      BY <1>8, <2>1, <2>3, <3>1
  <2>4. CASE /\ handoffs' = [handoffs EXCEPT ![i].status = "started"]
             /\ live' = i /\ worker' = [worker EXCEPT !.at = "driving"]
    <3> DEFINE h == [handoffs[i] EXCEPT !.status = "started"]
    <3>1. worker' \in W /\ worker'.at = "driving" /\ worker'.item = i
      BY <2>4, <1>10
    <3>2. h \in H /\ h.status = "started" /\ handoffs' = [handoffs EXCEPT ![i] = h]
      BY <1>6, <2>1, <2>4
    <3> HIDE DEF h, i, H, W
    <3>3. handoffs' \in Seq(H) /\ Len(handoffs') = n /\ OnePending'
      BY <1>9, <2>1, <3>2
    <3>4. Reopened' /\ RunTookIt'
      BY <1>2, <2>1, <2>4 DEF Reopened, RunTookIt
    <3>5. QED
      BY <1>2, <2>1, <2>4, <3>1, <3>3, <3>4 DEF HandoffInv
  <2>5. QED
    BY <1>11, <2>2, <2>3, <2>4 DEF StartRun
<1>12. CASE StartFails \/ PassEnds \/ WorkerDies
  <2>1. UNCHANGED <<handoffs, live, incident, left>> /\ worker.at # "idle"
    BY <1>12 DEF StartFails, PassEnds, WorkerDies
  <2>2. worker' = [worker EXCEPT !.at = "refused"] \/ worker' = [at |-> "idle", item |-> None]
    BY <1>12 DEF StartFails, PassEnds, WorkerDies, Rest
  <2>3. /\ worker' \in W
        /\ worker'.at # "idle" => worker'.item = worker.item
    BY <1>10, <2>2
  <2>4. QED
    BY <1>8, <2>1, <2>3
<1>13. CASE _reject
  <2> DEFINE i == worker.item
             h == [handoffs[i] EXCEPT !.status = IF @ = "pending" THEN "rejected" ELSE @]
  <2>1. /\ worker.at = "refused" /\ i \in 1..n /\ UNCHANGED live
        /\ worker' = [at |-> "idle", item |-> None]
    BY <1>3, <1>13 DEF _reject, Rest
  <2>2. h \in H /\ h.status # "pending" /\ handoffs' = [handoffs EXCEPT ![i] = h]
    BY <1>6, <1>13, <2>1 DEF _reject
  <2> HIDE DEF h, i, H
  <2>3. handoffs' \in Seq(H) /\ Len(handoffs') = n /\ OnePending'
    BY <1>9, <2>1, <2>2
  <2>4. Reopened' /\ RunTookIt' /\ left' \in BOOLEAN
    <3>1. CASE ReturnsIncident
      <4>1. incident' \in WithHumans /\ left' = FALSE
        BY <1>13, <3>1 DEF _reject, Moved, WithHumans
      <4>2. QED
        BY <4>1 DEF Reopened, RunTookIt
    <3>2. CASE ~ReturnsIncident
      <4>1. incident' = incident /\ left' = left
        BY <1>13, <3>2 DEF _reject
      <4>2. live # None \/ left \/ incident \in WithHumans
        BY <1>2, <3>2 DEF RunTookIt, ReturnsIncident
      <4>3. QED
        BY <1>2, <2>1, <4>1, <4>2 DEF Reopened, RunTookIt
    <3>3. QED
      BY <3>1, <3>2
  <2>5. worker' \in W /\ worker'.at = "idle"
    BY <2>1
  <2> HIDE DEF W
  <2>6. QED
    BY <1>2, <2>1, <2>3, <2>4, <2>5 DEF HandoffInv
<1>14. CASE RunEnds
  <2>1. /\ UNCHANGED <<handoffs, worker, incident>> /\ live' = None
        /\ left' = (incident \notin WithHumans)
    BY <1>14 DEF RunEnds
  <2>2. OnePending' /\ Reopened' /\ RunTookIt' /\ left' \in BOOLEAN
    BY <1>2, <2>1 DEF OnePending, Reopened, RunTookIt, Pending, IsPending
  <2>3. worker' \in W
    BY <1>10, <2>1
  <2> HIDE DEF H, W
  <2>4. QED
    BY <1>2, <1>3, <2>1, <2>2, <2>3 DEF HandoffInv
<1>15. CASE RunMoves
  <2>1. UNCHANGED <<handoffs, worker, live>> /\ live # None /\ left' = FALSE
    BY <1>15 DEF RunMoves, Moved
  <2>2. OnePending' /\ Reopened' /\ RunTookIt'
    BY <1>2, <2>1 DEF OnePending, Reopened, RunTookIt, Pending, IsPending
  <2>3. worker' \in W
    BY <1>10, <2>1
  <2> HIDE DEF H, W
  <2>4. QED
    BY <1>2, <1>3, <2>1, <2>2, <2>3 DEF HandoffInv
<1>16. QED
  BY <1>7, <1>11, <1>12, <1>13, <1>14, <1>15 DEF Work

\* Every step of the API, the worker and the retention executor keeps the invariant.
LEMMA NextHolds ==
    ASSUME TypeOK, Inv, [Next]_vars
    PROVE  TypeOK' /\ Inv'
<1>1. ASSUME NEW r \in Requests, Send(r) \/ Serve(r) \/ PoolTimeout(r) \/ SlotTimeout(r)
      PROVE  TypeOK' /\ Inv'
  BY <1>1, AdmissionStep, RefusalStep, EndStep, IngestionStep, ReadStep, PrepareStep, WriteStep
     DEF Serve
<1>2. QED
  BY <1>1, CrashStep, WorkerStep, RetentionStep, TickStep DEF Next

---------------------------------------------------------------------------
\* The types, the properties and what they rest on hold together.
THEOREM Inductive == Spec => [](TypeOK /\ Inv)
BY InitHolds, NextHolds, PTL DEF Spec

\* One key makes one change, however requests are retried, crash or race, and the
\* retention executor's deletions never reach a record young enough to matter.
THEOREM KeyActsOnceHolds == Spec => []KeyActsOnce
<1>1. Inv => KeyActsOnce
  BY DEF Inv, KeyInv
<1>2. QED
  BY <1>1, Inductive, PTL

\* Success is told only of exactly the change that was asked for, committed under the
\* caller's key - of an annotation, while the key is retained; beyond that the log answers
\* for another text under the key - and a request told anything else has changed nothing.
THEOREM AnswerIsTrueHolds == Spec => []AnswerIsTrue
<1>1. TypeOK /\ Inv => AnswerIsTrue
  <2> SUFFICES ASSUME TypeOK, Inv, NEW r \in Requests, stage[r] = "answered"
               PROVE  /\ /\ answer[r] = "ok" /\ call[r].op \in Changes
                         /\ call[r].op = "annotate" => Retained(r)
                         => \E e \in effects : Makes(e, call[r])
                      /\ answer[r] \notin {"ok", "lost"} => \A e \in effects : e.by # r
    BY DEF AnswerIsTrue, In
  <2>1. answer[r] \notin {"ok", "lost"} => \A e \in effects : e.by # r
    BY DEF Inv, KeyInv, OnItsWay
  <2>2. ASSUME answer[r] = "ok", call[r].op \in Changes, call[r].op = "annotate" => Retained(r)
        PROVE  \E e \in effects : Makes(e, call[r])
    <3>1. PICK e \in effects : Covers(e, call[r])
      BY <2>2 DEF Inv, KeyInv, Remembered, In
    <3>2. CASE call[r].op # "annotate"
      BY <3>1, <3>2 DEF Covers
    <3>3. CASE call[r].op = "annotate"
      <4>1. e.user = call[r].user /\ e.key = call[r].key
        BY <3>1 DEF Covers, Makes
      <4>2. day <= e.day + KeptDays
        BY <2>2, <3>3, <4>1 DEF Retained
      <4>3. day \in Int /\ e.day \in Int /\ KeptDays \in Int
        BY ApiAssumption, KeptDaysIsOne DEF TypeOK
      <4>4. QED
        BY <3>1, <4>2, <4>3 DEF Covers
    <3>4. QED
      BY <3>2, <3>3
  <2>3. QED
    BY <2>1, <2>2
<1>2. QED
  BY <1>1, Inductive, PTL

\* One pending request at most, and a live run or a pending request behind a reopened
\* incident until a human has it again or a run that was started has ended, wherever the
\* run's nodes move it and whatever people and the worker do.
THEOREM HandoffIsSoundHolds == Spec => []HandoffIsSound
<1>1. TypeOK /\ Inv => HandoffIsSound
  <2> SUFFICES ASSUME TypeOK, OnePending PROVE Cardinality(Pending) <= 1
    BY DEF Inv, HandoffInv, Reopened, HandoffIsSound
  <2>1. CASE Pending = {}
    BY <2>1, FS_EmptySet
  <2>2. CASE Pending # {}
    <3>1. PICK i : Pending = {i}
      BY <2>2 DEF OnePending
    <3>2. QED
      BY <3>1, FS_Singleton
  <2>3. QED
    BY <2>1, <2>2
<1>2. QED
  BY <1>1, Inductive, PTL
===========================================================================
