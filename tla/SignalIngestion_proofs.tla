---------------------- MODULE SignalIngestion_proofs ----------------------
(***************************************************************************)
(* Deduplication, ordering and correlation for any signals, sessions and   *)
(* window.  The argument: a session at work has the tenant to itself, so   *)
(* what it has found out about receipts and alerts holds until it commits, *)
(* and a candidate that drops out of its ranking has ended for good.       *)
(***************************************************************************)
EXTENDS SignalIngestion, TLAPS

Inv ==
    /\ OneAtWork /\ RowsStand /\ ReceiptsStand /\ HeardIsShown /\ FoundStaysTrue
    /\ HeardOnce /\ ShowsLatest /\ OneIncidentPerBurst /\ FiringIsNotLost

---------------------------------------------------------------------------
\* Signals and their order.
LEMMA SignalsAreSignals ==
    /\ Signals \subseteq Signal
    /\ \A S \in Scenarios : S \subseteq Signals
BY IngestionAssumption DEF Signals

\* The types of what a signal carries.
LEMMA SignalParts ==
    ASSUME NEW s \in Signals
    PROVE  /\ s.occurrence \in Occurrences
           /\ s.digest \in {t.digest : t \in Signals}
           /\ s.scope \in Nat /\ s.started \in Nat /\ s.event \in Nat /\ s.digest \in Nat
           /\ s.occurrence \in Nat /\ s.occurrence # None
           /\ _severity(s) \in 1..4
<1>1. s \in Signal
  BY SignalsAreSignals
<1>2. s.scope \in Nat /\ s.started \in Nat /\ s.event \in Nat /\ s.digest \in Nat
      /\ s.occurrence \in Nat /\ s.severity \in AlertSeverity
  BY <1>1 DEF Signal
<1>3. _severity(s) \in 1..4
  BY <1>2 DEF _severity, AlertSeverity
<1>4. QED
  BY <1>2, <1>3, IngestionAssumption DEF Occurrences

\* Equal digests are equal contents.
LEMMA DigestIsContent ==
    ASSUME NEW S \in Scenarios, NEW s \in S, NEW t \in S, s.digest = t.digest
    PROVE  /\ s.occurrence = t.occurrence /\ s.scope = t.scope /\ s.state = t.state
           /\ s.kind = t.kind /\ s.error = t.error /\ s.observed = t.observed
           /\ ObservationRank(s) = ObservationRank(t)
           /\ s.event = t.event => s = t
<1>1. s \in Signal /\ t \in Signal
  BY SignalsAreSignals
<1>2. [s EXCEPT !.event = 0] = [t EXCEPT !.event = 0]
  BY IngestionAssumption DEF SameContent
<1>3. /\ s.occurrence = t.occurrence /\ s.scope = t.scope /\ s.state = t.state
      /\ s.kind = t.kind /\ s.error = t.error /\ s.observed = t.observed
      /\ s.severity = t.severity /\ s.started = t.started
  BY <1>1, <1>2 DEF Signal
<1>4. ObservationRank(s) = ObservationRank(t)
  BY <1>3 DEF ObservationRank
<1>5. s.event = t.event => s = t
  BY <1>1, <1>3 DEF Signal
<1>6. QED
  BY <1>3, <1>4, <1>5

\* Two ranks compare as Python compares tuples: at the first place they differ.
LEMMA PrecedesAtFirstDifference ==
    ASSUME NEW a1, NEW a2, NEW a3, NEW a4, NEW b1, NEW b2, NEW b3, NEW b4
    PROVE  Precedes(<<a1, a2, a3, a4>>, <<b1, b2, b3, b4>>) <=>
               \/ a1 < b1
               \/ (a1 = b1 /\ a2 < b2)
               \/ (a1 = b1 /\ a2 = b2 /\ a3 < b3)
               \/ (a1 = b1 /\ a2 = b2 /\ a3 = b3 /\ a4 < b4)
<1> DEFINE a == <<a1, a2, a3, a4>>
           b == <<b1, b2, b3, b4>>
           At(n) == a[n] < b[n] /\ \A m \in 1..(n - 1) : a[m] = b[m]
<1>1. At(1) <=> a1 < b1
  OBVIOUS
<1>2. At(2) <=> a1 = b1 /\ a2 < b2
  OBVIOUS
<1>3. At(3) <=> a1 = b1 /\ a2 = b2 /\ a3 < b3
  OBVIOUS
<1>4. At(4) <=> a1 = b1 /\ a2 = b2 /\ a3 = b3 /\ a4 < b4
  OBVIOUS
<1>5. Precedes(a, b) <=> At(1) \/ At(2) \/ At(3) \/ At(4)
  <2>1. Precedes(a, b) <=> \E n \in 1..4 : At(n)
    BY DEF Precedes
  <2> HIDE DEF At
  <2>2. QED
    BY <2>1
<1> HIDE DEF At
<1>6. QED
  BY <1>1, <1>2, <1>3, <1>4, <1>5

\* An observation's rank is four numbers.
LEMMA RankIsNumbers ==
    ASSUME NEW s \in Signals
    PROVE  \E n1, n2, n3, n4 \in Nat : ObservationRank(s) = <<n1, n2, n3, n4>>
<1>1. s \in Signal
  BY SignalsAreSignals
<1>2. s.observed \in Nat /\ s.digest \in Nat /\ s.severity \in AlertSeverity
  BY <1>1 DEF Signal
<1>3. _alert_severity_rank(s.severity) \in Nat
  BY <1>2 DEF _alert_severity_rank, AlertSeverity
<1>4. (IF s.state = "resolved" THEN 1 ELSE 0) \in Nat
  OBVIOUS
<1>5. QED
  BY <1>2, <1>3, <1>4 DEF ObservationRank

\* What is no newer than an observation is no newer than one that is.
LEMMA NewerStaysNewer ==
    ASSUME NEW old \in Signals, NEW new \in Signals, NEW other \in Signals,
           ~NotNewer(new, old), NotNewer(other, old)
    PROVE  NotNewer(other, new)
<1>1. PICK a1, a2, a3, a4 \in Nat : ObservationRank(old) = <<a1, a2, a3, a4>>
  BY RankIsNumbers
<1>2. PICK b1, b2, b3, b4 \in Nat : ObservationRank(new) = <<b1, b2, b3, b4>>
  BY RankIsNumbers
<1>3. PICK c1, c2, c3, c4 \in Nat : ObservationRank(other) = <<c1, c2, c3, c4>>
  BY RankIsNumbers
<1>4. \/ a1 < b1
      \/ (a1 = b1 /\ a2 < b2)
      \/ (a1 = b1 /\ a2 = b2 /\ a3 < b3)
      \/ (a1 = b1 /\ a2 = b2 /\ a3 = b3 /\ a4 < b4)
  BY <1>1, <1>2, PrecedesAtFirstDifference DEF NotNewer
<1>5. ~(\/ a1 < c1
        \/ (a1 = c1 /\ a2 < c2)
        \/ (a1 = c1 /\ a2 = c2 /\ a3 < c3)
        \/ (a1 = c1 /\ a2 = c2 /\ a3 = c3 /\ a4 < c4))
  BY <1>1, <1>3, PrecedesAtFirstDifference DEF NotNewer
<1>6. ~(\/ b1 < c1
        \/ (b1 = c1 /\ b2 < c2)
        \/ (b1 = c1 /\ b2 = c2 /\ b3 < c3)
        \/ (b1 = c1 /\ b2 = c2 /\ b3 = c3 /\ b4 < c4))
  BY <1>4, <1>5
<1>7. QED
  BY <1>2, <1>3, <1>6, PrecedesAtFirstDifference DEF NotNewer

\* An observation is no newer than itself, or than one of its content.
LEMMA NotNewerThanItself ==
    ASSUME NEW s \in Signals, NEW t, ObservationRank(s) = ObservationRank(t)
    PROVE  NotNewer(s, t)
<1>1. PICK a1, a2, a3, a4 \in Nat : ObservationRank(s) = <<a1, a2, a3, a4>>
  BY RankIsNumbers
<1>2. QED
  BY <1>1, PrecedesAtFirstDifference DEF NotNewer

---------------------------------------------------------------------------
\* Before any signal is delivered the invariant holds.
LEMMA InitHolds == Init => TypeOK /\ Inv
<1> SUFFICES ASSUME Init PROVE TypeOK /\ Inv
  OBVIOUS
<1>1. NoWork \in Work
  BY DEF NoWork, Work
<1>2. TypeOK
  <2>1. work \in [Sessions -> Work]
    BY <1>1 DEF Init
  <2>2. QED
    BY <2>1, IngestionAssumption DEF Init, TypeOK
<1>3. OneAtWork /\ FoundStaysTrue
  BY DEF Init, OneAtWork, FoundStaysTrue
<1>4. RowsStand /\ ReceiptsStand /\ FiringIsNotLost /\ ShowsLatest
  BY DEF Init, RowsStand, ReceiptsStand, FiringIsNotLost, ShowsLatest
<1>5. HeardIsShown /\ HeardOnce
  <2>1. \A d \in DOMAIN heard : heard[d] = 0
    BY DEF Init
  <2>2. \A signal \in sources : signal.digest \in DOMAIN heard
    BY SignalsAreSignals DEF Init
  <2>3. QED
    BY <2>1, <2>2 DEF HeardIsShown, HeardOnce
<1>6. OneIncidentPerBurst
  BY DEF Init, OneIncidentPerBurst
<1>7. QED
  BY <1>2, <1>3, <1>4, <1>5, <1>6 DEF Inv

---------------------------------------------------------------------------
\* Nobody is at work when the session that was has committed or given up.
LEMMA ReleaseEndsWork ==
    ASSUME TypeOK, OneAtWork, NEW s \in Sessions, pc[s] # "idle", Release(s)
    PROVE  /\ \A d \in Sessions : pc'[d] = "idle"
           /\ tenantLock' \in Sessions \cup {None}
           /\ rowLock' \in [Incidents -> Sessions \cup {None}]
           /\ pc' \in [Sessions -> {"idle", "received", "attached", "select", "rank", "join"}]
           /\ work' \in [Sessions -> Work]
           /\ OneAtWork' /\ FoundStaysTrue'
<1>1. NoWork \in Work
  BY DEF NoWork, Work
<1>2. tenantLock = s /\ \A d \in Sessions : d # s => pc[d] = "idle"
  BY DEF OneAtWork
<1>3. \A d \in Sessions : pc'[d] = "idle"
  BY <1>2 DEF Release, TypeOK
<1>4. OneAtWork' /\ FoundStaysTrue'
  BY <1>3 DEF OneAtWork, FoundStaysTrue
<1>5. QED
  BY <1>1, <1>3, <1>4 DEF Release, TypeOK

\* The rows alone.
Rows ==
    /\ RowsStand /\ ReceiptsStand /\ HeardIsShown /\ HeardOnce /\ ShowsLatest
    /\ OneIncidentPerBurst /\ FiringIsNotLost

\* What speaks of rows alone holds on while no row is written.
LEMMA RowsFrame ==
    ASSUME Rows, UNCHANGED <<sources, tables>>
    PROVE  Rows'
<1>1. UNCHANGED <<sources, receipts, alerts, incidents, reopen, heard>>
  BY DEF tables
<1>2. RowsStand' /\ ReceiptsStand' /\ HeardIsShown'
  BY <1>1 DEF Rows, RowsStand, ReceiptsStand, HeardIsShown, Overflowed
<1>3. HeardOnce' /\ ShowsLatest' /\ OneIncidentPerBurst' /\ FiringIsNotLost'
  BY <1>1 DEF Rows, HeardOnce, ShowsLatest, OneIncidentPerBurst, FiringIsNotLost
<1>4. QED
  BY <1>2, <1>3 DEF Rows

\* The signal a session has in hand.
LEMMA InHand ==
    ASSUME TypeOK, OneAtWork, NEW s \in Sessions, pc[s] # "idle"
    PROVE  /\ work[s].signal \in sources /\ work[s].signal \in Signals
           /\ work[s].signal.occurrence \in Occurrences
           /\ AlertOf(s) \in Alert \cup {None}
           /\ sources \in Scenarios
<1>1. work[s].signal \in sources /\ sources \in Scenarios
  BY DEF OneAtWork, TypeOK
<1>2. work[s].signal \in Signals
  BY <1>1, SignalsAreSignals
<1>3. QED
  BY <1>1, <1>2, SignalParts DEF TypeOK, AlertOf

---------------------------------------------------------------------------
\* A receipt is added and nothing else: a refusal, a change or a suppressed
\* observation.  It must not use up the key of an observation that still waits.
LEMMA ReceiptOnly ==
    ASSUME TypeOK, Inv, NEW s \in Sessions, pc[s] # "idle",
           NEW key \in DeliveryKey, NEW outcome \in ReceiptOutcome,
           NEW alert \in {None, work[s].signal.occurrence}, NEW i \in Incidents \cup {None},
           AddReceipt(key, work[s].signal, outcome, alert, i),
           Release(s), UNCHANGED <<world, alerts, incidents, reopen, heard>>,
           key.tag # "correlation_candidate_overflow",
           alert # None => /\ outcome # "retryable" /\ AlertOf(s) # None
                           /\ NotNewer(work[s].signal, AlertOf(s).latest),
           \A r \in receipts :
               /\ Overflowed(r) /\ r.signal = work[s].signal /\ key = canonical_key(r.signal)
               /\ alerts[r.alert].latest.digest = r.signal.digest
               /\ alerts[r.alert].incident = None
               => alerts[r.alert].latest.state # "firing"
    PROVE  TypeOK' /\ Inv'
<1> DEFINE signal == work[s].signal
           q == [key |-> key, signal |-> signal, outcome |-> outcome, alert |-> alert,
                 incident |-> i]
<1>1. OneAtWork /\ Rows
  BY DEF Inv, Rows
<1>2. /\ signal \in sources /\ signal \in Signals /\ signal.occurrence \in Occurrences
      /\ sources \in Scenarios /\ alert \in Occurrences \cup {None}
  BY <1>1, InHand
<1>3. receipts' = receipts \cup {q}
  BY DEF AddReceipt
<1>4. /\ q \in Receipt /\ q.key = key /\ q.signal = signal /\ q.outcome = outcome
      /\ q.alert = alert
  BY <1>2 DEF Receipt
<1> HIDE DEF q, signal
<1>5. UNCHANGED <<sources, clock, catalogue, alerts, incidents, reopen, heard>>
  BY DEF world
<1>6. /\ tenantLock' \in Sessions \cup {None}
      /\ rowLock' \in [Incidents -> Sessions \cup {None}]
      /\ pc' \in [Sessions -> {"idle", "received", "attached", "select", "rank", "join"}]
      /\ work' \in [Sessions -> Work]
      /\ OneAtWork' /\ FoundStaysTrue'
  BY <1>1, ReleaseEndsWork
<1>7. TypeOK'
  <2>1. receipts' \subseteq Receipt
    BY <1>3, <1>4 DEF TypeOK
  <2>2. QED
    BY <1>5, <1>6, <2>1 DEF TypeOK
<1>8. RowsStand' /\ HeardIsShown' /\ HeardOnce' /\ OneIncidentPerBurst'
  BY <1>1, <1>5 DEF Rows, RowsStand, HeardIsShown, HeardOnce, OneIncidentPerBurst
<1>9. ~Overflowed(q) /\ (alert # None => alert = signal.occurrence /\ alerts[alert] # None
                                          /\ outcome # "retryable"
                                          /\ NotNewer(signal, alerts[alert].latest))
  BY <1>4 DEF Overflowed, AlertOf, signal
<1>10. ReceiptsStand'
  <2> SUFFICES ASSUME NEW r \in receipts'
               PROVE  /\ r.signal \in sources
                      /\ r.alert # None => r.alert = r.signal.occurrence /\ alerts[r.alert] # None
                      /\ (r.alert # None /\ r.outcome = "retryable") = Overflowed(r)
                      /\ Overflowed(r) =>
                            /\ r.key = overflow_key(r.signal)
                            /\ r.signal.kind = "alert" /\ r.signal.error = "none"
    BY <1>5 DEF ReceiptsStand
  <2>1. CASE r \in receipts
    BY <1>1, <2>1 DEF Rows, ReceiptsStand
  <2>2. CASE r = q
    <3>1. Overflowed(q) = FALSE /\ (q.alert # None /\ q.outcome = "retryable") = FALSE
      BY <1>4, <1>9 DEF Overflowed
    <3>2. QED
      BY <1>2, <1>4, <1>9, <2>2, <3>1
  <2>3. QED
    BY <1>3, <2>1, <2>2
<1>11. ShowsLatest'
  <2> SUFFICES ASSUME NEW r \in receipts', r.alert # None
               PROVE  ~Precedes(ObservationRank(alerts[r.alert].latest),
                                ObservationRank(r.signal))
    BY <1>5 DEF ShowsLatest
  <2>1. CASE r \in receipts
    BY <1>1, <2>1 DEF Rows, ShowsLatest
  <2>2. CASE r = q
    BY <1>4, <1>9, <2>2 DEF NotNewer
  <2>3. QED
    BY <1>3, <2>1, <2>2
<1>12. FiringIsNotLost'
  <2> SUFFICES ASSUME NEW o \in Occurrences, alerts[o] # None, alerts[o].incident = None,
                      alerts[o].latest.state = "firing"
               PROVE  \E r \in receipts' :
                         /\ r.alert = o /\ r.outcome = "retryable"
                         /\ r.signal.digest = alerts[o].latest.digest
                         /\ ~\E p \in receipts' :
                               p.key = canonical_key(r.signal) /\ p.signal = r.signal
    BY <1>5 DEF FiringIsNotLost
  <2>1. PICK r \in receipts :
           /\ r.alert = o /\ r.outcome = "retryable"
           /\ r.signal.digest = alerts[o].latest.digest
           /\ ~\E p \in receipts : p.key = canonical_key(r.signal) /\ p.signal = r.signal
    BY <1>1 DEF Rows, FiringIsNotLost
  <2>2. o # None
    BY <1>1, <2>1, SignalParts DEF Occurrences
  <2>3. Overflowed(r)
    BY <1>1, <2>1, <2>2 DEF Rows, ReceiptsStand
  <2>4. ~(q.key = canonical_key(r.signal) /\ q.signal = r.signal)
    BY <1>4, <2>1, <2>3 DEF signal
  <2>5. QED
    BY <1>3, <2>1, <2>4
<1>13. QED
  BY <1>6, <1>7, <1>8, <1>10, <1>11, <1>12 DEF Inv

---------------------------------------------------------------------------
\* What the delivery is admitted or refused with.
LEMMA Admission ==
    ASSUME TypeOK, OneAtWork, NEW s \in Sessions, pc[s] # "idle"
    PROVE  /\ AdmissionKey(s) \in DeliveryKey
           /\ AdmissionKey(s).tag # "correlation_candidate_overflow"
           /\ AdmissionError(s) = "none" =>
                 /\ AdmissionKey(s) = canonical_key(work[s].signal)
                 /\ work[s].signal.error = "none"
           /\ AdmissionKey(s) = canonical_key(work[s].signal) /\ AdmissionError(s) # "none" =>
                 work[s].signal.error # "none"
           /\ Admitted(s) => ~Received(canonical_key(work[s].signal))
<1> DEFINE signal == work[s].signal
           e == AdmissionError(s)
<1>1. signal \in Signals /\ work[s] \in Work
  BY InHand DEF TypeOK
<1>2. signal.event \in Nat /\ signal.digest \in Nat
  BY <1>1, SignalParts
<1>3. work[s].error \in {"none", "invalid_signal", "future_observation"}
  BY <1>1 DEF Work
<1>4. e \in {"none", "source_event_conflict", "invalid_signal", "future_observation",
             "unknown_service"}
  BY <1>3 DEF AdmissionError
<1>5. canonical_key(signal) \in DeliveryKey /\ canonical_key(signal).tag = "canonical"
  BY <1>2 DEF canonical_key, DeliveryKey, Tag
<1>6. \A t \in {"source_event_conflict", "future_observation", "unknown_service"} :
         derived_key(signal, t) \in DeliveryKey /\ derived_key(signal, t).tag = t
  BY <1>2 DEF derived_key, DeliveryKey, Tag
<1>7. CASE e \in Retryable \cup {"source_event_conflict"}
  <2>1. AdmissionKey(s) = derived_key(signal, e) /\ e # "none"
    BY <1>7 DEF AdmissionKey, Retryable
  <2>2. e \in {"source_event_conflict", "future_observation", "unknown_service"}
    BY <1>7 DEF Retryable
  <2> HIDE DEF e
  <2>3. /\ AdmissionKey(s) \in DeliveryKey /\ AdmissionKey(s).tag = e
        /\ e # "canonical" /\ e # "correlation_candidate_overflow"
    BY <1>6, <2>1, <2>2
  <2>4. QED
    BY <1>5, <2>1, <2>3 DEF Admitted, e
<1>8. CASE e \in {"none", "invalid_signal"}
  <2>1. AdmissionKey(s) = canonical_key(signal)
    BY <1>8 DEF AdmissionKey, Retryable
  <2>2. e = "invalid_signal" => work[s].error = "invalid_signal"
    BY DEF AdmissionError
  <2>3. e = "none" => work[s].error = "none" /\ ~Conflicts(signal)
    BY DEF AdmissionError
  <2>4. Admitted(s) => ~Received(canonical_key(signal))
    BY <2>3 DEF Admitted, AlreadyReceived
  <2>5. QED
    BY <1>5, <1>8, <2>1, <2>2, <2>3, <2>4 DEF OneAtWork
<1>9. QED
  BY <1>4, <1>7, <1>8 DEF Retryable

\* A call that only leaves a receipt: refused, a recorded change, an unusable alert.
LEMMA RefuseStep ==
    ASSUME TypeOK, Inv, NEW s \in Sessions,
           RefuseSignal(s) \/ RecordChange(s) \/ RejectOccurrence(s) \/ SuppressAlert(s)
    PROVE  TypeOK' /\ Inv'
<1> DEFINE signal == work[s].signal
           key == AdmissionKey(s)
<1>0. OneAtWork /\ Rows /\ pc[s] # "idle"
  BY DEF Inv, Rows, RefuseSignal, RecordChange, RejectOccurrence, SuppressAlert, Usable,
         IsAlert, Admitted, Admitting
<1>1. /\ key \in DeliveryKey /\ key.tag # "correlation_candidate_overflow"
      /\ key = canonical_key(signal) /\ AdmissionError(s) # "none" => signal.error # "none"
  BY <1>0, Admission
<1>2. /\ signal \in sources /\ signal \in Signals /\ sources \in Scenarios
      /\ AlertOf(s) \in Alert \cup {None} /\ signal.occurrence \in Nat
      /\ signal.occurrence # None
  BY <1>0, InHand, SignalParts
<1>3. \A r \in receipts : Overflowed(r) =>
         /\ r.signal \in sources /\ r.signal.kind = "alert" /\ r.signal.error = "none"
         /\ r.alert = r.signal.occurrence /\ r.outcome = "retryable"
         /\ alerts[r.alert] # None /\ r.alert # None
  BY <1>0 DEF Rows, ReceiptsStand
<1> HIDE DEF key
<1>4. CASE RefuseSignal(s)
  <2> DEFINE outcome == IF AdmissionError(s) \in Retryable THEN "retryable" ELSE "rejected"
  <2>1. outcome \in ReceiptOutcome
    BY DEF ReceiptOutcome
  <2> HIDE DEF outcome
  <2>2. /\ AddReceipt(key, signal, outcome, None, None) /\ Release(s)
        /\ UNCHANGED <<world, alerts, incidents, reopen, heard>> /\ AdmissionError(s) # "none"
    BY <1>4 DEF RefuseSignal, outcome, key
  <2>3. \A r \in receipts : Overflowed(r) /\ r.signal = signal => key # canonical_key(r.signal)
    BY <1>1, <1>3, <2>2
  <2>4. QED
    BY <1>0, <1>1, <2>1, <2>2, <2>3, ReceiptOnly
<1>5. CASE RecordChange(s)
  <2>1. /\ AddReceipt(key, signal, "accepted", None, None) /\ Release(s)
        /\ UNCHANGED <<world, alerts, incidents, reopen, heard>> /\ signal.kind = "change"
    BY <1>5 DEF RecordChange, key
  <2>2. \A r \in receipts : Overflowed(r) => r.signal # signal
    BY <1>3, <2>1
  <2>3. "accepted" \in ReceiptOutcome
    BY DEF ReceiptOutcome
  <2>4. QED
    BY <1>0, <1>1, <2>1, <2>2, <2>3, ReceiptOnly
<1>6. CASE RejectOccurrence(s)
  <2>1. /\ AddReceipt(key, signal, "rejected", None, None) /\ Release(s)
        /\ UNCHANGED <<world, alerts, incidents, reopen, heard>>
        /\ \/ alerts[signal.occurrence].latest.scope # signal.scope
           \/ signal.occurrence \in Duplicated
    BY <1>6 DEF RejectOccurrence, Ambiguous, IdentityConflict, AlertOf, key
  <2>2. \A r \in receipts : Overflowed(r) /\ r.signal = signal =>
           alerts[r.alert].latest.digest # r.signal.digest
    <3> SUFFICES ASSUME NEW r \in receipts, Overflowed(r), r.signal = signal,
                        alerts[r.alert].latest.digest = r.signal.digest
                 PROVE  FALSE
      OBVIOUS
    <3>1. r.alert = signal.occurrence /\ alerts[r.alert] # None
      BY <1>3
    <3>2. alerts[r.alert].latest \in sources
      BY <1>0, <1>2, <3>1, SignalParts DEF Rows, RowsStand
    <3>3. alerts[r.alert].latest.scope = signal.scope
      BY <1>2, <3>2, DigestIsContent
    <3>4. signal.occurrence \notin Duplicated
      BY <1>0, <1>2, <3>1, SignalParts DEF Rows, RowsStand
    <3>5. QED
      BY <2>1, <3>1, <3>3, <3>4
  <2>3. "rejected" \in ReceiptOutcome
    BY DEF ReceiptOutcome
  <2>4. QED
    BY <1>0, <1>1, <2>1, <2>2, <2>3, ReceiptOnly
<1>7. CASE SuppressAlert(s)
  <2> DEFINE outcome == IF ObservationRank(signal) = ObservationRank(AlertOf(s).latest)
                        THEN "unchanged" ELSE "stale"
  <2>1. outcome \in ReceiptOutcome /\ outcome # "retryable"
    BY DEF ReceiptOutcome
  <2> HIDE DEF outcome
  <2>2. /\ AddReceipt(key, signal, outcome, signal.occurrence, AlertOf(s).incident)
        /\ Release(s) /\ UNCHANGED <<world, alerts, incidents, reopen, heard>>
        /\ AlertOf(s) # None /\ NotNewer(signal, AlertOf(s).latest) /\ ~PendingRetry(s)
    BY <1>7 DEF SuppressAlert, OldObservation, outcome, key
  <2>3. AlertOf(s).incident \in Incidents \cup {None}
    BY <1>2, <2>2 DEF Alert
  <2>4. \A r \in receipts :
           /\ Overflowed(r) /\ r.signal = signal
           /\ alerts[r.alert].latest.digest = r.signal.digest
           /\ alerts[r.alert].incident = None
           => alerts[r.alert].latest.state # "firing"
    <3> SUFFICES ASSUME NEW r \in receipts, Overflowed(r), r.signal = signal,
                        alerts[r.alert].latest.digest = r.signal.digest,
                        alerts[r.alert].incident = None,
                        alerts[r.alert].latest.state = "firing"
                 PROVE  FALSE
      OBVIOUS
    <3>1. r.alert = signal.occurrence /\ alerts[r.alert] # None /\ r.outcome = "retryable"
      BY <1>3
    <3>2. alerts[r.alert].latest \in sources
      BY <1>0, <1>2, <3>1, SignalParts DEF Rows, RowsStand
    <3>3. signal.state = "firing"
      BY <1>2, <3>2, DigestIsContent
    <3>4. PendingRetry(s)
      BY <3>1, <3>3 DEF PendingRetry, AlertOf, Overflowed
    <3>5. QED
      BY <2>2, <3>4
  <2>5. QED
    BY <1>0, <1>1, <2>1, <2>2, <2>3, <2>4, ReceiptOnly
<1>8. QED
  BY <1>4, <1>5, <1>6, <1>7

---------------------------------------------------------------------------
\* The alert is stored: it shows the newer of two observations.
LEMMA Stored ==
    ASSUME TypeOK, Inv, NEW s \in Sessions, pc[s] # "idle", NEW i \in Incidents \cup {None},
           StoreAlert(s, i)
    PROVE  LET signal == work[s].signal
               o == signal.occurrence
           IN  /\ alerts' \in [Occurrences -> Alert \cup {None}]
               /\ alerts'[o] \in Alert /\ alerts'[o] # None /\ alerts'[o].incident = i
               /\ alerts'[o].latest \in sources /\ alerts'[o].latest.occurrence = o
               /\ ~OldObservation(s) => alerts'[o].latest = signal
               /\ OldObservation(s) => alerts'[o].latest = AlertOf(s).latest
               /\ NotNewer(signal, alerts'[o].latest)
               /\ \A other \in Signals :
                     AlertOf(s) # None /\ NotNewer(other, AlertOf(s).latest) =>
                         NotNewer(other, alerts'[o].latest)
               /\ \A p \in Occurrences : p # o => alerts'[p] = alerts[p]
<1> DEFINE signal == work[s].signal
           o == signal.occurrence
           latest == IF OldObservation(s) THEN AlertOf(s).latest ELSE signal
           alert == [latest |-> latest, incident |-> i]
<1>1. OneAtWork
  BY DEF Inv
<1>2. /\ signal \in sources /\ signal \in Signals /\ o \in Occurrences
      /\ AlertOf(s) \in Alert \cup {None} /\ sources \in Scenarios
  BY <1>1, InHand
<1>3. AlertOf(s) # None =>
         AlertOf(s).latest \in sources /\ AlertOf(s).latest.occurrence = o
  BY <1>2 DEF Inv, RowsStand, AlertOf
<1>4. latest \in sources /\ latest.occurrence = o
  BY <1>2, <1>3 DEF OldObservation
<1>5. latest \in Signals
  BY <1>2, <1>4, SignalsAreSignals
<1>6. NotNewer(signal, latest)
  <2>1. CASE OldObservation(s)
    BY <2>1 DEF OldObservation
  <2>2. CASE ~OldObservation(s)
    BY <1>2, <2>2, NotNewerThanItself
  <2>3. QED
    BY <2>1, <2>2
<1>7. ASSUME NEW other \in Signals, AlertOf(s) # None, NotNewer(other, AlertOf(s).latest)
      PROVE  NotNewer(other, latest)
  <2>1. CASE OldObservation(s)
    BY <1>7, <2>1
  <2>2. CASE ~OldObservation(s)
    <3>1. AlertOf(s).latest \in Signals
      BY <1>2, <1>3, <1>7, SignalsAreSignals
    <3>2. ~NotNewer(signal, AlertOf(s).latest)
      BY <1>7, <2>2 DEF OldObservation
    <3>3. QED
      BY <1>2, <1>7, <2>2, <3>1, <3>2, NewerStaysNewer
  <2>3. QED
    BY <2>1, <2>2
<1>8. ~OldObservation(s) => latest = signal
  OBVIOUS
<1>9. OldObservation(s) => latest = AlertOf(s).latest
  OBVIOUS
<1>10. alerts' = [alerts EXCEPT ![o] = alert]
  BY DEF StoreAlert
<1> HIDE DEF latest
<1>11. alert \in Alert /\ alert.latest = latest /\ alert.incident = i
  BY <1>5 DEF Alert
<1> HIDE DEF alert, signal
<1>12. /\ alerts' \in [Occurrences -> Alert \cup {None}] /\ alerts'[o] = alert
       /\ \A p \in Occurrences : p # o => alerts'[p] = alerts[p]
  BY <1>2, <1>10, <1>11 DEF TypeOK
<1>13. alert # None
  BY <1>11, NoneAssumption
<1>14. QED
  BY <1>4, <1>6, <1>7, <1>8, <1>9, <1>11, <1>12, <1>13 DEF signal

\* An alert is stored with its receipt.  Whatever else the transaction does is in
\* the premises.
LEMMA StoreStep ==
    ASSUME TypeOK, Inv, NEW s \in Sessions, pc[s] # "idle", NEW i \in Incidents \cup {None},
           StoreAlert(s, i), Release(s), UNCHANGED world,
           work[s].signal.kind = "alert", work[s].signal.error = "none",
           work[s].signal.occurrence \notin Duplicated,
           AlertOf(s) # None /\ AlertOf(s).incident # None => i # None,
           NEW q \in Receipt, receipts' \in {receipts, receipts \cup {q}},
           q.signal = work[s].signal, q.alert = work[s].signal.occurrence,
           \/ (i # None /\ q.outcome = "accepted" /\ ~Overflowed(q))
           \/ (/\ i = None /\ work[s].signal.state = "resolved" /\ ~OldObservation(s)
               /\ q.outcome = "accepted" /\ ~Overflowed(q))
           \/ (/\ i = None /\ q.key = overflow_key(q.signal) /\ q.outcome = "retryable"
               /\ receipts' = receipts => Received(q.key)
               /\ ~Received(canonical_key(work[s].signal))),
           incidents' \in [Incidents -> Incident \cup {None}],
           i # None => incidents'[i] # None,
           \A j \in Incidents : incidents[j] # None => incidents'[j] # None,
           \A j \in Incidents : incidents'[j] # None => incidents'[j].active \/ incidents'[j].ended,
           OneIncidentPerBurst', reopen' \subseteq ReopenCandidate,
           \/ UNCHANGED heard
           \/ (Hear(s) /\ i # None /\ heard[work[s].signal.digest] = 0)
    PROVE  TypeOK' /\ Inv'
<1> DEFINE signal == work[s].signal
           o == signal.occurrence
<1>1. OneAtWork /\ Rows
  BY DEF Inv, Rows
<1>2. /\ signal \in sources /\ signal \in Signals /\ o \in Occurrences
      /\ AlertOf(s) \in Alert \cup {None} /\ sources \in Scenarios
      /\ o # None /\ AlertOf(s) = alerts[o]
  BY <1>1, InHand, SignalParts DEF AlertOf
<1>3. /\ alerts' \in [Occurrences -> Alert \cup {None}]
      /\ alerts'[o] \in Alert /\ alerts'[o] # None /\ alerts'[o].incident = i
      /\ alerts'[o].latest \in sources /\ alerts'[o].latest.occurrence = o
      /\ ~OldObservation(s) => alerts'[o].latest = signal
      /\ OldObservation(s) => alerts'[o].latest = AlertOf(s).latest
      /\ NotNewer(signal, alerts'[o].latest)
      /\ \A other \in Signals :
            AlertOf(s) # None /\ NotNewer(other, AlertOf(s).latest) =>
                NotNewer(other, alerts'[o].latest)
      /\ \A p \in Occurrences : p # o => alerts'[p] = alerts[p]
  BY Stored
<1>4. UNCHANGED <<sources, clock, catalogue>>
  BY DEF world
<1>5. /\ tenantLock' \in Sessions \cup {None}
      /\ rowLock' \in [Incidents -> Sessions \cup {None}]
      /\ pc' \in [Sessions -> {"idle", "received", "attached", "select", "rank", "join"}]
      /\ work' \in [Sessions -> Work]
      /\ OneAtWork' /\ FoundStaysTrue'
  BY <1>1, ReleaseEndsWork
<1>6. sources \subseteq Signals /\ \A t \in sources : t.digest \in DOMAIN heard
                                               /\ t.occurrence \in Occurrences
  BY <1>2, SignalsAreSignals, SignalParts DEF TypeOK
<1>7. /\ heard' \in [{t.digest : t \in Signals} -> Nat]
      /\ \A d \in DOMAIN heard : heard'[d] = heard[d] \/ (d = signal.digest /\ heard'[d] = 1
                                                         /\ i # None)
  <2>1. heard \in [{t.digest : t \in Signals} -> Nat]
    BY DEF TypeOK
  <2>2. CASE UNCHANGED heard
    BY <2>1, <2>2
  <2>3. CASE Hear(s) /\ i # None /\ heard[signal.digest] = 0
    BY <1>2, <1>6, <2>1, <2>3 DEF Hear
  <2>4. QED
    BY <2>2, <2>3
<1>8. TypeOK'
  <2>1. receipts' \subseteq Receipt
    BY DEF TypeOK
  <2>2. QED
    BY <1>3, <1>4, <1>5, <1>7, <2>1 DEF TypeOK
<1>9. \A p \in Occurrences : alerts[p] # None => alerts'[p] # None
  BY <1>3
<1>10. RowsStand'
  <2>1. ASSUME NEW p \in Occurrences, alerts'[p] # None
        PROVE  /\ alerts'[p].latest \in sources' /\ alerts'[p].latest.occurrence = p
               /\ alerts'[p].incident # None => incidents'[alerts'[p].incident] # None
    <3>1. CASE p = o
      BY <1>3, <1>4, <3>1
    <3>2. CASE p # o
      <4>1. alerts'[p] = alerts[p] /\ alerts[p] \in Alert
        BY <1>3, <2>1, <3>2 DEF TypeOK
      <4>2. alerts[p].incident \in Incidents \cup {None}
        BY <4>1 DEF Alert
      <4>3. QED
        BY <1>1, <1>4, <2>1, <4>1, <4>2 DEF Rows, RowsStand
    <3>3. QED
      BY <3>1, <3>2
  <2>2. \A p \in Occurrences \cap Duplicated : alerts'[p] = None
    BY <1>1, <1>3 DEF Rows, RowsStand
  <2>3. QED
    BY <2>1, <2>2 DEF RowsStand
<1>11. Overflowed(q) = (q.outcome = "retryable")
  <2>1. overflow_key(q.signal).tag = "correlation_candidate_overflow"
    BY DEF overflow_key, derived_key
  <2>2. Overflowed(q) \in BOOLEAN
    BY DEF Overflowed
  <2>3. QED
    BY <2>1, <2>2 DEF Overflowed
<1>12. ReceiptsStand'
  <2> SUFFICES ASSUME NEW r \in receipts'
               PROVE  /\ r.signal \in sources
                      /\ r.alert # None => r.alert = r.signal.occurrence /\ alerts'[r.alert] # None
                      /\ (r.alert # None /\ r.outcome = "retryable") = Overflowed(r)
                      /\ Overflowed(r) =>
                            /\ r.key = overflow_key(r.signal)
                            /\ r.signal.kind = "alert" /\ r.signal.error = "none"
    BY <1>4 DEF ReceiptsStand
  <2>1. CASE r \in receipts
    <3>1. r.alert \in Occurrences \cup {None}
      BY <2>1 DEF TypeOK, Receipt
    <3>2. QED
      BY <1>1, <1>9, <2>1, <3>1 DEF Rows, ReceiptsStand
  <2>2. CASE r = q
    <3>1. Overflowed(q) => q.key = overflow_key(q.signal)
      BY <1>11
    <3>2. (q.alert # None /\ q.outcome = "retryable") = Overflowed(q)
      BY <1>2, <1>11
    <3>3. QED
      BY <1>2, <1>3, <2>2, <3>1, <3>2
  <2>3. QED
    BY <2>1, <2>2
<1>13. HeardOnce'
  <2>1. DOMAIN heard' = DOMAIN heard
    BY <1>7 DEF TypeOK
  <2> SUFFICES ASSUME NEW d \in DOMAIN heard PROVE heard'[d] <= 1
    BY <2>1 DEF HeardOnce
  <2>2. heard[d] <= 1
    BY <1>1 DEF Rows, HeardOnce
  <2>3. QED
    BY <1>7, <2>2
<1>14. HeardIsShown'
  <2> SUFFICES ASSUME NEW t \in sources, heard'[t.digest] > 0
               PROVE  /\ alerts'[t.occurrence] # None /\ alerts'[t.occurrence].incident # None
                      /\ NotNewer(t, alerts'[t.occurrence].latest)
    BY <1>4 DEF HeardIsShown
  <2>1. t \in Signals /\ t.occurrence \in Occurrences
    BY <1>6
  <2>2. CASE heard'[t.digest] = heard[t.digest]
    <3>1. /\ alerts[t.occurrence] # None /\ alerts[t.occurrence].incident # None
          /\ NotNewer(t, alerts[t.occurrence].latest)
      BY <1>1, <2>2 DEF Rows, HeardIsShown
    <3>2. CASE t.occurrence = o
      BY <1>2, <1>3, <2>1, <3>1, <3>2
    <3>3. CASE t.occurrence # o
      BY <1>3, <2>1, <3>1, <3>3
    <3>4. QED
      BY <3>2, <3>3
  <2>3. CASE t.digest = signal.digest /\ i # None
    <3>1. t.occurrence = o /\ ObservationRank(t) = ObservationRank(signal)
      BY <1>2, <2>3, DigestIsContent
    <3>2. QED
      BY <1>3, <2>3, <3>1 DEF NotNewer
  <2>4. QED
    BY <1>6, <1>7, <2>2, <2>3
<1>15. ShowsLatest'
  <2> SUFFICES ASSUME NEW r \in receipts', r.alert # None
               PROVE  NotNewer(r.signal, alerts'[r.alert].latest)
    BY DEF ShowsLatest, NotNewer
  <2>1. CASE r \in receipts
    <3>1. r.signal \in Signals /\ r.alert \in Occurrences
      BY <2>1 DEF TypeOK, Receipt
    <3>2. alerts[r.alert] # None /\ NotNewer(r.signal, alerts[r.alert].latest)
      BY <1>1, <2>1 DEF Rows, ShowsLatest, NotNewer, ReceiptsStand
    <3>3. CASE r.alert = o
      BY <1>2, <1>3, <3>1, <3>2, <3>3
    <3>4. CASE r.alert # o
      BY <1>3, <3>1, <3>2, <3>4
    <3>5. QED
      BY <3>3, <3>4
  <2>2. CASE r = q
    BY <1>3, <2>2
  <2>3. QED
    BY <2>1, <2>2
<1>16. FiringIsNotLost'
  <2> SUFFICES ASSUME NEW p \in Occurrences, alerts'[p] # None, alerts'[p].incident = None,
                      alerts'[p].latest.state = "firing"
               PROVE  \E r \in receipts' :
                         /\ r.alert = p /\ r.outcome = "retryable"
                         /\ r.signal.digest = alerts'[p].latest.digest
                         /\ ~\E u \in receipts' :
                               u.key = canonical_key(r.signal) /\ u.signal = r.signal
    BY DEF FiringIsNotLost
  <2>1. CASE p # o
    <3>1. PICK r \in receipts :
             /\ r.alert = p /\ r.outcome = "retryable"
             /\ r.signal.digest = alerts'[p].latest.digest
             /\ ~\E u \in receipts : u.key = canonical_key(r.signal) /\ u.signal = r.signal
      BY <1>1, <1>3, <2>1 DEF Rows, FiringIsNotLost
    <3>2. r.alert = r.signal.occurrence
      BY <1>1, <1>6, <3>1, SignalParts DEF Rows, ReceiptsStand, Occurrences
    <3>3. q.signal # r.signal
      BY <2>1, <3>1, <3>2
    <3>4. QED
      BY <3>1, <3>3
  <2>2. CASE p = o
    <3>1. i = None
      BY <1>3, <2>2
    <3>2. /\ q.key = overflow_key(q.signal) /\ q.outcome = "retryable"
          /\ receipts' = receipts => Received(q.key)
          /\ ~Received(canonical_key(signal))
      BY <1>3, <2>2, <3>1
    <3>3. ~\E u \in receipts' : u.key = canonical_key(signal) /\ u.signal = signal
      <4>1. q.key # canonical_key(signal)
        <5>1. overflow_key(q.signal).tag # canonical_key(signal).tag
          BY DEF overflow_key, derived_key, canonical_key
        <5>2. QED
          BY <3>2, <5>1
      <4>2. QED
        BY <3>2, <4>1 DEF Received
    <3>4. CASE ~OldObservation(s)
      <4>1. PICK r \in receipts' : r.key = q.key
        BY <3>2 DEF Received
      <4>2. r.signal \in sources /\ Overflowed(r) /\ r.key = overflow_key(r.signal)
            /\ r.outcome = "retryable" /\ r.alert = r.signal.occurrence
        <5>1. Overflowed(r)
          BY <3>2, <4>1 DEF Overflowed, overflow_key, derived_key
        <5>2. QED
          BY <1>4, <1>12, <5>1 DEF ReceiptsStand
      <4>3. r.signal.event = signal.event /\ r.signal.digest = signal.digest
        BY <3>2, <4>1, <4>2 DEF overflow_key, derived_key
      <4>4. r.signal = signal
        BY <1>2, <4>2, <4>3, DigestIsContent
      <4>5. QED
        BY <1>3, <2>2, <3>3, <3>4, <4>2, <4>4
    <3>5. CASE OldObservation(s)
      <4>1. alerts'[o].latest = alerts[o].latest /\ alerts[o] # None
        BY <1>2, <1>3, <3>5 DEF OldObservation
      <4>2. alerts[o].incident = None
        BY <1>2, <3>1, <4>1
      <4>3. PICK r \in receipts :
               /\ r.alert = o /\ r.outcome = "retryable"
               /\ r.signal.digest = alerts[o].latest.digest
               /\ ~\E u \in receipts : u.key = canonical_key(r.signal) /\ u.signal = r.signal
        BY <1>1, <1>2, <2>2, <4>1, <4>2 DEF Rows, FiringIsNotLost
      <4>4. q.key # canonical_key(r.signal)
        <5>1. overflow_key(q.signal).tag # canonical_key(r.signal).tag
          BY DEF overflow_key, derived_key, canonical_key
        <5>2. QED
          BY <3>2, <5>1
      <4>5. QED
        BY <2>2, <4>1, <4>3, <4>4
    <3>6. QED
      BY <3>4, <3>5
  <2>3. QED
    BY <2>1, <2>2
<1>17. QED
  BY <1>5, <1>8, <1>10, <1>12, <1>13, <1>14, <1>15, <1>16 DEF Inv

---------------------------------------------------------------------------
\* Without a signal's incident: a resolution is accepted, an overflow is to be retried.
LEMMA ResolveStep ==
    ASSUME TypeOK, Inv, NEW s \in Sessions, ResolveUnattached(s)
    PROVE  TypeOK' /\ Inv'
<1> DEFINE signal == work[s].signal
           key == canonical_key(signal)
           q == [key |-> key, signal |-> signal, outcome |-> "accepted",
                 alert |-> signal.occurrence, incident |-> None]
<1>1. /\ OneAtWork /\ RowsStand /\ pc[s] # "idle" /\ Admitted(s) /\ signal.kind = "alert"
      /\ signal.state = "resolved" /\ ~Attached(s) /\ (OldObservation(s) => PendingRetry(s))
      /\ signal.occurrence \notin Duplicated
  BY DEF Inv, ResolveUnattached, Correlates, Usable, Ambiguous, IsAlert, Admitted, Admitting
<1>2. /\ signal \in Signals /\ signal.occurrence \in Occurrences
  BY <1>1, InHand
<1>3. AdmissionKey(s) = key /\ key \in DeliveryKey /\ signal.error = "none"
  BY <1>1, Admission DEF Admitted
<1>4. /\ StoreAlert(s, None) /\ Release(s) /\ UNCHANGED <<world, incidents, reopen, heard>>
      /\ receipts' = receipts \cup {q}
  BY <1>3 DEF ResolveUnattached, AddReceipt
<1>5. /\ q \in Receipt /\ q.signal = signal /\ q.outcome = "accepted"
      /\ q.alert = signal.occurrence /\ ~Overflowed(q)
  <2>1. q \in Receipt /\ q.key = key /\ q.signal = signal /\ q.outcome = "accepted"
        /\ q.alert = signal.occurrence
    BY <1>2, <1>3 DEF Receipt, ReceiptOutcome
  <2>2. key.tag = "canonical"
    BY DEF canonical_key
  <2>3. QED
    BY <2>1, <2>2 DEF Overflowed
<1> HIDE DEF q, key
<1>6. ~OldObservation(s)
  BY <1>1 DEF PendingRetry
<1>7. ~(AlertOf(s) # None /\ AlertOf(s).incident # None)
  BY <1>1 DEF Attached
<1>8. incidents' \in [Incidents -> Incident \cup {None}] /\ reopen' \subseteq ReopenCandidate
  BY <1>4 DEF TypeOK
<1>9. /\ \A j \in Incidents : incidents[j] # None => incidents'[j] # None
      /\ \A j \in Incidents :
            incidents'[j] # None => incidents'[j].active \/ incidents'[j].ended
  BY <1>1, <1>4 DEF RowsStand
<1>10. OneIncidentPerBurst'
  BY <1>4 DEF Inv, OneIncidentPerBurst
<1>11. QED
  BY <1>1, <1>3, <1>4, <1>5, <1>6, <1>7, <1>8, <1>9, <1>10, StoreStep

\* A call that finds more candidates than it may rank leaves a retryable receipt.
LEMMA OverflowStep ==
    ASSUME TypeOK, Inv, NEW s \in Sessions, Overflow(s)
    PROVE  TypeOK' /\ Inv'
<1> DEFINE signal == work[s].signal
           key == overflow_key(signal)
           q == [key |-> key, signal |-> signal, outcome |-> "retryable",
                 alert |-> signal.occurrence, incident |-> None]
<1>1. OneAtWork /\ RowsStand /\ pc[s] = "select"
  BY DEF Inv, Overflow
<1>2. /\ signal.kind = "alert" /\ signal.error = "none" /\ ~Attached(s)
      /\ ~Received(canonical_key(signal)) /\ signal.occurrence \notin Duplicated
  BY <1>1 DEF Inv, FoundStaysTrue
<1>3. /\ signal \in Signals /\ signal.occurrence \in Occurrences
  BY <1>1, InHand
<1>4. key \in DeliveryKey
  BY <1>3, SignalParts DEF overflow_key, derived_key, DeliveryKey, Tag
<1>5. /\ StoreAlert(s, None) /\ Release(s) /\ UNCHANGED <<world, incidents, reopen, heard>>
      /\ \/ (receipts' = receipts /\ Received(key))
         \/ receipts' = receipts \cup {q}
  BY DEF Overflow, AddReceipt
<1>6. /\ q \in Receipt /\ q.signal = signal /\ q.outcome = "retryable"
      /\ q.alert = signal.occurrence /\ q.key = key
  BY <1>3, <1>4 DEF Receipt, ReceiptOutcome
<1> HIDE DEF q
<1>7. receipts' \in {receipts, receipts \cup {q}} /\ q.key = overflow_key(q.signal)
  BY <1>5, <1>6
<1>8. receipts' = receipts => Received(q.key)
  <2>1. CASE receipts' = receipts \cup {q}
    BY <2>1 DEF Received
  <2>2. QED
    BY <1>5, <1>6, <2>1
<1> HIDE DEF key
<1>9. ~(AlertOf(s) # None /\ AlertOf(s).incident # None)
  BY <1>2 DEF Attached
<1>10. incidents' \in [Incidents -> Incident \cup {None}] /\ reopen' \subseteq ReopenCandidate
  BY <1>5 DEF TypeOK
<1>11. /\ \A j \in Incidents : incidents[j] # None => incidents'[j] # None
       /\ \A j \in Incidents :
             incidents'[j] # None => incidents'[j].active \/ incidents'[j].ended
  BY <1>1, <1>5 DEF RowsStand
<1>12. OneIncidentPerBurst'
  BY <1>5 DEF Inv, OneIncidentPerBurst
<1>13. QED
  BY <1>1, <1>2, <1>5, <1>6, <1>7, <1>8, <1>9, <1>10, <1>11, <1>12, StoreStep

---------------------------------------------------------------------------
\* An incident takes the alert in, and hears of it for the first time.
LEMMA AcceptStep ==
    ASSUME TypeOK, Inv, NEW s \in Sessions, pc[s] \in {"attached", "rank", "join"},
           NEW i \in Incidents, AcceptInto(s, i), UNCHANGED world,
           incidents' \in [Incidents -> Incident \cup {None}], incidents'[i] # None,
           \A j \in Incidents : incidents[j] # None => incidents'[j] # None,
           \A j \in Incidents : incidents'[j] # None => incidents'[j].active \/ incidents'[j].ended,
           OneIncidentPerBurst', reopen' \subseteq ReopenCandidate
    PROVE  TypeOK' /\ Inv'
<1> DEFINE signal == work[s].signal
           key == canonical_key(signal)
           q == [key |-> key, signal |-> signal, outcome |-> "accepted",
                 alert |-> signal.occurrence, incident |-> i]
<1>1. OneAtWork /\ pc[s] # "idle" /\ i # None
  BY IngestionAssumption DEF Inv
<1>2. /\ signal.kind = "alert" /\ signal.error = "none"
      /\ OldObservation(s) => PendingRetry(s)
      /\ signal.occurrence \notin Duplicated
  BY DEF Inv, FoundStaysTrue
<1>3. /\ signal \in Signals /\ signal \in sources /\ signal.occurrence \in Occurrences
  BY <1>1, InHand
<1>4. key \in DeliveryKey /\ key.tag = "canonical"
  BY <1>3, SignalParts DEF canonical_key, DeliveryKey, Tag
<1>5. StoreAlert(s, i) /\ Release(s) /\ Hear(s) /\ receipts' = receipts \cup {q}
  BY DEF AcceptInto, AddReceipt
<1>6. /\ q \in Receipt /\ q.signal = signal /\ q.outcome = "accepted"
      /\ q.alert = signal.occurrence /\ ~Overflowed(q)
  <2>1. q \in Receipt /\ q.key = key /\ q.signal = signal /\ q.outcome = "accepted"
        /\ q.alert = signal.occurrence
    BY <1>3, <1>4 DEF Receipt, ReceiptOutcome
  <2>2. QED
    BY <1>4, <2>1 DEF Overflowed
<1> HIDE DEF q, key
<1>7. heard[signal.digest] = 0
  <2>1. heard[signal.digest] \in Nat
    BY <1>3, SignalParts DEF TypeOK
  <2>2. ~(heard[signal.digest] > 0)
    <3> SUFFICES ASSUME heard[signal.digest] > 0 PROVE FALSE
      OBVIOUS
    <3>1. /\ AlertOf(s) # None /\ AlertOf(s).incident # None
          /\ NotNewer(signal, AlertOf(s).latest)
      BY <1>3 DEF Inv, HeardIsShown, AlertOf
    <3>2. QED
      BY <1>2, <3>1 DEF OldObservation, PendingRetry
  <2>3. QED
    BY <2>1, <2>2
<1>8. QED
  BY <1>1, <1>2, <1>5, <1>6, <1>7, StoreStep

\* Bursts are told apart by scope, anchor and past alone.
LEMMA BurstFrame ==
    ASSUME OneIncidentPerBurst,
           \A j \in Incidents : incidents'[j] # None =>
               /\ incidents[j] # None /\ incidents'[j].scope = incidents[j].scope
               /\ incidents'[j].anchor = incidents[j].anchor
               /\ incidents[j].ended => incidents'[j].ended
    PROVE  OneIncidentPerBurst'
BY DEF OneIncidentPerBurst

\* An alert changes nothing of its incident but the severity.
LEMMA GraverOnly ==
    ASSUME TypeOK, Inv, NEW s \in Sessions, pc[s] # "idle", NEW i \in Incidents,
           incidents[i] # None, incidents' = [incidents EXCEPT ![i] = Graver(s, @)]
    PROVE  /\ incidents' \in [Incidents -> Incident \cup {None}] /\ incidents'[i] # None
           /\ \A j \in Incidents : incidents[j] # None => incidents'[j] # None
           /\ \A j \in Incidents :
                 incidents'[j] # None => incidents'[j].active \/ incidents'[j].ended
           /\ OneIncidentPerBurst'
<1> DEFINE r == Graver(s, incidents[i])
<1>1. incidents[i] \in Incident /\ incidents \in [Incidents -> Incident \cup {None}]
  BY DEF TypeOK
<1>2. _severity(work[s].signal) \in 1..4
  BY InHand, SignalParts DEF Inv
<1>3. /\ r \in Incident /\ r.scope = incidents[i].scope /\ r.anchor = incidents[i].anchor
      /\ r.active = incidents[i].active /\ r.ended = incidents[i].ended
  BY <1>1, <1>2 DEF Graver, Incident
<1>4. r # None
  BY <1>3, NoneAssumption
<1>5. incidents' = [incidents EXCEPT ![i] = r]
  OBVIOUS
<1> HIDE DEF r
<1>6. /\ incidents' \in [Incidents -> Incident \cup {None}] /\ incidents'[i] = r
      /\ \A j \in Incidents : j # i => incidents'[j] = incidents[j]
  BY <1>1, <1>3, <1>5
<1>7. \A j \in Incidents : incidents'[j] # None =>
         /\ incidents[j] # None /\ incidents'[j].scope = incidents[j].scope
         /\ incidents'[j].anchor = incidents[j].anchor
         /\ incidents'[j].active = incidents[j].active
         /\ incidents'[j].ended = incidents[j].ended
  BY <1>3, <1>6
<1>8. OneIncidentPerBurst'
  BY <1>7, BurstFrame DEF Inv
<1>9. QED
  BY <1>4, <1>6, <1>7, <1>8 DEF Inv, RowsStand

\* A call attaches its alert to an incident it locked, or updates the attached one.
LEMMA JoinStep ==
    ASSUME TypeOK, Inv, NEW s \in Sessions,
           JoinIncident(s) \/ UpdateIncident(s) \/ UpdateTerminated(s)
    PROVE  TypeOK' /\ Inv'
<1> DEFINE i == work[s].incident
<1>1. /\ pc[s] \in {"attached", "join"} /\ AcceptInto(s, i) /\ UNCHANGED world
  BY DEF JoinIncident, UpdateIncident, UpdateTerminated
<1>2. OneAtWork /\ pc[s] # "idle"
  BY <1>1 DEF Inv
<1>3. i \in Incidents /\ incidents[i] # None
  <2>1. work[s] \in Work /\ AlertOf(s) \in Alert \cup {None}
    BY <1>2, InHand DEF TypeOK
  <2>2. i \in Incidents \cup {None}
    BY <2>1 DEF Work
  <2>3. CASE pc[s] = "join"
    BY <2>2, <2>3 DEF Inv, FoundStaysTrue
  <2>4. CASE pc[s] = "attached"
    <3>1. AlertOf(s) # None /\ AlertOf(s).incident # None /\ i = AlertOf(s).incident
      BY <2>4 DEF Inv, FoundStaysTrue, Attached
    <3>2. work[s].signal.occurrence \in Occurrences
      BY <1>2, InHand
    <3>3. QED
      BY <2>2, <3>1, <3>2 DEF Inv, RowsStand, AlertOf
  <2>5. QED
    BY <1>1, <2>3, <2>4
<1> HIDE DEF i
<1>4. CASE JoinIncident(s) \/ UpdateIncident(s)
  <2>1. incidents' = [incidents EXCEPT ![i] = Graver(s, @)] /\ reopen' = reopen
    BY <1>4 DEF JoinIncident, UpdateIncident, i
  <2>2. /\ incidents' \in [Incidents -> Incident \cup {None}] /\ incidents'[i] # None
        /\ \A j \in Incidents : incidents[j] # None => incidents'[j] # None
        /\ \A j \in Incidents :
              incidents'[j] # None => incidents'[j].active \/ incidents'[j].ended
        /\ OneIncidentPerBurst'
    BY <1>2, <1>3, <2>1, GraverOnly
  <2>3. reopen' \subseteq ReopenCandidate
    BY <2>1 DEF TypeOK
  <2>4. QED
    BY <1>1, <1>3, <2>2, <2>3, AcceptStep
<1>5. CASE UpdateTerminated(s)
  <2> DEFINE c == [incident |-> i, alert |-> work[s].signal.occurrence,
                   receipt |-> canonical_key(work[s].signal)]
  <2>1. incidents' = incidents /\ reopen' \in {reopen \cup {c}, reopen \cup {}}
    BY <1>5 DEF UpdateTerminated, i
  <2>2. work[s].signal \in Signals /\ work[s].signal.occurrence \in Occurrences
    BY <1>2, InHand
  <2>3. canonical_key(work[s].signal) \in DeliveryKey
    BY <2>2, SignalParts DEF canonical_key, DeliveryKey, Tag
  <2>4. c \in ReopenCandidate
    BY <1>3, <2>2, <2>3 DEF ReopenCandidate
  <2> HIDE DEF c
  <2>5. reopen' \subseteq ReopenCandidate /\ incidents' \in [Incidents -> Incident \cup {None}]
    BY <2>1, <2>4 DEF TypeOK
  <2>6. OneIncidentPerBurst'
    BY <2>1, BurstFrame DEF Inv
  <2>7. \A j \in Incidents : incidents'[j] # None => incidents'[j].active \/ incidents'[j].ended
    BY <2>1 DEF Inv, RowsStand
  <2>8. \A j \in Incidents : incidents[j] # None => incidents'[j] # None
    BY <2>1
  <2>9. incidents'[i] # None
    BY <1>3, <2>1
  <2>10. QED
    BY <1>1, <1>3, <2>5, <2>6, <2>7, <2>8, <2>9, AcceptStep
<1>6. QED
  BY <1>4, <1>5

\* A new incident starts a new burst: no incident that never ended is near.
LEMMA OpenStep ==
    ASSUME TypeOK, Inv, NEW s \in Sessions, OpenIncident(s)
    PROVE  TypeOK' /\ Inv'
<1> DEFINE signal == work[s].signal
           r == [active |-> TRUE, scope |-> signal.scope, anchor |-> signal.started,
                 severity |-> _severity(signal), ended |-> FALSE]
<1>1. pc[s] = "rank" /\ work[s].candidates = {} /\ UNCHANGED <<world, reopen>>
  BY DEF OpenIncident
<1>2. PICK i \in Incidents :
         /\ incidents[i] = None /\ incidents' = [incidents EXCEPT ![i] = r]
         /\ AcceptInto(s, i)
  BY DEF OpenIncident
<1>3. signal \in Signals
  BY <1>1, InHand DEF Inv
<1>4. signal.scope \in Nat /\ signal.started \in Nat /\ _severity(signal) \in 1..4
  BY <1>3, SignalParts
<1>5. /\ r \in Incident /\ r.active /\ ~r.ended /\ r.scope = signal.scope
      /\ r.anchor = signal.started
  BY <1>4 DEF Incident
<1>6. r # None
  BY <1>5, NoneAssumption
<1> HIDE DEF r, signal
<1>7. /\ incidents' \in [Incidents -> Incident \cup {None}] /\ incidents'[i] = r
      /\ \A j \in Incidents : j # i => incidents'[j] = incidents[j]
  BY <1>2, <1>5 DEF TypeOK
<1>8. \A j \in Incidents :
         /\ incidents[j] # None /\ incidents[j].scope = signal.scope
         /\ incidents[j].anchor - signal.started \in -WINDOW_SECONDS..WINDOW_SECONDS
         => incidents[j].ended
  <2> SUFFICES ASSUME NEW j \in Incidents, incidents[j] # None,
                      incidents[j].scope = signal.scope,
                      incidents[j].anchor - signal.started \in -WINDOW_SECONDS..WINDOW_SECONDS,
                      ~incidents[j].ended
               PROVE  FALSE
    OBVIOUS
  <2>1. incidents[j].anchor \in Nat
    BY DEF TypeOK, Incident
  <2>2. Distance(j, signal) <= WINDOW_SECONDS
    BY <1>4, <2>1, IngestionAssumption DEF Distance
  <2>3. j \in Unended(signal)
    BY <2>2 DEF Unended
  <2>4. Unended(signal) \subseteq work[s].candidates
    BY <1>1 DEF Inv, FoundStaysTrue, signal
  <2>5. QED
    BY <1>1, <2>3, <2>4
<1>9. OneIncidentPerBurst'
  <2> SUFFICES ASSUME NEW j \in Incidents, NEW k \in Incidents, j # k,
                      incidents'[j] # None, incidents'[k] # None,
                      incidents'[j].scope = incidents'[k].scope,
                      incidents'[j].anchor - incidents'[k].anchor \in
                          -WINDOW_SECONDS..WINDOW_SECONDS
               PROVE  incidents'[j].ended \/ incidents'[k].ended
    BY DEF OneIncidentPerBurst
  <2>1. incidents'[j].anchor \in Nat /\ incidents'[k].anchor \in Nat
    BY <1>7 DEF Incident
  <2>2. incidents'[k].anchor - incidents'[j].anchor \in -WINDOW_SECONDS..WINDOW_SECONDS
    BY <2>1, IngestionAssumption
  <2>3. CASE j = i
    BY <1>5, <1>7, <1>8, <2>2, <2>3
  <2>4. CASE k = i
    BY <1>5, <1>7, <1>8, <2>4
  <2>5. CASE j # i /\ k # i
    BY <1>7, <2>5 DEF Inv, OneIncidentPerBurst
  <2>6. QED
    BY <2>3, <2>4, <2>5
<1>10. incidents'[i] # None
  BY <1>6, <1>7
<1>11. \A j \in Incidents : incidents[j] # None => incidents'[j] # None
  BY <1>2, <1>7
<1>12. \A j \in Incidents : incidents'[j] # None => incidents'[j].active \/ incidents'[j].ended
  BY <1>5, <1>7 DEF Inv, RowsStand
<1>13. reopen' \subseteq ReopenCandidate
  BY <1>1 DEF TypeOK
<1>14. QED
  BY <1>1, <1>2, <1>7, <1>9, <1>10, <1>11, <1>12, <1>13, AcceptStep

---------------------------------------------------------------------------
\* Steps that write no row.
LEMMA EndStep ==
    ASSUME TypeOK, Inv, NEW s \in Sessions, AnswerDuplicate(s) \/ Abort(s)
    PROVE  TypeOK' /\ Inv'
<1>1. pc[s] # "idle" /\ Release(s) /\ UNCHANGED <<world, tables>>
  BY DEF AnswerDuplicate, Abort, Admitting
<1>2. OneAtWork /\ Rows
  BY DEF Inv, Rows
<1>3. UNCHANGED <<sources, clock, catalogue, receipts, alerts, incidents, reopen, heard>>
  BY <1>1 DEF world, tables
<1>4. Rows'
  BY <1>1, <1>2, <1>3, RowsFrame
<1>5. /\ tenantLock' \in Sessions \cup {None}
      /\ rowLock' \in [Incidents -> Sessions \cup {None}]
      /\ pc' \in [Sessions -> {"idle", "received", "attached", "select", "rank", "join"}]
      /\ work' \in [Sessions -> Work]
      /\ OneAtWork' /\ FoundStaysTrue'
  BY <1>1, <1>2, ReleaseEndsWork
<1>6. TypeOK'
  BY <1>3, <1>5 DEF TypeOK
<1>7. QED
  BY <1>4, <1>5, <1>6 DEF Inv, Rows

\* A call normalises its signal and gets the tenant's lock: nobody else is at work.
LEMMA ReceiveStep ==
    ASSUME TypeOK, Inv, NEW s \in Sessions, NEW signal \in sources, NEW at,
           Receive(s, signal, at)
    PROVE  TypeOK' /\ Inv'
<1> DEFINE e == IF signal.error # "none" THEN signal.error
                ELSE IF signal.observed > at THEN "future_observation" ELSE "none"
           w == [NoWork EXCEPT !.signal = signal, !.error = e]
<1>1. /\ pc[s] = "idle" /\ tenantLock = None /\ tenantLock' = s
      /\ pc' = [pc EXCEPT ![s] = "received"] /\ work' = [work EXCEPT ![s] = w]
      /\ UNCHANGED <<world, tables, rowLock>>
  BY DEF Receive, TenantFree
<1>2. signal \in Signal /\ signal \in Signals
  BY SignalsAreSignals DEF TypeOK
<1>3. signal.error \in {"none", "invalid_signal"}
  BY <1>2 DEF Signal
<1>4. /\ e \in {"none", "invalid_signal", "future_observation"}
      /\ e = "invalid_signal" => signal.error # "none"
      /\ e = "none" => signal.error = "none"
  BY <1>3
<1> HIDE DEF e
<1>5. w \in Work /\ w.signal = signal /\ w.error = e
  BY <1>2, <1>4 DEF NoWork, Work
<1> HIDE DEF w
<1>6. /\ pc' \in [Sessions -> {"idle", "received", "attached", "select", "rank", "join"}]
      /\ pc'[s] = "received" /\ work' \in [Sessions -> Work] /\ work'[s] = w
      /\ \A d \in Sessions : d # s => pc'[d] = pc[d]
  BY <1>1, <1>5 DEF TypeOK
<1>7. \A d \in Sessions : pc[d] = "idle"
  BY <1>1, IngestionAssumption DEF Inv, OneAtWork
<1>8. UNCHANGED <<sources, clock, catalogue, receipts, alerts, incidents, reopen, heard, rowLock>>
  BY <1>1 DEF world, tables
<1>9. OneAtWork'
  BY <1>1, <1>4, <1>5, <1>6, <1>7, <1>8 DEF OneAtWork
<1>10. FoundStaysTrue'
  BY <1>6, <1>7 DEF FoundStaysTrue
<1>11. Rows
  BY DEF Inv, Rows
<1>12. Rows'
  BY <1>1, <1>8, <1>11, RowsFrame
<1>13. TypeOK'
  BY <1>1, <1>6, <1>8 DEF TypeOK
<1>14. QED
  BY <1>9, <1>10, <1>12, <1>13 DEF Inv, Rows

\* A session looks on: its signal stays in hand, and only it is at work.
LEMMA LookOn ==
    ASSUME TypeOK, Inv, NEW s \in Sessions, pc[s] # "idle",
           UNCHANGED <<world, tables, tenantLock>>,
           rowLock' \in [Incidents -> Sessions \cup {None}],
           NEW p \in {"attached", "select", "rank", "join"}, pc' = [pc EXCEPT ![s] = p],
           NEW w \in Work, work' = [work EXCEPT ![s] = w],
           w.signal = work[s].signal, w.error = work[s].error,
           work[s].signal.kind = "alert", work[s].signal.error = "none",
           work[s].signal.occurrence \notin Duplicated,
           ~Received(canonical_key(work[s].signal)), OldObservation(s) => PendingRetry(s),
           p = "attached" => Attached(s) /\ w.incident = AlertOf(s).incident,
           p # "attached" => ~Attached(s) /\ work[s].signal.state = "firing",
           p = "rank" => /\ Unended(work[s].signal) \subseteq w.candidates
                         /\ \A i \in w.candidates : incidents[i] # None,
           p = "join" => w.incident # None /\ incidents[w.incident] # None
    PROVE  TypeOK' /\ Inv'
<1>1. OneAtWork /\ Rows
  BY DEF Inv, Rows
<1>2. UNCHANGED <<sources, clock, catalogue, receipts, alerts, incidents, reopen, heard, tenantLock>>
  BY DEF world, tables
<1>3. Rows'
  BY <1>1, <1>2, RowsFrame
<1>4. /\ pc' \in [Sessions -> {"idle", "received", "attached", "select", "rank", "join"}]
      /\ pc'[s] = p /\ work' \in [Sessions -> Work] /\ work'[s] = w
      /\ \A d \in Sessions : d # s => pc'[d] = pc[d]
  BY DEF TypeOK
<1>5. \A d \in Sessions : d # s => pc'[d] = "idle"
  BY <1>1, <1>4 DEF OneAtWork
<1>6. OneAtWork'
  BY <1>1, <1>2, <1>4, <1>5 DEF OneAtWork
<1>7. /\ AlertOf(s)' = AlertOf(s) /\ Attached(s)' = Attached(s)
      /\ OldObservation(s)' = OldObservation(s) /\ PendingRetry(s)' = PendingRetry(s)
  BY <1>2, <1>4 DEF AlertOf, Attached, OldObservation, PendingRetry
<1>8. FoundStaysTrue'
  <2> SUFFICES ASSUME pc'[s] \in {"attached", "select", "rank", "join"}
               PROVE  /\ w.signal.kind = "alert" /\ w.signal.error = "none"
                      /\ w.signal.occurrence \notin Duplicated
                      /\ ~Received(canonical_key(w.signal))'
                      /\ OldObservation(s)' => PendingRetry(s)'
                      /\ p = "attached" => Attached(s)' /\ w.incident = AlertOf(s)'.incident
                      /\ p # "attached" => ~Attached(s)' /\ w.signal.state = "firing"
                      /\ p = "rank" => Unended(w.signal)' \subseteq w.candidates
                      /\ p = "rank" => \A i \in w.candidates : incidents'[i] # None
                      /\ p = "join" => w.incident # None /\ incidents'[w.incident] # None
    BY <1>4, <1>5 DEF FoundStaysTrue
  <2>1. p = "rank" => Unended(w.signal)' \subseteq w.candidates
    BY <1>2 DEF Unended, Distance
  <2>2. ~Received(canonical_key(w.signal))'
    BY <1>2 DEF Received, canonical_key
  <2>3. QED
    BY <1>2, <1>7, <2>1, <2>2
<1>9. TypeOK'
  BY <1>2, <1>4 DEF TypeOK
<1>10. QED
  BY <1>3, <1>6, <1>8, <1>9 DEF Inv, Rows

\* An admitted alert that goes on to an incident or to correlation.
LEMMA OpenAlertStep ==
    ASSUME TypeOK, Inv, NEW s \in Sessions, OpenAttached(s) \/ OpenUnattached(s)
    PROVE  TypeOK' /\ Inv'
<1>1. /\ Admitted(s) /\ work[s].signal.kind = "alert" /\ pc[s] # "idle"
      /\ OldObservation(s) => PendingRetry(s)
      /\ work[s].signal.occurrence \notin Duplicated
  BY DEF OpenAttached, OpenUnattached, Correlates, Usable, Ambiguous, IsAlert, Admitted,
         Admitting
<1>2. work[s].signal.error = "none" /\ ~Received(canonical_key(work[s].signal))
  BY <1>1, Admission DEF Inv, Admitted
<1>3. work[s] \in Work /\ AlertOf(s) \in Alert \cup {None}
  BY <1>1, InHand DEF Inv, TypeOK
<1>4. CASE OpenAttached(s)
  <2> DEFINE i == AlertOf(s).incident
             w == [work[s] EXCEPT !.incident = i, !.active = incidents[i].active]
  <2>1. /\ Attached(s) /\ rowLock' = [rowLock EXCEPT ![i] = s]
        /\ work' = [work EXCEPT ![s] = w] /\ pc' = [pc EXCEPT ![s] = "attached"]
        /\ UNCHANGED <<world, tables, tenantLock>>
    BY <1>4 DEF OpenAttached, TypeOK
  <2>2. i \in Incidents /\ AlertOf(s) # None
    BY <1>3, <2>1 DEF Attached, Alert
  <2>3. incidents[i] \in Incident
    <3>1. work[s].signal.occurrence \in Occurrences
      BY <1>1, InHand DEF Inv
    <3>2. incidents[i] # None
      BY <2>2, <3>1, IngestionAssumption DEF Inv, RowsStand, AlertOf
    <3>3. QED
      BY <2>2, <3>2 DEF TypeOK
  <2>4. incidents[i].active \in BOOLEAN
    BY <2>3 DEF Incident
  <2> HIDE DEF i
  <2>5. w \in Work /\ w.signal = work[s].signal /\ w.error = work[s].error /\ w.incident = i
    BY <1>3, <2>2, <2>4 DEF Work
  <2>6. rowLock' \in [Incidents -> Sessions \cup {None}]
    BY <2>1 DEF TypeOK
  <2> HIDE DEF w
  <2>7. QED
    BY <1>1, <1>2, <2>1, <2>5, <2>6, LookOn DEF i
<1>5. CASE OpenUnattached(s)
  <2>1. /\ ~Attached(s) /\ work[s].signal.state = "firing"
        /\ pc' = [pc EXCEPT ![s] = "select"] /\ UNCHANGED <<world, tables, tenantLock>>
        /\ UNCHANGED <<rowLock, work>>
    BY <1>5 DEF OpenUnattached
  <2>2. work' = [work EXCEPT ![s] = work[s]] /\ rowLock' \in [Incidents -> Sessions \cup {None}]
    BY <2>1 DEF TypeOK
  <2>3. QED
    BY <1>1, <1>2, <1>3, <2>1, <2>2, LookOn
<1>6. QED
  BY <1>4, <1>5

\* The candidates are all incidents that have not ended, and stay so: one that is
\* passed over has ended.
LEMMA RankStep ==
    ASSUME TypeOK, Inv, NEW s \in Sessions, Select(s) \/ LockCandidate(s)
    PROVE  TypeOK' /\ Inv'
<1> DEFINE signal == work[s].signal
<1>1. pc[s] \in {"select", "rank"} /\ pc[s] # "idle"
  BY DEF Select, LockCandidate
<1>2. /\ signal.kind = "alert" /\ signal.error = "none" /\ ~Received(canonical_key(signal))
      /\ OldObservation(s) => PendingRetry(s)
      /\ ~Attached(s) /\ signal.state = "firing" /\ signal.occurrence \notin Duplicated
  BY <1>1 DEF Inv, FoundStaysTrue
<1>3. work[s] \in Work
  BY DEF TypeOK
<1> HIDE DEF signal
<1>4. CASE Select(s)
  <2> DEFINE w == [work[s] EXCEPT !.candidates = Candidates(signal)]
  <2>1. /\ work' = [work EXCEPT ![s] = w] /\ pc' = [pc EXCEPT ![s] = "rank"]
        /\ UNCHANGED <<world, tables, tenantLock>> /\ UNCHANGED rowLock
    BY <1>4 DEF Select, TypeOK, signal
  <2>2. Candidates(signal) \subseteq Incidents
    BY DEF Candidates
  <2>3. /\ w \in Work /\ w.signal = work[s].signal /\ w.error = work[s].error
        /\ w.candidates = Candidates(signal)
    BY <1>3, <2>2 DEF Work
  <2> HIDE DEF w
  <2>4. Unended(signal) \subseteq Candidates(signal)
    BY DEF Unended, Candidates, Matches, Inv, RowsStand
  <2>5. \A i \in Candidates(signal) : incidents[i] # None
    BY DEF Candidates, Matches
  <2>6. rowLock' \in [Incidents -> Sessions \cup {None}]
    BY <2>1 DEF TypeOK
  <2>7. QED
    BY <1>1, <1>2, <2>1, <2>3, <2>4, <2>5, <2>6, LookOn DEF signal
<1>5. CASE LockCandidate(s)
  <2>1. PICK i \in work[s].candidates :
           /\ rowLock' = [rowLock EXCEPT ![i] = s]
           /\ IF StillEligible(i)
              THEN /\ work' = [work EXCEPT ![s].incident = i]
                   /\ pc' = [pc EXCEPT ![s] = "join"]
              ELSE /\ work' = [work EXCEPT ![s].candidates = @ \ {i}]
                   /\ UNCHANGED pc
    BY <1>5 DEF LockCandidate
  <2>2. pc[s] = "rank" /\ UNCHANGED <<world, tables, tenantLock>>
    BY <1>5 DEF LockCandidate
  <2>3. work[s].candidates \subseteq Incidents /\ i \in Incidents
    BY <1>3, <2>1 DEF Work
  <2>4. rowLock' \in [Incidents -> Sessions \cup {None}]
    BY <2>1 DEF TypeOK
  <2>5. /\ Unended(signal) \subseteq work[s].candidates
        /\ \A j \in work[s].candidates : incidents[j] # None
    BY <2>2 DEF Inv, FoundStaysTrue, signal
  <2>6. CASE StillEligible(i)
    <3> DEFINE w == [work[s] EXCEPT !.incident = i]
    <3>1. work' = [work EXCEPT ![s] = w] /\ pc' = [pc EXCEPT ![s] = "join"]
      BY <2>1, <2>6 DEF TypeOK
    <3>2. w \in Work /\ w.signal = work[s].signal /\ w.error = work[s].error /\ w.incident = i
      BY <1>3, <2>3 DEF Work
    <3> HIDE DEF w
    <3>3. i # None /\ incidents[i] # None
      BY <2>1, <2>3, <2>5, IngestionAssumption
    <3>4. QED
      BY <1>1, <1>2, <2>2, <2>4, <3>1, <3>2, <3>3, LookOn DEF signal
  <2>7. CASE ~StillEligible(i)
    <3> DEFINE w == [work[s] EXCEPT !.candidates = work[s].candidates \ {i}]
    <3>1. work' = [work EXCEPT ![s] = w] /\ pc' = [pc EXCEPT ![s] = "rank"]
      BY <2>1, <2>2, <2>7 DEF TypeOK
    <3>2. /\ w \in Work /\ w.signal = work[s].signal /\ w.error = work[s].error
          /\ w.candidates = work[s].candidates \ {i}
      BY <1>3, <2>3 DEF Work
    <3> HIDE DEF w
    <3>3. incidents[i].ended
      BY <2>1, <2>3, <2>5, <2>7 DEF Inv, RowsStand, StillEligible
    <3>4. Unended(signal) \subseteq w.candidates
      BY <2>5, <3>2, <3>3 DEF Unended
    <3>5. \A j \in w.candidates : incidents[j] # None
      BY <2>5, <3>2
    <3>6. QED
      BY <1>1, <1>2, <2>2, <2>4, <3>1, <3>2, <3>4, <3>5, LookOn DEF signal
  <2>8. QED
    BY <2>6, <2>7
<1>6. QED
  BY <1>4, <1>5

---------------------------------------------------------------------------
\* The world moves on.
LEMMA WorldStep ==
    ASSUME TypeOK, Inv, Tick \/ \E signal \in sources : RegisterService(signal.scope)
    PROVE  TypeOK' /\ Inv'
<1>1. /\ UNCHANGED <<sources, receipts, alerts, incidents, reopen, heard, tenantLock,
                     rowLock, pc, work>>
      /\ UNCHANGED <<sources, tables>>
  BY DEF Tick, RegisterService, tables
<1>2. clock' \in FirstClock..MaxClock
  BY IngestionAssumption DEF Tick, RegisterService, TypeOK
<1>3. catalogue' \subseteq {s.scope : s \in Signals} \cup Registered
  <2>1. sources \subseteq Signals
    BY SignalsAreSignals DEF TypeOK
  <2>2. QED
    BY <2>1 DEF Tick, RegisterService, TypeOK
<1>4. TypeOK'
  BY <1>1, <1>2, <1>3 DEF TypeOK
<1>5. OneAtWork'
  BY <1>1 DEF Inv, OneAtWork
<1>6. FoundStaysTrue'
  BY <1>1 DEF Inv, FoundStaysTrue, Received, OldObservation, PendingRetry, Attached, AlertOf,
              Unended, Distance
<1>7. Rows
  BY DEF Inv, Rows
<1>8. Rows'
  BY <1>1, <1>7, RowsFrame
<1>9. QED
  BY <1>4, <1>5, <1>6, <1>8 DEF Inv, Rows

\* An incident ends or comes back under a session that ranks it.
LEMMA IncidentMoves ==
    ASSUME TypeOK, Inv, NEW i \in Incidents, Terminate(i) \/ Reopen(i)
    PROVE  TypeOK' /\ Inv'
<1> DEFINE r == IF Terminate(i) THEN [incidents[i] EXCEPT !.active = FALSE, !.ended = TRUE]
                ELSE [incidents[i] EXCEPT !.active = TRUE]
<1>1. /\ UNCHANGED <<sources, clock, catalogue, receipts, alerts, reopen, heard, tenantLock,
                     rowLock, pc, work>>
      /\ incidents[i] # None
  BY DEF Terminate, Reopen, world
<1>2. incidents \in [Incidents -> Incident \cup {None}] /\ incidents[i] \in Incident
  BY <1>1 DEF TypeOK
<1>3. incidents' = [incidents EXCEPT ![i] = r]
  <2>1. CASE Terminate(i)
    BY <1>2, <2>1 DEF Terminate
  <2>2. CASE ~Terminate(i)
    BY <1>2, <2>2 DEF Reopen
  <2>3. QED
    BY <2>1, <2>2
<1>4. /\ r \in Incident /\ r.scope = incidents[i].scope /\ r.anchor = incidents[i].anchor
  BY <1>2 DEF Incident
<1>5. (incidents[i].ended => r.ended) /\ (r.active \/ r.ended)
  BY <1>2 DEF Incident
<1>6. r # None
  BY <1>4, NoneAssumption
<1> HIDE DEF r
<1>7. /\ incidents' \in [Incidents -> Incident \cup {None}] /\ incidents'[i] = r
      /\ \A j \in Incidents : j # i => incidents'[j] = incidents[j]
  BY <1>2, <1>3, <1>4
<1>8. \A j \in Incidents :
         /\ incidents'[j] # None <=> incidents[j] # None
         /\ incidents'[j] # None =>
               /\ incidents'[j].scope = incidents[j].scope
               /\ incidents'[j].anchor = incidents[j].anchor
               /\ incidents[j].ended => incidents'[j].ended
  BY <1>1, <1>4, <1>5, <1>6, <1>7
<1>9. TypeOK'
  BY <1>1, <1>7 DEF TypeOK
<1>10. OneAtWork'
  BY <1>1 DEF Inv, OneAtWork
<1>11. OneIncidentPerBurst'
  BY <1>8, BurstFrame DEF Inv
<1>12. RowsStand'
  <2>1. ASSUME NEW o \in Occurrences, alerts'[o] # None
        PROVE  /\ alerts'[o].latest \in sources' /\ alerts'[o].latest.occurrence = o
               /\ alerts'[o].incident # None => incidents'[alerts'[o].incident] # None
    <3>1. alerts[o] \in Alert
      BY <1>1, <2>1 DEF TypeOK
    <3>2. alerts[o].incident \in Incidents \cup {None}
      BY <3>1 DEF Alert
    <3>3. QED
      BY <1>1, <1>8, <2>1, <3>2 DEF Inv, RowsStand
  <2>2. \A j \in Incidents : incidents'[j] # None => incidents'[j].active \/ incidents'[j].ended
    BY <1>5, <1>7 DEF Inv, RowsStand
  <2>3. \A o \in Occurrences \cap Duplicated : alerts'[o] = None
    BY <1>1 DEF Inv, RowsStand
  <2>4. QED
    BY <2>1, <2>2, <2>3 DEF RowsStand
<1>13. ReceiptsStand' /\ HeardIsShown' /\ HeardOnce' /\ ShowsLatest' /\ FiringIsNotLost'
  BY <1>1 DEF Inv, ReceiptsStand, HeardIsShown, HeardOnce, ShowsLatest, FiringIsNotLost,
              Overflowed
<1>14. FoundStaysTrue'
  <2> SUFFICES ASSUME NEW s \in Sessions, pc[s] \in {"attached", "select", "rank", "join"}
               PROVE  /\ work[s].signal.kind = "alert" /\ work[s].signal.error = "none"
                      /\ work[s].signal.occurrence \notin Duplicated
                      /\ ~Received(canonical_key(work[s].signal))'
                      /\ OldObservation(s)' => PendingRetry(s)'
                      /\ pc[s] = "attached" =>
                            Attached(s)' /\ work[s].incident = AlertOf(s)'.incident
                      /\ pc[s] # "attached" => ~Attached(s)' /\ work[s].signal.state = "firing"
                      /\ pc[s] = "rank" => Unended(work[s].signal)' \subseteq work[s].candidates
                      /\ pc[s] = "rank" => \A j \in work[s].candidates : incidents'[j] # None
                      /\ pc[s] = "join" =>
                            work[s].incident # None /\ incidents'[work[s].incident] # None
    BY <1>1 DEF FoundStaysTrue
  <2>1. work[s] \in Work
    BY DEF TypeOK
  <2>2. work[s].candidates \subseteq Incidents /\ work[s].incident \in Incidents \cup {None}
    BY <2>1 DEF Work
  <2>3. Unended(work[s].signal)' \subseteq Unended(work[s].signal)
    BY <1>1, <1>8 DEF Unended, Distance
  <2>4. /\ AlertOf(s)' = AlertOf(s) /\ Attached(s)' = Attached(s)
        /\ OldObservation(s)' = OldObservation(s) /\ PendingRetry(s)' = PendingRetry(s)
    BY <1>1 DEF AlertOf, Attached, OldObservation, PendingRetry
  <2>5. ~Received(canonical_key(work[s].signal)) => ~Received(canonical_key(work[s].signal))'
    BY <1>1 DEF Received, canonical_key
  <2>6. QED
    BY <1>8, <2>2, <2>3, <2>4, <2>5 DEF Inv, FoundStaysTrue
<1>15. QED
  BY <1>9, <1>10, <1>11, <1>12, <1>13, <1>14 DEF Inv

\* Every step of the sessions and of who ends or reopens incidents keeps the invariant.
LEMMA NextHolds ==
    ASSUME TypeOK, Inv, [Next]_vars
    PROVE  TypeOK' /\ Inv'
<1>1. ASSUME NEW s \in Sessions,
             \/ AnswerDuplicate(s) \/ RefuseSignal(s) \/ RecordChange(s)
             \/ RejectOccurrence(s) \/ SuppressAlert(s) \/ ResolveUnattached(s)
             \/ OpenAttached(s) \/ OpenUnattached(s)
             \/ Overflow(s) \/ Select(s) \/ LockCandidate(s)
             \/ OpenIncident(s) \/ JoinIncident(s) \/ UpdateIncident(s) \/ UpdateTerminated(s)
             \/ Abort(s)
             \/ \E signal \in sources, ingested_at \in FirstClock..clock :
                   Receive(s, signal, ingested_at)
      PROVE  TypeOK' /\ Inv'
  BY <1>1, EndStep, RefuseStep, ResolveStep, OpenAlertStep, OverflowStep, RankStep, OpenStep,
     JoinStep, ReceiveStep
<1>2. CASE UNCHANGED vars
  <2>1. UNCHANGED <<sources, clock, catalogue, receipts, alerts, incidents, reopen, heard,
                    tenantLock, rowLock, pc, work>>
        /\ UNCHANGED <<sources, tables>>
    BY <1>2 DEF vars, world, tables
  <2>2. TypeOK' /\ OneAtWork'
    BY <2>1 DEF TypeOK, Inv, OneAtWork
  <2>3. FoundStaysTrue'
    BY <2>1 DEF Inv, FoundStaysTrue, Received, OldObservation, PendingRetry, Attached, AlertOf,
                Unended, Distance
  <2>4. Rows
    BY DEF Inv, Rows
  <2>5. Rows'
    BY <2>1, <2>4, RowsFrame
  <2>6. QED
    BY <2>2, <2>3, <2>5 DEF Inv, Rows
<1>3. QED
  BY <1>1, <1>2, WorldStep, IncidentMoves DEF Next

---------------------------------------------------------------------------
\* The types, the properties and what they rest on hold together, at every step of
\* any number of sessions.
THEOREM Inductive == Spec => [](TypeOK /\ Inv)
BY InitHolds, NextHolds, PTL DEF Spec

\* However often and under whatever event ids an observation is delivered, or retried
\* after an overflow: its incident hears of it at most once.
THEOREM HeardOnceHolds == Spec => []HeardOnce
<1>1. Inv => HeardOnce
  BY DEF Inv
<1>2. QED
  BY <1>1, Inductive, PTL

\* Whatever the order of delivery, an alert shows the latest observation received
\* for it.
THEOREM ShowsLatestHolds == Spec => []ShowsLatest
<1>1. Inv => ShowsLatest
  BY DEF Inv
<1>2. QED
  BY <1>1, Inductive, PTL

\* Two incidents share scope and window only if one of them has ended, however
\* sessions, endings and reopenings interleave.
THEOREM OneIncidentPerBurstHolds == Spec => []OneIncidentPerBurst
<1>1. Inv => OneIncidentPerBurst
  BY DEF Inv
<1>2. QED
  BY <1>1, Inductive, PTL

\* A firing alert that overflowed the correlation keeps its way into an incident: a
\* retryable receipt, with the delivery's own key unused.
THEOREM FiringIsNotLostHolds == Spec => []FiringIsNotLost
<1>1. Inv => FiringIsNotLost
  BY DEF Inv
<1>2. QED
  BY <1>1, Inductive, PTL
===========================================================================
