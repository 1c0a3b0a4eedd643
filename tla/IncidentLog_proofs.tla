------------------------- MODULE IncidentLog_proofs -------------------------
(***************************************************************************)
(* Proofs about IncidentLog, for any sessions, requests and event keys.    *)
(*                                                                         *)
(* The argument: what a session sees - the committed rows with its draft   *)
(* on top - is sound at all times, so a commit replaces one sound state by *)
(* another and a rollback returns to one.  Appending one event with the    *)
(* next number to a sound log keeps it sound (AppendKeepsSound); only the  *)
(* holder of the row lock has a draft, so no one else's view changes.      *)
(***************************************************************************)
EXTENDS IncidentLog, TLAPS

-----------------------------------------------------------------------------
(* Logs.                                                                   *)

(***************************************************************************)
(* A log stays gapless when the next number is appended                    *)
(* (append_incident_event).                                                *)
(***************************************************************************)
LEMMA AppendKeepsGapless ==
    ASSUME NEW events \in SUBSET Event, NEW mark \in Nat, NEW e \in Event,
           e.sequence = mark + 1,
           GaplessIn(events, mark)
    PROVE  GaplessIn(events \cup {e}, mark + 1)
  <1>1. \A f \in events : f.sequence \in 1..mark
    BY DEF GaplessIn
  <1>2. \A f \in events \cup {e} : f.sequence \in 1..(mark + 1)
    BY <1>1 DEF Event
  <1>3. ASSUME NEW n \in 1..(mark + 1) PROVE \E f \in events \cup {e} : f.sequence = n
    <2>1. CASE n = mark + 1
      BY <2>1
    <2>2. CASE n # mark + 1
      <3>1. n \in 1..mark
        BY <2>2
      <3>2. PICK f \in events : f.sequence = n
        BY <3>1 DEF GaplessIn
      <3>3. QED BY <3>2
    <2>3. QED BY <2>1, <2>2
  <1>4. ASSUME NEW f \in events \cup {e}, NEW g \in events \cup {e}, f.sequence = g.sequence
        PROVE  f = g
    <2>1. f \in events /\ g \in events => f = g
      BY <1>4 DEF GaplessIn
    <2>2. f \in events => f.sequence # e.sequence
      BY <1>1
    <2>3. g \in events => g.sequence # e.sequence
      BY <1>1
    <2>4. QED BY <1>4, <2>1, <2>2, <2>3
  <1>5. QED BY <1>2, <1>3, <1>4 DEF GaplessIn

(***************************************************************************)
(* The derived status follows an appended event: a state change moves it,  *)
(* any other event leaves it (recompute_incident_status).                  *)
(***************************************************************************)
LEMMA AppendKeepsDerived ==
    ASSUME NEW events \in SUBSET Event, NEW mark \in Nat, NEW st, NEW new,
           NEW e \in Event,
           e.sequence = mark + 1,
           GaplessIn(events, mark),
           DerivesIn(events, mark, st),
           IsStateChange(e) => e.to = new,
           ~IsStateChange(e) => new = st
    PROVE  DerivesIn(events \cup {e}, mark + 1, new)
  <1> DEFINE all == events \cup {e}
  <1>1. \A f \in events : f.sequence \in Nat /\ f.sequence < mark + 1
    BY DEF GaplessIn, Event
  <1>2. CASE IsStateChange(e)
    <2>1. ~NoChangeBelow(all, mark + 1 + 1)
      BY <1>2 DEF NoChangeBelow
    <2>2. ASSUME NEW f \in all, LastChangeBelow(all, f, mark + 1 + 1) PROVE f = e
      BY <1>1, <1>2, <2>2 DEF LastChangeBelow
    <2>3. QED BY <1>2, <2>1, <2>2 DEF DerivesIn
  <1>3. CASE ~IsStateChange(e)
    <2>1. NoChangeBelow(all, mark + 1 + 1) => NoChangeBelow(events, mark + 1)
      BY <1>1 DEF NoChangeBelow
    <2>2. ASSUME NEW f \in all, LastChangeBelow(all, f, mark + 1 + 1)
          PROVE  f \in events /\ LastChangeBelow(events, f, mark + 1)
      BY <1>1, <1>3, <2>2 DEF LastChangeBelow
    <2>3. QED BY <1>3, <2>1, <2>2 DEF DerivesIn
  <1>4. QED BY <1>2, <1>3

(***************************************************************************)
(* The history stays one walk when a state change leaves the status that   *)
(* the log derives (apply_transition).                                     *)
(***************************************************************************)
LEMMA AppendKeepsWalk ==
    ASSUME NEW events \in SUBSET Event, NEW mark \in Nat, NEW st, NEW e \in Event,
           e.sequence = mark + 1,
           GaplessIn(events, mark),
           DerivesIn(events, mark, st),
           WalkIn(events),
           IsStateChange(e) => e.from = st /\ Permitted(e.from, e.to)
    PROVE  WalkIn(events \cup {e})
  <1> DEFINE all == events \cup {e}
  <1>1. \A f \in events : f.sequence \in Nat /\ f.sequence < mark + 1
    BY DEF GaplessIn, Event
  <1>2. SUFFICES ASSUME NEW f \in all, IsStateChange(f)
                 PROVE  /\ Permitted(f.from, f.to)
                        /\ NoChangeBelow(all, f.sequence) => f.from = "detected"
                        /\ \A g \in all : LastChangeBelow(all, g, f.sequence) => f.from = g.to
    BY DEF WalkIn
  <1>3. CASE f \in events
    <2>1. NoChangeBelow(all, f.sequence) => NoChangeBelow(events, f.sequence)
      BY DEF NoChangeBelow
    <2>2. ASSUME NEW g \in all, LastChangeBelow(all, g, f.sequence)
          PROVE  g \in events /\ LastChangeBelow(events, g, f.sequence)
      BY <1>1, <1>3, <2>2 DEF LastChangeBelow
    <2>3. QED BY <1>2, <1>3, <2>1, <2>2 DEF WalkIn
  <1>4. CASE f = e
    <2>1. NoChangeBelow(all, f.sequence) => NoChangeBelow(events, mark + 1)
      BY <1>4 DEF NoChangeBelow
    <2>2. ASSUME NEW g \in all, LastChangeBelow(all, g, f.sequence)
          PROVE  g \in events /\ LastChangeBelow(events, g, mark + 1)
      BY <1>1, <1>4, <2>2 DEF LastChangeBelow
    <2>3. QED BY <1>2, <1>4, <2>1, <2>2 DEF DerivesIn
  <1>5. QED BY <1>3, <1>4

(***************************************************************************)
(* A sound log stays sound under an append.                                *)
(***************************************************************************)
LEMMA AppendKeepsSound ==
    ASSUME NEW events \in SUBSET Event, NEW mark \in Nat, NEW st, NEW new,
           NEW e \in Event,
           e.sequence = mark + 1,
           Sound(events, mark, st),
           IsStateChange(e) => e.from = st /\ e.to = new /\ Permitted(e.from, e.to),
           ~IsStateChange(e) => new = st
    PROVE  Sound(events \cup {e}, mark + 1, new)
  BY AppendKeepsGapless, AppendKeepsDerived, AppendKeepsWalk DEF Sound

-----------------------------------------------------------------------------
(* Types.                                                                  *)

(***************************************************************************)
(* The row a session sees, committed or drafted, is a row.                 *)
(***************************************************************************)
LEMMA CurrentType ==
    ASSUME TypeOK, NEW s \in Sessions
    PROVE  /\ Current(s).status \in IncidentStatus
           /\ Current(s).version \in Nat
           /\ Current(s).highWater \in Nat
           /\ Current(s) \in Row
  <1>1. CASE draft[s].dirty
    BY <1>1 DEF TypeOK, Current, Draft, Row
  <1>2. CASE ~draft[s].dirty
    BY <1>2 DEF TypeOK, Current, Row
  <1>3. QED BY <1>1, <1>2

(***************************************************************************)
(* The event a session appends is an event, with the next number.          *)
(***************************************************************************)
LEMMA EventOfType ==
    ASSUME TypeOK, NEW s \in Sessions, NEW kind \in EventKind,
           NEW from \in IncidentStatus, NEW to \in IncidentStatus,
           NEW k \in Keys \cup {NoKey}
    PROVE  /\ EventOf(s, kind, from, to, k) \in Event
           /\ EventOf(s, kind, from, to, k).sequence = Current(s).highWater + 1
           /\ EventOf(s, kind, from, to, k).kind = kind
           /\ EventOf(s, kind, from, to, k).from = from
           /\ EventOf(s, kind, from, to, k).to = to
           /\ EventOf(s, kind, from, to, k).key = k
           /\ EventOf(s, kind, from, to, k).request = request[s]
  <1>1. NextSequence(s) \in Nat
    BY CurrentType DEF NextSequence
  <1>2. request[s] \in Requests \cup {NoKey}
    BY DEF TypeOK
  <1>3. EventOf(s, kind, from, to, k) \in Event
    BY <1>1, <1>2 DEF EventOf, Event
  <1>4. QED BY <1>3 DEF EventOf, NextSequence

(***************************************************************************)
(* The end of a transaction keeps the types of the session state.          *)
(***************************************************************************)
LEMMA EndSessionType ==
    ASSUME TypeOK, NEW s \in Sessions, EndSession(s)
    PROVE  /\ pc' \in [Sessions -> SessionStep]
           /\ snap' \in [Sessions -> Row]
           /\ request' \in [Sessions -> Requests \cup {NoKey}]
           /\ key' \in [Sessions -> Keys \cup {NoKey}]
           /\ draft' \in [Sessions -> Draft]
           /\ rowLock' \in Sessions \cup {Nobody}
           /\ keyLock' \in [Requests -> Sessions \cup {Nobody}]
  <1>1. NoRow \in Row
    BY DEF NoRow, Row, IncidentStatus
  <1>2. NoDraft \in Draft
    BY DEF NoDraft, Draft, IncidentStatus
  <1>3. "idle" \in SessionStep
    BY DEF SessionStep
  <1>4. QED BY <1>1, <1>2, <1>3 DEF TypeOK, EndSession, Goto

(***************************************************************************)
(* A rolled-back transaction keeps the types.                              *)
(***************************************************************************)
LEMMA RollbackType ==
    ASSUME TypeOK, NEW s \in Sessions, Rollback(s)
    PROVE  TypeOK'
  BY EndSessionType DEF TypeOK, Rollback, committed, rowVars

(***************************************************************************)
(* A drafted write keeps the types.                                        *)
(***************************************************************************)
LEMMA WriteType ==
    ASSUME TypeOK, NEW s \in Sessions, NEW row, NEW e \in Event,
           row.status \in IncidentStatus, row.version \in Nat,
           Write(s, row, e)
    PROVE  /\ rowLock' \in Sessions \cup {Nobody}
           /\ draft' \in [Sessions -> Draft]
           /\ draft'[s] = [dirty |-> TRUE, status |-> row.status, version |-> row.version,
                           highWater |-> e.sequence, events |-> draft[s].events \cup {e},
                           timeline |-> draft[s].timeline]
           /\ \A t \in Sessions \ {s} : draft'[t] = draft[t]
           /\ rowLock' = s
  <1>1. draft[s] \in Draft
    BY DEF TypeOK
  <1>2. [dirty |-> TRUE, status |-> row.status, version |-> row.version,
         highWater |-> e.sequence, events |-> draft[s].events \cup {e},
         timeline |-> draft[s].timeline] \in Draft
    BY <1>1 DEF Draft, Event
  <1>3. QED BY <1>2 DEF TypeOK, Write

(***************************************************************************)
(* Every step keeps the types.                                             *)
(***************************************************************************)
LEMMA TypeStep ==
    ASSUME TypeOK, [Next]_vars
    PROVE  TypeOK'
  <1> USE DEF SessionStep
  <1>1. ASSUME NEW s \in Sessions, Read(s) PROVE TypeOK'
    BY <1>1, CurrentType DEF TypeOK, Read, Goto, committed, rowVars
  <1>2. ASSUME NEW s \in Sessions, ReadLocked(s) PROVE TypeOK'
    BY <1>2, CurrentType DEF TypeOK, ReadLocked, Goto, committed, rowVars
  <1>3. ASSUME NEW s \in Sessions, NEW k \in Requests, Replay(s, k) PROVE TypeOK'
    <2>1. CASE k \in remembered
      BY <1>3, <2>1, RollbackType DEF Replay
    <2>2. CASE k \notin remembered
      BY <1>3, <2>2 DEF TypeOK, Replay, committed, rowVars
    <2>3. QED BY <2>1, <2>2
  <1>4. ASSUME NEW s \in Sessions, NEW target \in IncidentStatus, NEW actor \in ActorType,
               Transition(s, target, actor)
        PROVE  TypeOK'
    <2>1. CASE ~VersionMatches(s)
      BY <1>4, <2>1, RollbackType DEF Transition
    <2>2. CASE VersionMatches(s)
      <3> DEFINE e == EventOf(s, "state_changed", snap[s].status, target, NoKey)
                 row == [status |-> target, version |-> Current(s).version + 1]
      <3>1. snap[s] \in Row /\ snap[s].status \in IncidentStatus
        BY DEF TypeOK, Row
      <3>2. e \in Event
        BY <3>1, EventOfType DEF EventKind
      <3>3. row.status \in IncidentStatus /\ row.version \in Nat
        BY CurrentType
      <3>4. Write(s, row, e)
        BY <1>4, <2>2 DEF Transition
      <3>5. rowLock' \in Sessions \cup {Nobody} /\ draft' \in [Sessions -> Draft]
        <4> HIDE DEF row, e
        <4>1. QED BY <3>2, <3>3, <3>4, WriteType
      <3>6. snap' \in [Sessions -> Row]
        BY <1>4, <2>2, <3>1, <3>3 DEF Transition, TypeOK, Row
      <3>7. QED BY <1>4, <2>2, <3>5, <3>6 DEF TypeOK, Transition, Goto, committed, rowVars
    <2>3. QED BY <2>1, <2>2
  <1>5. ASSUME NEW s \in Sessions, ChangeSeverity(s) PROVE TypeOK'
    <2>1. CASE ~VersionMatches(s)
      BY <1>5, <2>1, RollbackType DEF ChangeSeverity
    <2>2. CASE VersionMatches(s)
      <3> DEFINE e == EventOf(s, "severity_changed", Current(s).status, Current(s).status, NoKey)
                 row == [status |-> Current(s).status, version |-> Current(s).version + 1]
      <3>1. snap[s] \in Row
        BY DEF TypeOK
      <3>2. e \in Event
        BY CurrentType, EventOfType DEF EventKind
      <3>3. row.status \in IncidentStatus /\ row.version \in Nat
        BY CurrentType
      <3>4. Write(s, row, e)
        BY <1>5, <2>2 DEF ChangeSeverity
      <3>5. rowLock' \in Sessions \cup {Nobody} /\ draft' \in [Sessions -> Draft]
        <4> HIDE DEF row, e
        <4>1. QED BY <3>2, <3>3, <3>4, WriteType
      <3>6. snap' \in [Sessions -> Row]
        BY <1>5, <2>2, <3>1, <3>3 DEF ChangeSeverity, TypeOK, Row
      <3>7. QED BY <1>5, <2>2, <3>5, <3>6 DEF TypeOK, ChangeSeverity, Goto, committed, rowVars
    <2>3. QED BY <2>1, <2>2
  <1>6. ASSUME NEW s \in Sessions, NEW k \in Keys, LookupKey(s, k) PROVE TypeOK'
    BY <1>6 DEF TypeOK, LookupKey, Goto, committed, rowVars
  <1>7. ASSUME NEW s \in Sessions, InsertKeyed(s) PROVE TypeOK'
    <2>1. CASE \E e \in log : e.key = key[s] \/ e.sequence = NextSequence(s)
      BY <1>7, <2>1, RollbackType DEF InsertKeyed
    <2>2. CASE ~\E e \in log : e.key = key[s] \/ e.sequence = NextSequence(s)
      <3> DEFINE e == EventOf(s, "annotated", Current(s).status, Current(s).status, key[s])
      <3>1. key[s] \in Keys \cup {NoKey}
        BY DEF TypeOK
      <3>2. e \in Event
        BY <3>1, CurrentType, EventOfType DEF EventKind
      <3>3. Write(s, Current(s), e)
        BY <1>7, <2>2 DEF InsertKeyed
      <3>4. rowLock' \in Sessions \cup {Nobody} /\ draft' \in [Sessions -> Draft]
        <4> HIDE DEF e
        <4>1. QED BY <3>2, <3>3, CurrentType, WriteType
      <3>5. QED BY <1>7, <2>2, <3>4 DEF TypeOK, InsertKeyed, Goto, committed, rowVars
    <2>3. QED BY <2>1, <2>2
  <1>8. ASSUME NEW s \in Sessions, InsertUnkeyed(s) PROVE TypeOK'
    <2>1. CASE \E e \in log : e.sequence = NextSequence(s)
      BY <1>8, <2>1, RollbackType DEF InsertUnkeyed
    <2>2. CASE ~\E e \in log : e.sequence = NextSequence(s)
      <3> DEFINE e == EventOf(s, "suppressed", Current(s).status, Current(s).status, NoKey)
      <3>1. e \in Event
        BY CurrentType, EventOfType DEF EventKind
      <3>2. Write(s, Current(s), e)
        BY <1>8, <2>2 DEF InsertUnkeyed
      <3>3. rowLock' \in Sessions \cup {Nobody} /\ draft' \in [Sessions -> Draft]
        <4> HIDE DEF e
        <4>1. QED BY <3>1, <3>2, CurrentType, WriteType
      <3>4. QED BY <1>8, <2>2, <3>3 DEF TypeOK, InsertUnkeyed, Goto, committed, rowVars
    <2>3. QED BY <2>1, <2>2
  <1>9. ASSUME NEW s \in Sessions, Project(s) PROVE TypeOK'
    <2>1. Unprojected(s) \in SUBSET Nat
      BY DEF TypeOK, Unprojected, Draft, Event
    <2>2. draft' \in [Sessions -> Draft]
      BY <1>9, <2>1 DEF Project, TypeOK, Draft
    <2>3. QED BY <1>9, <2>2 DEF TypeOK, Project, Goto, committed, rowVars
  <1>10. ASSUME NEW s \in Sessions, Commit(s) PROVE TypeOK'
    <2>1. EndSession(s)
      BY <1>10 DEF Commit
    <2>2. status' \in IncidentStatus /\ version' \in Nat /\ highWater' \in Nat
      BY <1>10, CurrentType DEF Commit
    <2>3. log' \subseteq Event /\ timeline' \subseteq Nat /\ remembered' \subseteq Requests
      BY <1>10 DEF Commit, TypeOK, Draft, Remember
    <2>4. QED BY <2>1, <2>2, <2>3, EndSessionType DEF TypeOK
  <1>11. ASSUME NEW s \in Sessions, ProjectionRefused(s) \/ Abort(s) PROVE TypeOK'
    BY <1>11, RollbackType DEF ProjectionRefused, Abort
  <1>12. CASE UNCHANGED vars
    BY <1>12 DEF TypeOK, vars, committed, rowVars
  <1>13. QED BY <1>1, <1>2, <1>3, <1>4, <1>5, <1>6, <1>7, <1>8, <1>9, <1>10, <1>11, <1>12
             DEF Next

(***************************************************************************)
(* The initial rows are well typed.                                        *)
(***************************************************************************)
LEMMA TypeInit == Init => TypeOK
  BY DEF Init, TypeOK, IncidentStatus, SessionStep, Row, NoRow, NoDraft, Draft

(***************************************************************************)
(* Every row, lock and draft keeps its type.                               *)
(***************************************************************************)
THEOREM TypeCorrect == Spec => []TypeOK
  BY TypeInit, TypeStep, PTL DEF Spec

-----------------------------------------------------------------------------
(* The log.                                                                *)

LogInv ==
    /\ TypeOK
    /\ CommittedIsSound
    /\ ViewIsSound
    /\ DraftUnderLock
    /\ DraftIsVersioned
    /\ SnapshotIsVersioned

(***************************************************************************)
(* A session without a draft sees what has committed; one with a draft     *)
(* sees a mark and a version that are no older.                            *)
(***************************************************************************)
LEMMA ViewFacts ==
    ASSUME LogInv, NEW s \in Sessions
    PROVE  /\ ~draft[s].dirty => /\ View(s) = log
                                 /\ Current(s) = [status |-> status, version |-> version,
                                                  highWater |-> highWater]
           /\ View(s) \in SUBSET Event
           /\ Current(s).version >= version
           /\ Current(s).highWater >= highWater
           /\ \A e \in log : e.sequence <= highWater
           /\ \A e \in View(s) : e.sequence \in Nat /\ e.sequence <= Current(s).highWater
  <1>1. ~draft[s].dirty => /\ View(s) = log
                           /\ Current(s) = [status |-> status, version |-> version,
                                            highWater |-> highWater]
    BY DEF LogInv, DraftUnderLock, View, Current
  <1>2. View(s) \in SUBSET Event
    BY DEF LogInv, TypeOK, Draft, View
  <1>3. Current(s).version >= version
    <2>1. CASE draft[s].dirty
      BY <2>1 DEF LogInv, DraftUnderLock, Current
    <2>2. CASE ~draft[s].dirty
      BY <1>1, <2>2 DEF LogInv, TypeOK
    <2>3. QED BY <2>1, <2>2
  <1>4. \A e \in log : e.sequence <= highWater
    BY DEF LogInv, TypeOK, CommittedIsSound, Sound, GaplessIn
  <1>5. Current(s).highWater \in Nat /\ highWater \in Nat
    BY CurrentType DEF LogInv, TypeOK
  <1>6. \A e \in View(s) : e.sequence \in Nat /\ e.sequence <= Current(s).highWater
    BY <1>5 DEF LogInv, ViewIsSound, Sound, GaplessIn
  <1>7. Current(s).highWater >= highWater
    <2>1. CASE highWater = 0
      BY <1>5, <2>1
    <2>2. CASE highWater # 0
      <3>1. PICK e \in log : e.sequence = highWater
        BY <1>5, <2>2 DEF LogInv, CommittedIsSound, Sound, GaplessIn
      <3>2. QED BY <1>5, <1>6, <3>1 DEF View
    <2>3. QED BY <2>1, <2>2
  <1>8. QED BY <1>1, <1>2, <1>3, <1>4, <1>6, <1>7

(***************************************************************************)
(* Only one session has a draft: the holder of the row lock.               *)
(***************************************************************************)
LEMMA OthersClean ==
    ASSUME LogInv, NEW s \in Sessions, RowFree(s) \/ draft[s].dirty
    PROVE  \A t \in Sessions \ {s} : ~draft[t].dirty
  BY LogAssumption DEF LogInv, DraftUnderLock, RowFree

(***************************************************************************)
(* A step that changes no row, no draft of the log and no dirty session's  *)
(* lock keeps the invariant, but for what it reads.                        *)
(***************************************************************************)
LEMMA FrameKeeps ==
    ASSUME LogInv, UNCHANGED <<status, version, highWater, log>>,
           \A t \in Sessions :
               /\ draft'[t].dirty = draft[t].dirty
               /\ draft'[t].status = draft[t].status
               /\ draft'[t].version = draft[t].version
               /\ draft'[t].highWater = draft[t].highWater
               /\ draft'[t].events = draft[t].events
               /\ draft[t].dirty => rowLock' = t
               /\ pc'[t] \in {"idle", "read"} => pc[t] \in {"idle", "read"}
    PROVE  /\ CommittedIsSound' /\ ViewIsSound' /\ DraftUnderLock' /\ DraftIsVersioned'
           /\ \A t \in Sessions : Current(t)' = Current(t) /\ View(t)' = View(t)
  <1>1. \A t \in Sessions : Current(t)' = Current(t) /\ View(t)' = View(t)
    BY DEF Current, View
  <1>2. CommittedIsSound'
    BY DEF LogInv, CommittedIsSound
  <1>3. ViewIsSound'
    BY <1>1 DEF LogInv, ViewIsSound
  <1>4. DraftUnderLock'
    BY DEF LogInv, DraftUnderLock
  <1>5. DraftIsVersioned'
    BY <1>1 DEF LogInv, DraftIsVersioned
  <1>6. QED BY <1>1, <1>2, <1>3, <1>4, <1>5

(***************************************************************************)
(* An event drafted under the row lock with the next number keeps the      *)
(* invariant, but for what the session remembers of the row.               *)
(***************************************************************************)
LEMMA WriteKeeps ==
    ASSUME LogInv, NEW s \in Sessions, NEW row, NEW e \in Event,
           RowFree(s), Write(s, row, e), UNCHANGED <<status, version, highWater, log>>,
           row.status \in IncidentStatus, row.version \in Nat,
           row.version >= Current(s).version,
           row.version = Current(s).version => row.status = Current(s).status,
           e.sequence = Current(s).highWater + 1,
           IsStateChange(e) => /\ e.from = Current(s).status /\ e.to = row.status
                               /\ Permitted(e.from, e.to),
           ~IsStateChange(e) => row.status = Current(s).status,
           Goto(s, "written")
    PROVE  /\ CommittedIsSound' /\ ViewIsSound' /\ DraftUnderLock' /\ DraftIsVersioned'
           /\ Current(s)' = [status |-> row.status, version |-> row.version,
                             highWater |-> e.sequence]
           /\ View(s)' = View(s) \cup {e}
           /\ \A t \in Sessions \ {s} : Current(t)' = Current(t) /\ View(t)' = View(t)
  <1>0. TypeOK
    BY DEF LogInv
  <1>1. /\ draft'[s] = [dirty |-> TRUE, status |-> row.status, version |-> row.version,
                       highWater |-> e.sequence, events |-> draft[s].events \cup {e},
                       timeline |-> draft[s].timeline]
        /\ \A t \in Sessions \ {s} : draft'[t] = draft[t]
        /\ rowLock' = s
    BY <1>0, WriteType
  <1>2. \A t \in Sessions \ {s} : ~draft[t].dirty
    BY OthersClean
  <1>3. Current(s)' = [status |-> row.status, version |-> row.version,
                       highWater |-> e.sequence]
    BY <1>1 DEF Current
  <1>4. View(s)' = View(s) \cup {e}
    BY <1>1 DEF View
  <1>5. \A t \in Sessions \ {s} : Current(t)' = Current(t) /\ View(t)' = View(t)
    BY <1>1 DEF Current, View
  <1>6. CommittedIsSound'
    BY DEF LogInv, CommittedIsSound
  <1>7. ViewIsSound'
    <2>1. Current(s).highWater \in Nat
      BY <1>0, CurrentType
    <2>2. Sound(View(s) \cup {e}, Current(s).highWater + 1, row.status)
      BY <2>1, ViewFacts, AppendKeepsSound DEF LogInv, ViewIsSound
    <2>3. Sound(View(s), Current(s).highWater, Current(s).status)'
      <3>1. Current(s)'.highWater = Current(s).highWater + 1 /\ Current(s)'.status = row.status
        BY <1>3
      <3>2. QED BY <1>4, <2>2, <3>1
    <2>4. QED BY <1>5, <2>3 DEF LogInv, ViewIsSound
  <1>8. DraftUnderLock'
    <2>1. Current(s).version >= version /\ Current(s).highWater >= highWater
      BY ViewFacts
    <2>2. /\ Current(s).version \in Nat /\ Current(s).highWater \in Nat
          /\ version \in Nat /\ highWater \in Nat
      BY <1>0, CurrentType DEF TypeOK
    <2>3. row.version >= version /\ e.sequence > highWater
      BY <2>1, <2>2
    <2>4. pc'[s] = "written" /\ \A t \in Sessions \ {s} : pc'[t] = pc[t]
      BY <1>0 DEF Goto, TypeOK
    <2>5. QED BY <1>1, <1>2, <2>3, <2>4 DEF LogInv, DraftUnderLock
  <1>9. DraftIsVersioned'
    <2>1. Current(s).version >= version /\ Current(s).version \in Nat /\ version \in Nat
      BY <1>0, ViewFacts, CurrentType DEF TypeOK
    <2>2. row.version = version => row.status = status
      BY <2>1 DEF LogInv, DraftIsVersioned
    <2>3. QED BY <1>3, <1>5, <2>2 DEF LogInv, DraftIsVersioned
  <1>10. QED BY <1>3, <1>4, <1>5, <1>6, <1>7, <1>8, <1>9

(***************************************************************************)
(* What the end of a transaction does to each session.                     *)
(***************************************************************************)
LEMMA EndFacts ==
    ASSUME TypeOK, NEW s \in Sessions, EndSession(s)
    PROVE  /\ pc'[s] = "idle" /\ draft'[s] = NoDraft
           /\ request'[s] = NoKey /\ key'[s] = NoKey
           /\ \A t \in Sessions \ {s} :
                /\ pc'[t] = pc[t] /\ draft'[t] = draft[t] /\ snap'[t] = snap[t]
                /\ request'[t] = request[t] /\ key'[t] = key[t]
                /\ rowLock = t => rowLock' = t
  BY DEF TypeOK, EndSession, Goto

(***************************************************************************)
(* A transaction that ends without changing the incident or its log - a    *)
(* rollback, a refusal, a crash - keeps the invariant.                     *)
(***************************************************************************)
LEMMA EndKeeps ==
    ASSUME LogInv, TypeOK', NEW s \in Sessions, EndSession(s),
           UNCHANGED <<status, version, highWater, log>>
    PROVE  LogInv'
  <1>0. TypeOK
    BY DEF LogInv
  <1>1. /\ pc'[s] = "idle" /\ draft'[s] = NoDraft
        /\ \A t \in Sessions \ {s} :
              /\ pc'[t] = pc[t] /\ draft'[t] = draft[t] /\ snap'[t] = snap[t]
              /\ rowLock = t => rowLock' = t
    BY <1>0, EndFacts
  <1>2. /\ View(s)' = log
        /\ Current(s)' = [status |-> status, version |-> version, highWater |-> highWater]
    BY <1>1 DEF View, Current, NoDraft
  <1>3. \A t \in Sessions \ {s} : Current(t)' = Current(t) /\ View(t)' = View(t)
    BY <1>1 DEF Current, View
  <1>4. CommittedIsSound'
    BY DEF LogInv, CommittedIsSound
  <1>5. ViewIsSound'
    <2>1. Sound(View(s), Current(s).highWater, Current(s).status)'
      <3>1. Current(s)'.highWater = highWater /\ Current(s)'.status = status
        BY <1>2
      <3>2. QED BY <1>2, <3>1 DEF LogInv, CommittedIsSound
    <2>2. QED BY <1>3, <2>1 DEF LogInv, ViewIsSound
  <1>6. DraftUnderLock'
    BY <1>1 DEF LogInv, DraftUnderLock, NoDraft
  <1>7. DraftIsVersioned'
    BY <1>2, <1>3 DEF LogInv, DraftIsVersioned
  <1>8. SnapshotIsVersioned'
    BY <1>1, <1>3 DEF LogInv, SnapshotIsVersioned
  <1>9. QED BY <1>4, <1>5, <1>6, <1>7, <1>8 DEF LogInv

(***************************************************************************)
(* A commit makes the session's view the committed log, and every other    *)
(* session's: none of them has a draft.                                    *)
(***************************************************************************)
LEMMA CommitKeeps ==
    ASSUME LogInv, TypeOK', NEW s \in Sessions, Commit(s), draft[s].dirty
    PROVE  LogInv'
  <1>0. TypeOK /\ EndSession(s)
    BY DEF LogInv, Commit
  <1>1. /\ pc'[s] = "idle" /\ draft'[s] = NoDraft
        /\ \A t \in Sessions \ {s} :
              pc'[t] = pc[t] /\ draft'[t] = draft[t] /\ snap'[t] = snap[t]
    BY <1>0, EndFacts
  <1>2. \A t \in Sessions \ {s} : ~draft[t].dirty
    BY OthersClean
  <1>3. /\ log' = View(s) /\ status' = Current(s).status
        /\ version' = Current(s).version /\ highWater' = Current(s).highWater
    BY DEF Commit, View
  <1>4. \A t \in Sessions : ~draft'[t].dirty /\ draft'[t].events = {}
    BY <1>1, <1>2 DEF NoDraft, LogInv, DraftUnderLock
  <1>5. \A t \in Sessions :
           /\ View(t)' = log'
           /\ Current(t)' = [status |-> status', version |-> version', highWater |-> highWater']
    BY <1>4 DEF View, Current
  <1>6. CommittedIsSound'
    BY <1>3 DEF LogInv, ViewIsSound, CommittedIsSound
  <1>7. ViewIsSound'
    <2>1. ASSUME NEW t \in Sessions PROVE Sound(View(t), Current(t).highWater, Current(t).status)'
      <3>1. Current(t)'.highWater = highWater' /\ Current(t)'.status = status'
        BY <1>5
      <3>2. QED BY <1>5, <1>6, <3>1 DEF CommittedIsSound
    <2>2. QED BY <2>1 DEF ViewIsSound
  <1>8. DraftUnderLock'
    BY <1>4 DEF DraftUnderLock
  <1>9. DraftIsVersioned'
    BY <1>5 DEF DraftIsVersioned
  <1>10. SnapshotIsVersioned'
    <2>1. SUFFICES ASSUME NEW t \in Sessions, pc'[t] # "idle"
                   PROVE  /\ snap'[t].version <= Current(t)'.version
                          /\ snap'[t].version = Current(t)'.version
                                => snap'[t].status = Current(t)'.status
      BY DEF SnapshotIsVersioned
    <2>2. t # s /\ pc[t] # "idle" /\ snap'[t] = snap[t]
      BY <1>1, <2>1
    <2>3. Current(t) = [status |-> status, version |-> version, highWater |-> highWater]
      BY <1>2, <2>2, ViewFacts
    <2>4. snap[t].version <= version /\ (snap[t].version = version => snap[t].status = status)
      BY <2>2, <2>3 DEF LogInv, SnapshotIsVersioned
    <2>5. /\ Current(s).version >= version
          /\ Current(s).version = version => Current(s).status = status
      BY ViewFacts DEF LogInv, DraftIsVersioned
    <2>6. Current(s).version \in Nat /\ version \in Nat /\ snap[t].version \in Nat
      BY <1>0, CurrentType DEF TypeOK, Row
    <2>7. QED BY <1>3, <1>5, <2>2, <2>4, <2>5, <2>6
  <1>11. QED BY <1>6, <1>7, <1>8, <1>9, <1>10 DEF LogInv

(***************************************************************************)
(* The edge a session asserts is one of the table's.                       *)
(***************************************************************************)
LEMMA AssertedIsPermitted ==
    ASSUME NEW from, NEW to, NEW actor \in ActorType,
           assert_transition_allowed(from, to, actor, TRUE, TRUE)
    PROVE  Permitted(from, to)
  BY DEF Permitted

(***************************************************************************)
(* Every step keeps the invariant of the log.                              *)
(***************************************************************************)
LEMMA LogStep ==
    ASSUME LogInv, [Next]_vars
    PROVE  LogInv'
  <1>0. TypeOK /\ TypeOK'
    BY TypeStep DEF LogInv
  <1>a. ASSUME NEW s \in Sessions, Rollback(s) PROVE LogInv'
    BY <1>0, <1>a, EndKeeps DEF Rollback, committed, rowVars
  <1>1. ASSUME NEW s \in Sessions, Read(s) \/ ReadLocked(s) PROVE LogInv'
    <2>1. /\ pc[s] = "idle" /\ UNCHANGED <<status, version, highWater, log, draft>>
          /\ \A t \in Sessions \ {s} : snap'[t] = snap[t] /\ pc'[t] = pc[t]
          /\ snap'[s] = Current(s) /\ pc'[s] = "read"
      BY <1>0, <1>1 DEF Read, ReadLocked, Goto, TypeOK, committed, rowVars
    <2>2. \A t \in Sessions : draft[t].dirty => rowLock' = t
      BY <1>1, LogAssumption DEF LogInv, DraftUnderLock, Read, ReadLocked, RowFree
    <2>3. /\ CommittedIsSound' /\ ViewIsSound' /\ DraftUnderLock' /\ DraftIsVersioned'
          /\ \A t \in Sessions : Current(t)' = Current(t)
      BY <2>1, <2>2, FrameKeeps
    <2>4. SnapshotIsVersioned'
      BY <1>0, <2>1, <2>3, CurrentType DEF LogInv, SnapshotIsVersioned
    <2>5. QED BY <1>0, <2>3, <2>4 DEF LogInv
  <1>2. ASSUME NEW s \in Sessions, NEW k \in Requests, Replay(s, k) PROVE LogInv'
    <2>1. CASE k \in remembered
      BY <1>a, <1>2, <2>1 DEF Replay
    <2>2. CASE k \notin remembered
      <3>1. UNCHANGED <<status, version, highWater, log, draft, rowLock, pc, snap>>
        BY <1>2, <2>2 DEF Replay, committed, rowVars
      <3>2. /\ CommittedIsSound' /\ ViewIsSound' /\ DraftUnderLock' /\ DraftIsVersioned'
            /\ \A t \in Sessions : Current(t)' = Current(t)
        BY <3>1, FrameKeeps DEF LogInv, DraftUnderLock
      <3>3. SnapshotIsVersioned'
        BY <3>1, <3>2 DEF LogInv, SnapshotIsVersioned
      <3>4. QED BY <1>0, <3>2, <3>3 DEF LogInv
    <2>3. QED BY <2>1, <2>2
  <1>3. ASSUME NEW s \in Sessions, NEW target \in IncidentStatus, NEW actor \in ActorType,
               Transition(s, target, actor)
        PROVE  LogInv'
    <2>1. CASE ~VersionMatches(s)
      BY <1>a, <1>3, <2>1 DEF Transition
    <2>2. CASE VersionMatches(s)
      <3> DEFINE e == EventOf(s, "state_changed", snap[s].status, target, NoKey)
                 row == [status |-> target, version |-> Current(s).version + 1]
      <3>1. /\ snap[s] \in Row /\ snap[s].status \in IncidentStatus
            /\ Current(s).version \in Nat
        BY <1>0, CurrentType DEF TypeOK, Row
      <3>2. pc[s] # "idle"
        BY <1>3 DEF Transition, MayWrite
      <3>3. snap[s].status = Current(s).status
        BY <2>2, <3>2 DEF LogInv, SnapshotIsVersioned, VersionMatches
      <3>4. /\ e \in Event /\ e.sequence = Current(s).highWater + 1
            /\ IsStateChange(e) /\ e.from = Current(s).status /\ e.to = target
        BY <1>0, <3>1, <3>3, EventOfType DEF EventKind, IsStateChange
      <3>5. Permitted(e.from, e.to)
        <4>1. assert_transition_allowed(snap[s].status, target, actor, TRUE, TRUE)
          BY <1>3 DEF Transition
        <4>2. Permitted(snap[s].status, target)
          BY <4>1, AssertedIsPermitted
        <4>3. QED BY <3>3, <3>4, <4>2
      <3>6. /\ row.status = target /\ row.version = Current(s).version + 1
            /\ RowFree(s) /\ Write(s, row, e) /\ Goto(s, "written")
            /\ UNCHANGED <<status, version, highWater, log>>
        BY <1>3, <2>2 DEF Transition, committed, rowVars
      <3>7. /\ snap'[s].status = target /\ snap'[s].version = Current(s).version + 1
            /\ \A t \in Sessions \ {s} : snap'[t] = snap[t] /\ pc'[t] = pc[t]
        BY <1>0, <1>3, <2>2, <3>1 DEF Transition, Goto, TypeOK, Row
      <3> HIDE DEF row, e
      <3>8. /\ CommittedIsSound' /\ ViewIsSound' /\ DraftUnderLock' /\ DraftIsVersioned'
            /\ Current(s)' = [status |-> row.status, version |-> row.version,
                              highWater |-> e.sequence]
            /\ \A t \in Sessions \ {s} : Current(t)' = Current(t)
        BY <3>1, <3>4, <3>5, <3>6, WriteKeeps
      <3>9. SnapshotIsVersioned'
        BY <3>1, <3>6, <3>7, <3>8 DEF LogInv, SnapshotIsVersioned
      <3>10. QED BY <1>0, <3>8, <3>9 DEF LogInv
    <2>3. QED BY <2>1, <2>2
  <1>4. ASSUME NEW s \in Sessions, ChangeSeverity(s) PROVE LogInv'
    <2>1. CASE ~VersionMatches(s)
      BY <1>a, <1>4, <2>1 DEF ChangeSeverity
    <2>2. CASE VersionMatches(s)
      <3> DEFINE e == EventOf(s, "severity_changed", Current(s).status, Current(s).status, NoKey)
                 row == [status |-> Current(s).status, version |-> Current(s).version + 1]
      <3>1. /\ snap[s] \in Row /\ Current(s).status \in IncidentStatus
            /\ Current(s).version \in Nat
        BY <1>0, CurrentType DEF TypeOK
      <3>2. pc[s] # "idle"
        BY <1>4 DEF ChangeSeverity, MayWrite
      <3>3. snap[s].status = Current(s).status
        BY <2>2, <3>2 DEF LogInv, SnapshotIsVersioned, VersionMatches
      <3>4. /\ e \in Event /\ e.sequence = Current(s).highWater + 1
            /\ ~IsStateChange(e)
        BY <1>0, <3>1, EventOfType DEF EventKind, IsStateChange
      <3>5. /\ row.status = Current(s).status /\ row.version = Current(s).version + 1
            /\ RowFree(s) /\ Write(s, row, e) /\ Goto(s, "written")
            /\ UNCHANGED <<status, version, highWater, log>>
        BY <1>4, <2>2 DEF ChangeSeverity, RowFree, committed, rowVars
      <3>6. /\ snap'[s].status = snap[s].status /\ snap'[s].version = Current(s).version + 1
            /\ \A t \in Sessions \ {s} : snap'[t] = snap[t] /\ pc'[t] = pc[t]
        BY <1>0, <1>4, <2>2, <3>1 DEF ChangeSeverity, Goto, TypeOK, Row
      <3> HIDE DEF row, e
      <3>7. /\ CommittedIsSound' /\ ViewIsSound' /\ DraftUnderLock' /\ DraftIsVersioned'
            /\ Current(s)' = [status |-> row.status, version |-> row.version,
                              highWater |-> e.sequence]
            /\ \A t \in Sessions \ {s} : Current(t)' = Current(t)
        BY <3>1, <3>4, <3>5, WriteKeeps
      <3>8. SnapshotIsVersioned'
        BY <3>1, <3>3, <3>5, <3>6, <3>7 DEF LogInv, SnapshotIsVersioned
      <3>9. QED BY <1>0, <3>7, <3>8 DEF LogInv
    <2>3. QED BY <2>1, <2>2
  <1>5. ASSUME NEW s \in Sessions, NEW k \in Keys, LookupKey(s, k) PROVE LogInv'
    <2>1. /\ UNCHANGED <<status, version, highWater, log, draft, rowLock, snap>>
          /\ pc[s] # "idle" /\ pc'[s] = "keyed"
          /\ \A t \in Sessions \ {s} : pc'[t] = pc[t]
      BY <1>0, <1>5 DEF LookupKey, MayWrite, Goto, TypeOK, committed, rowVars
    <2>2. /\ CommittedIsSound' /\ ViewIsSound' /\ DraftUnderLock' /\ DraftIsVersioned'
          /\ \A t \in Sessions : Current(t)' = Current(t)
      BY <2>1, FrameKeeps DEF LogInv, DraftUnderLock
    <2>3. SnapshotIsVersioned'
      BY <2>1, <2>2 DEF LogInv, SnapshotIsVersioned
    <2>4. QED BY <1>0, <2>2, <2>3 DEF LogInv
  <1>6. ASSUME NEW s \in Sessions, InsertKeyed(s) \/ InsertUnkeyed(s) PROVE LogInv'
    <2>1. CASE Rollback(s)
      BY <1>a, <2>1
    <2>2. CASE ~Rollback(s)
      <3>1. PICK kind \in {"annotated", "suppressed"}, k \in Keys \cup {NoKey} :
               Write(s, Current(s), EventOf(s, kind, Current(s).status, Current(s).status, k))
        <4>1. key[s] \in Keys \cup {NoKey}
          BY <1>0 DEF TypeOK
        <4>2. QED BY <1>6, <2>2, <4>1 DEF InsertKeyed, InsertUnkeyed
      <3> DEFINE e == EventOf(s, kind, Current(s).status, Current(s).status, k)
      <3>2. /\ Current(s).status \in IncidentStatus /\ Current(s).version \in Nat
            /\ Current(s) \in Row
        BY <1>0, CurrentType
      <3>3. /\ e \in Event /\ e.sequence = Current(s).highWater + 1 /\ ~IsStateChange(e)
        BY <1>0, <3>2, EventOfType DEF EventKind, IsStateChange
      <3>4. /\ RowFree(s) /\ Goto(s, "written") /\ pc[s] # "idle"
            /\ UNCHANGED <<status, version, highWater, log, snap>>
            /\ \A t \in Sessions \ {s} : pc'[t] = pc[t]
        BY <1>0, <1>6, <2>2
           DEF InsertKeyed, InsertUnkeyed, MayWrite, Goto, TypeOK, committed, rowVars
      <3> HIDE DEF e
      <3>5. /\ CommittedIsSound' /\ ViewIsSound' /\ DraftUnderLock' /\ DraftIsVersioned'
            /\ Current(s)' = [status |-> Current(s).status, version |-> Current(s).version,
                              highWater |-> e.sequence]
            /\ \A t \in Sessions \ {s} : Current(t)' = Current(t)
        BY <3>1, <3>2, <3>3, <3>4, WriteKeeps DEF e
      <3>6. SnapshotIsVersioned'
        BY <3>4, <3>5 DEF LogInv, SnapshotIsVersioned
      <3>7. QED BY <1>0, <3>5, <3>6 DEF LogInv
    <2>3. QED BY <2>1, <2>2
  <1>7. ASSUME NEW s \in Sessions, Project(s) PROVE LogInv'
    <2>1. /\ UNCHANGED <<status, version, highWater, log, rowLock, snap>>
          /\ pc[s] # "idle" /\ pc'[s] = "written"
          /\ \A t \in Sessions \ {s} : pc'[t] = pc[t]
      BY <1>0, <1>7 DEF Project, MayWrite, Goto, TypeOK, committed, rowVars
    <2>2. \A t \in Sessions :
             /\ draft'[t].dirty = draft[t].dirty
             /\ draft'[t].status = draft[t].status
             /\ draft'[t].version = draft[t].version
             /\ draft'[t].highWater = draft[t].highWater
             /\ draft'[t].events = draft[t].events
      BY <1>0, <1>7 DEF Project, TypeOK, Draft
    <2>3. /\ CommittedIsSound' /\ ViewIsSound' /\ DraftUnderLock' /\ DraftIsVersioned'
          /\ \A t \in Sessions : Current(t)' = Current(t)
      BY <2>1, <2>2, FrameKeeps DEF LogInv, DraftUnderLock
    <2>4. SnapshotIsVersioned'
      BY <2>1, <2>3 DEF LogInv, SnapshotIsVersioned
    <2>5. QED BY <1>0, <2>3, <2>4 DEF LogInv
  <1>8. ASSUME NEW s \in Sessions, Commit(s) PROVE LogInv'
    <2>1. CASE draft[s].dirty
      BY <1>0, <1>8, <2>1, CommitKeeps
    <2>2. CASE ~draft[s].dirty
      <3>1. UNCHANGED <<status, version, highWater, log>>
        BY <1>8, <2>2, ViewFacts DEF Commit, View
      <3>2. QED BY <1>0, <1>8, <3>1, EndKeeps DEF Commit
    <2>3. QED BY <2>1, <2>2
  <1>9. ASSUME NEW s \in Sessions, ProjectionRefused(s) \/ Abort(s) PROVE LogInv'
    BY <1>a, <1>9 DEF ProjectionRefused, Abort
  <1>10. CASE UNCHANGED vars
    <2>1. UNCHANGED <<status, version, highWater, log, rowLock, snap, draft, pc>>
      BY <1>10 DEF vars, committed, rowVars
    <2>2. /\ CommittedIsSound' /\ ViewIsSound' /\ DraftUnderLock' /\ DraftIsVersioned'
          /\ \A t \in Sessions : Current(t)' = Current(t)
      BY <2>1, FrameKeeps DEF LogInv, DraftUnderLock
    <2>3. QED BY <1>0, <2>1, <2>2 DEF LogInv, SnapshotIsVersioned
  <1>11. QED BY <1>1, <1>2, <1>3, <1>4, <1>5, <1>6, <1>7, <1>8, <1>9, <1>10 DEF Next

(***************************************************************************)
(* A new incident's log is empty, and sound.                               *)
(***************************************************************************)
LEMMA LogInit == Init => LogInv
  <1> SUFFICES ASSUME Init PROVE LogInv
    OBVIOUS
  <1>1. TypeOK
    BY TypeInit
  <1>2. /\ log = {} /\ status = "detected" /\ version = 1 /\ highWater = 0
        /\ \A s \in Sessions : draft[s] = NoDraft /\ pc[s] = "idle"
    BY DEF Init
  <1>3. \A s \in Sessions :
           /\ View(s) = {} /\ Current(s) = [status |-> "detected", version |-> 1, highWater |-> 0]
    BY <1>2 DEF View, Current, NoDraft
  <1>4. Sound({}, 0, "detected")
    BY DEF Sound, GaplessIn, DerivesIn, WalkIn
  <1>5. CommittedIsSound
    BY <1>2, <1>4 DEF CommittedIsSound
  <1>6. ViewIsSound
    BY <1>3, <1>4 DEF ViewIsSound
  <1>7. DraftUnderLock
    BY <1>2 DEF DraftUnderLock, NoDraft
  <1>8. DraftIsVersioned /\ SnapshotIsVersioned
    BY <1>2, <1>3 DEF DraftIsVersioned, SnapshotIsVersioned
  <1>9. QED BY <1>1, <1>5, <1>6, <1>7, <1>8 DEF LogInv

(***************************************************************************)
(* Committed rows and every session's view of them are sound at all times. *)
(***************************************************************************)
THEOREM LogInvariant == Spec => []LogInv
  BY LogInit, LogStep, PTL DEF Spec

(***************************************************************************)
(* The committed sequence numbers have no gap and no repetition, whatever  *)
(* sessions race, roll back or crash (append_incident_event).              *)
(***************************************************************************)
THEOREM GaplessHolds == Spec => []Gapless
  <1>1. LogInv => Gapless
    BY DEF LogInv, CommittedIsSound, Sound, Gapless
  <1>2. QED BY <1>1, LogInvariant, PTL

(***************************************************************************)
(* The status column is what the log derives                               *)
(* (assert_status_matches_log).                                            *)
(***************************************************************************)
THEOREM StatusMatchesLogHolds == Spec => []StatusMatchesLog
  <1>1. LogInv => StatusMatchesLog
    BY DEF LogInv, CommittedIsSound, Sound, StatusMatchesLog
  <1>2. QED BY <1>1, LogInvariant, PTL

(***************************************************************************)
(* The state changes of an incident are one walk through TRANSITIONS,      *)
(* although writers judge a status they read without a lock.               *)
(***************************************************************************)
THEOREM LogIsAWalkHolds == Spec => []LogIsAWalk
  <1>1. LogInv => LogIsAWalk
    BY DEF LogInv, CommittedIsSound, Sound, LogIsAWalk
  <1>2. QED BY <1>1, LogInvariant, PTL

(***************************************************************************)
(* The holder of the row lock draws a number nobody has taken.             *)
(***************************************************************************)
THEOREM HolderDrawsFreshNumberHolds == Spec => []HolderDrawsFreshNumber
  <1>1. ASSUME LogInv PROVE HolderDrawsFreshNumber
    <2>1. ASSUME NEW s \in Sessions, NEW e \in log PROVE e.sequence < NextSequence(s)
      <3>1. e \in View(s)
        BY DEF View
      <3>2. e.sequence \in Nat /\ e.sequence <= Current(s).highWater
        BY <1>1, <3>1, ViewFacts
      <3>3. Current(s).highWater \in Nat
        BY <1>1, CurrentType DEF LogInv
      <3>4. QED BY <3>2, <3>3 DEF NextSequence
    <2>2. QED BY <2>1 DEF HolderDrawsFreshNumber
  <1>2. QED BY <1>1, LogInvariant, PTL

-----------------------------------------------------------------------------
(* The timeline.                                                           *)

TimelineInv ==
    /\ LogInv
    /\ TimelineHasNoHole
    /\ ProjectionIsSound

(***************************************************************************)
(* Events with higher numbers than any event so far make no hole.          *)
(***************************************************************************)
LEMMA NoHoleExtends ==
    ASSUME NEW events \in SUBSET Event, NEW extra \in SUBSET Event,
           NEW shown \in SUBSET Nat, NEW mark \in Nat,
           NoHoleIn(events, shown),
           \A e \in events : e.sequence <= mark,
           \A e \in extra : e.sequence > mark
    PROVE  NoHoleIn(events \cup extra, shown)
  <1>1. SUFFICES ASSUME NEW n \in shown
                 PROVE  /\ \E e \in events \cup extra :
                              e.sequence = n /\ is_visible_on_timeline(e)
                        /\ \A e \in events \cup extra :
                              is_visible_on_timeline(e) /\ e.sequence < n
                                => e.sequence \in shown
    BY DEF NoHoleIn
  <1>2. PICK e \in events : e.sequence = n /\ is_visible_on_timeline(e)
    BY DEF NoHoleIn
  <1>3. \A f \in extra : ~(f.sequence < n)
    BY <1>2 DEF Event
  <1>4. QED BY <1>2, <1>3 DEF NoHoleIn

(***************************************************************************)
(* Two projections of one log together make no hole.                       *)
(***************************************************************************)
LEMMA NoHoleUnion ==
    ASSUME NEW events, NEW A, NEW B, NoHoleIn(events, A), NoHoleIn(events, B)
    PROVE  NoHoleIn(events, A \cup B)
  BY DEF NoHoleIn

(***************************************************************************)
(* Showing every visible event that is not shown yet leaves no hole        *)
(* (project_timeline).                                                     *)
(***************************************************************************)
LEMMA ProjectFillsHoles ==
    ASSUME TimelineInv, NEW s \in Sessions
    PROVE  NoHoleIn(View(s), timeline \cup Unprojected(s))
  <1>1. \A n \in timeline : \E e \in View(s) : e.sequence = n /\ is_visible_on_timeline(e)
    BY DEF TimelineInv, ProjectionIsSound, NoHoleIn
  <1>2. \A n \in Unprojected(s) :
           \E e \in View(s) : e.sequence = n /\ is_visible_on_timeline(e)
    BY DEF Unprojected, View
  <1>3. \A e \in View(s) : is_visible_on_timeline(e) =>
           e.sequence \in timeline \cup Unprojected(s)
    BY DEF Unprojected, View
  <1>4. QED BY <1>1, <1>2, <1>3 DEF NoHoleIn

(***************************************************************************)
(* A commit of one session leaves no hole in what another has projected.   *)
(***************************************************************************)
LEMMA CommitLeavesNoHole ==
    ASSUME TimelineInv, NEW s \in Sessions, NEW t \in Sessions, s # t,
           draft[s].dirty => ~draft[t].dirty
    PROVE  NoHoleIn(View(s) \cup draft[t].events,
                    (timeline \cup draft[s].timeline) \cup (timeline \cup draft[t].timeline))
  <1> DEFINE shownS == timeline \cup draft[s].timeline
             shownT == timeline \cup draft[t].timeline
  <1>0. LogInv /\ TypeOK
    BY DEF TimelineInv, LogInv
  <1>1. /\ View(s) = log \cup draft[s].events /\ View(t) = log \cup draft[t].events
        /\ View(s) \in SUBSET Event /\ View(t) \in SUBSET Event
        /\ draft[s].events \in SUBSET Event /\ draft[t].events \in SUBSET Event
        /\ shownS \in SUBSET Nat /\ shownT \in SUBSET Nat
        /\ log \in SUBSET Event /\ highWater \in Nat
    BY <1>0 DEF View, TypeOK, Draft
  <1>2. /\ \A e \in log : e.sequence <= highWater
        /\ \A e \in draft[s].events : e.sequence > highWater
        /\ \A e \in draft[t].events : e.sequence > highWater
    BY <1>0, ViewFacts DEF LogInv, DraftUnderLock
  <1>3. NoHoleIn(View(s), shownS) /\ NoHoleIn(View(t), shownT)
    BY DEF TimelineInv, ProjectionIsSound
  <1> HIDE DEF shownS, shownT
  <1>4. CASE draft[s].dirty
    <2>1. draft[t].events = {}
      BY <1>0, <1>4 DEF LogInv, DraftUnderLock
    <2>2. NoHoleIn(log, shownT)
      BY <1>1, <1>3, <2>1
    <2>3. NoHoleIn(log \cup draft[s].events, shownT)
      BY <1>1, <1>2, <2>2, NoHoleExtends
    <2>4. View(s) \cup draft[t].events = View(s) /\ View(s) = log \cup draft[s].events
      BY <1>1, <2>1
    <2>5. NoHoleIn(View(s), shownS \cup shownT)
      BY <1>3, <2>3, <2>4, NoHoleUnion
    <2>6. QED BY <2>4, <2>5 DEF shownS, shownT
  <1>5. CASE ~draft[s].dirty
    <2>1. draft[s].events = {}
      BY <1>0, <1>5 DEF LogInv, DraftUnderLock
    <2>2. NoHoleIn(log, shownS)
      BY <1>1, <1>3, <2>1
    <2>3. NoHoleIn(log \cup draft[t].events, shownS)
      BY <1>1, <1>2, <2>2, NoHoleExtends
    <2>4. View(s) \cup draft[t].events = View(t) /\ View(t) = log \cup draft[t].events
      BY <1>1, <2>1
    <2>5. NoHoleIn(View(t), shownS \cup shownT)
      BY <1>3, <2>3, <2>4, NoHoleUnion
    <2>6. QED BY <2>4, <2>5 DEF shownS, shownT
  <1>6. QED BY <1>4, <1>5

(***************************************************************************)
(* A drafted event makes no hole: its number is above all that is shown.   *)
(***************************************************************************)
LEMMA WriteLeavesNoHole ==
    ASSUME TimelineInv, NEW s \in Sessions, NEW row, NEW e \in Event,
           row.status \in IncidentStatus, row.version \in Nat,
           Write(s, row, e), e.sequence = Current(s).highWater + 1,
           UNCHANGED <<log, timeline>>
    PROVE  TimelineHasNoHole' /\ ProjectionIsSound'
  <1>0. LogInv /\ TypeOK
    BY DEF TimelineInv, LogInv
  <1>1. /\ draft'[s].events = draft[s].events \cup {e}
        /\ draft'[s].timeline = draft[s].timeline
        /\ \A t \in Sessions \ {s} : draft'[t] = draft[t]
    <2>1. /\ draft'[s] = [dirty |-> TRUE, status |-> row.status, version |-> row.version,
                         highWater |-> e.sequence, events |-> draft[s].events \cup {e},
                         timeline |-> draft[s].timeline]
          /\ \A t \in Sessions \ {s} : draft'[t] = draft[t]
      BY <1>0, WriteType
    <2>2. QED BY <2>1
  <1>2. TimelineHasNoHole'
    BY DEF TimelineInv, TimelineHasNoHole
  <1>3. View(s)' = View(s) \cup {e} /\ (timeline \cup draft[s].timeline)' = timeline \cup draft[s].timeline
    BY <1>1 DEF View
  <1>4. \A t \in Sessions \ {s} : View(t)' = View(t) /\ draft'[t].timeline = draft[t].timeline
    BY <1>1 DEF View
  <1>5. NoHoleIn(View(s) \cup {e}, timeline \cup draft[s].timeline)
    <2>1. Current(s).highWater \in Nat /\ View(s) \in SUBSET Event
      BY <1>0, CurrentType, ViewFacts
    <2>2. timeline \cup draft[s].timeline \in SUBSET Nat
      BY <1>0 DEF TypeOK, Draft
    <2>3. \A f \in View(s) : f.sequence <= Current(s).highWater
      BY <1>0, ViewFacts
    <2>4. \A f \in {e} : f.sequence > Current(s).highWater
      BY <2>1
    <2>5. NoHoleIn(View(s), timeline \cup draft[s].timeline)
      BY DEF TimelineInv, ProjectionIsSound
    <2>6. QED BY <2>1, <2>2, <2>3, <2>4, <2>5, NoHoleExtends
  <1>6. NoHoleIn(View(s), timeline \cup draft[s].timeline)'
    BY <1>3, <1>5
  <1>7. ProjectionIsSound'
    BY <1>4, <1>6 DEF TimelineInv, ProjectionIsSound
  <1>8. QED BY <1>2, <1>7

(***************************************************************************)
(* Every step keeps the timeline without a hole.                           *)
(***************************************************************************)
LEMMA TimelineStep ==
    ASSUME TimelineInv, [Next]_vars
    PROVE  TimelineInv'
  <1>0. LogInv /\ TypeOK /\ LogInv'
    BY LogStep DEF TimelineInv, LogInv
  <1>a. ASSUME NEW s \in Sessions, Rollback(s) PROVE TimelineInv'
    <2>1. EndSession(s) /\ UNCHANGED <<log, timeline>>
      BY <1>a DEF Rollback, committed
    <2>2. draft'[s] = NoDraft /\ \A t \in Sessions \ {s} : draft'[t] = draft[t]
      BY <1>0, <2>1, EndFacts
    <2>3. View(s)' = log /\ (timeline \cup draft[s].timeline)' = timeline
      BY <2>1, <2>2 DEF View, NoDraft
    <2>4. \A t \in Sessions \ {s} : View(t)' = View(t) /\ draft'[t].timeline = draft[t].timeline
      BY <2>1, <2>2 DEF View
    <2>5. NoHoleIn(View(s), timeline \cup draft[s].timeline)'
      BY <2>3 DEF TimelineInv, TimelineHasNoHole
    <2>6. QED BY <1>0, <2>1, <2>4, <2>5 DEF TimelineInv, TimelineHasNoHole, ProjectionIsSound
  <1>b. ASSUME UNCHANGED <<log, timeline, draft>> PROVE TimelineInv'
    <2>1. \A t \in Sessions : View(t)' = View(t)
      BY <1>b DEF View
    <2>2. QED BY <1>0, <1>b, <2>1 DEF TimelineInv, TimelineHasNoHole, ProjectionIsSound
  <1>1. ASSUME NEW s \in Sessions,
               \/ Read(s) \/ ReadLocked(s)
               \/ \E k \in Keys : LookupKey(s, k)
        PROVE  TimelineInv'
    BY <1>1, <1>b DEF Read, ReadLocked, LookupKey, committed
  <1>2. ASSUME NEW s \in Sessions, NEW k \in Requests, Replay(s, k) PROVE TimelineInv'
    BY <1>a, <1>2, <1>b DEF Replay, committed
  <1>3. ASSUME NEW s \in Sessions, NEW target \in IncidentStatus, NEW actor \in ActorType,
               Transition(s, target, actor)
        PROVE  TimelineInv'
    <2>1. CASE ~VersionMatches(s)
      BY <1>a, <1>3, <2>1 DEF Transition
    <2>2. CASE VersionMatches(s)
      <3> DEFINE e == EventOf(s, "state_changed", snap[s].status, target, NoKey)
                 row == [status |-> target, version |-> Current(s).version + 1]
      <3>1. snap[s].status \in IncidentStatus
        BY <1>0 DEF TypeOK, Row
      <3>2. e \in Event /\ e.sequence = Current(s).highWater + 1
        BY <1>0, <3>1, EventOfType DEF EventKind
      <3>3. /\ row.status \in IncidentStatus /\ row.version \in Nat
            /\ Write(s, row, e) /\ UNCHANGED <<log, timeline>>
        BY <1>0, <1>3, <2>2, CurrentType DEF Transition, committed
      <3> HIDE DEF row, e
      <3>4. QED BY <1>0, <3>2, <3>3, WriteLeavesNoHole DEF TimelineInv
    <2>3. QED BY <2>1, <2>2
  <1>4. ASSUME NEW s \in Sessions, ChangeSeverity(s) PROVE TimelineInv'
    <2>1. CASE ~VersionMatches(s)
      BY <1>a, <1>4, <2>1 DEF ChangeSeverity
    <2>2. CASE VersionMatches(s)
      <3> DEFINE e == EventOf(s, "severity_changed", Current(s).status, Current(s).status, NoKey)
                 row == [status |-> Current(s).status, version |-> Current(s).version + 1]
      <3>1. e \in Event /\ e.sequence = Current(s).highWater + 1
        BY <1>0, CurrentType, EventOfType DEF EventKind
      <3>2. /\ row.status \in IncidentStatus /\ row.version \in Nat
            /\ Write(s, row, e) /\ UNCHANGED <<log, timeline>>
        BY <1>0, <1>4, <2>2, CurrentType DEF ChangeSeverity, committed
      <3> HIDE DEF row, e
      <3>3. QED BY <1>0, <3>1, <3>2, WriteLeavesNoHole DEF TimelineInv
    <2>3. QED BY <2>1, <2>2
  <1>5. ASSUME NEW s \in Sessions, InsertKeyed(s) \/ InsertUnkeyed(s) PROVE TimelineInv'
    <2>1. CASE Rollback(s)
      BY <1>a, <2>1
    <2>2. CASE ~Rollback(s)
      <3>1. PICK kind \in {"annotated", "suppressed"}, k \in Keys \cup {NoKey} :
               Write(s, Current(s), EventOf(s, kind, Current(s).status, Current(s).status, k))
        <4>1. key[s] \in Keys \cup {NoKey}
          BY <1>0 DEF TypeOK
        <4>2. QED BY <1>5, <2>2, <4>1 DEF InsertKeyed, InsertUnkeyed
      <3> DEFINE e == EventOf(s, kind, Current(s).status, Current(s).status, k)
      <3>2. Current(s).status \in IncidentStatus /\ Current(s).version \in Nat
        BY <1>0, CurrentType
      <3>3. e \in Event /\ e.sequence = Current(s).highWater + 1
        BY <1>0, <3>2, EventOfType DEF EventKind
      <3>4. Write(s, Current(s), e) /\ UNCHANGED <<log, timeline>>
        BY <1>5, <2>2, <3>1 DEF InsertKeyed, InsertUnkeyed, committed
      <3> HIDE DEF e
      <3>5. QED BY <1>0, <3>2, <3>3, <3>4, WriteLeavesNoHole DEF TimelineInv
    <2>3. QED BY <2>1, <2>2
  <1>6. ASSUME NEW s \in Sessions, Project(s) PROVE TimelineInv'
    <2>1. /\ UNCHANGED <<log, timeline>>
          /\ draft'[s].events = draft[s].events /\ draft'[s].timeline = Unprojected(s)
          /\ \A t \in Sessions \ {s} : draft'[t] = draft[t]
      BY <1>0, <1>6 DEF Project, TypeOK, Draft, committed
    <2>2. /\ View(s)' = View(s)
          /\ (timeline \cup draft[s].timeline)' = timeline \cup Unprojected(s)
      BY <2>1 DEF View
    <2>3. \A t \in Sessions \ {s} : View(t)' = View(t) /\ draft'[t].timeline = draft[t].timeline
      BY <2>1 DEF View
    <2>4. NoHoleIn(View(s), timeline \cup draft[s].timeline)'
      BY <2>2, ProjectFillsHoles
    <2>5. QED BY <1>0, <2>1, <2>3, <2>4 DEF TimelineInv, TimelineHasNoHole, ProjectionIsSound
  <1>7. ASSUME NEW s \in Sessions, Commit(s) PROVE TimelineInv'
    <2>1. /\ EndSession(s) /\ log' = View(s)
          /\ timeline' = timeline \cup draft[s].timeline
      BY <1>7 DEF Commit, View
    <2>2. draft'[s] = NoDraft /\ \A t \in Sessions \ {s} : draft'[t] = draft[t]
      BY <1>0, <2>1, EndFacts
    <2>3. TimelineHasNoHole'
      BY <2>1 DEF TimelineInv, TimelineHasNoHole, ProjectionIsSound
    <2>4. NoHoleIn(View(s), timeline \cup draft[s].timeline)'
      <3>1. View(s)' = log' /\ (timeline \cup draft[s].timeline)' = timeline'
        BY <2>2 DEF View, NoDraft
      <3>2. QED BY <2>3, <3>1 DEF TimelineHasNoHole
    <2>5. ASSUME NEW t \in Sessions \ {s}
          PROVE  NoHoleIn(View(t), timeline \cup draft[t].timeline)'
      <3>1. View(t)' = View(s) \cup draft[t].events
        BY <2>1, <2>2 DEF View
      <3>2. (timeline \cup draft[t].timeline)' =
              (timeline \cup draft[s].timeline) \cup (timeline \cup draft[t].timeline)
        BY <2>1, <2>2
      <3>3. draft[s].dirty => ~draft[t].dirty
        BY <1>0, OthersClean
      <3>4. NoHoleIn(View(s) \cup draft[t].events,
                     (timeline \cup draft[s].timeline) \cup (timeline \cup draft[t].timeline))
        BY <3>3, CommitLeavesNoHole
      <3>5. QED BY <3>1, <3>2, <3>4
    <2>6. QED BY <1>0, <2>3, <2>4, <2>5 DEF TimelineInv, ProjectionIsSound
  <1>8. ASSUME NEW s \in Sessions, ProjectionRefused(s) \/ Abort(s) PROVE TimelineInv'
    BY <1>a, <1>8 DEF ProjectionRefused, Abort
  <1>9. CASE UNCHANGED vars
    BY <1>9, <1>b DEF vars, committed
  <1>10. QED BY <1>1, <1>2, <1>3, <1>4, <1>5, <1>6, <1>7, <1>8, <1>9 DEF Next

(***************************************************************************)
(* A new incident shows nothing and has nothing to show.                   *)
(***************************************************************************)
LEMMA TimelineInit == Init => TimelineInv
  <1> SUFFICES ASSUME Init PROVE TimelineInv
    OBVIOUS
  <1>1. timeline = {} /\ \A s \in Sessions : draft[s].timeline = {}
    BY DEF Init, NoDraft
  <1>2. QED BY <1>1, LogInit DEF TimelineInv, TimelineHasNoHole, ProjectionIsSound, NoHoleIn

(***************************************************************************)
(* The timeline cites committed events only and never skips a visible one  *)
(* (project_timeline), however many sessions project at once.              *)
(***************************************************************************)
THEOREM TimelineHasNoHoleHolds == Spec => []TimelineHasNoHole
  <1>1. TimelineInv => TimelineHasNoHole
    BY DEF TimelineInv
  <1>2. QED BY <1>1, TimelineInit, TimelineStep, PTL DEF Spec

-----------------------------------------------------------------------------
(* Requests.                                                               *)

RequestInv ==
    /\ LogInv
    /\ RequestAppliedOnce
    /\ RequestHeld
    /\ KeyIsNew

(***************************************************************************)
(* An event whose request and key are new keeps both used once.            *)
(***************************************************************************)
LEMMA AppendKeepsOnce ==
    ASSUME NEW events, NEW e, OnceIn(events),
           e.request # NoKey => \A f \in events : f.request # e.request,
           e.key # NoKey => \A f \in events : f.key # e.key
    PROVE  OnceIn(events \cup {e})
  BY DEF OnceIn

(***************************************************************************)
(* A drafted event keeps the requests: the session's request has no event  *)
(* yet, in the log or in the draft.                                        *)
(***************************************************************************)
LEMMA WriteKeepsRequests ==
    ASSUME RequestInv, NEW s \in Sessions, NEW row, NEW e \in Event,
           row.status \in IncidentStatus, row.version \in Nat,
           Write(s, row, e), Goto(s, "written"),
           UNCHANGED <<log, remembered, keyLock, request>>,
           \A t \in Sessions \ {s} : key'[t] = key[t],
           e.request = request[s],
           request[s] # NoKey => draft[s].events = {},
           e.key # NoKey => \A f \in View(s) : f.key # e.key
    PROVE  RequestAppliedOnce' /\ RequestHeld' /\ KeyIsNew'
  <1>0. LogInv /\ TypeOK
    BY DEF RequestInv, LogInv
  <1>1. /\ draft'[s].events = draft[s].events \cup {e}
        /\ \A t \in Sessions \ {s} : draft'[t] = draft[t]
    <2>1. /\ draft'[s] = [dirty |-> TRUE, status |-> row.status, version |-> row.version,
                         highWater |-> e.sequence, events |-> draft[s].events \cup {e},
                         timeline |-> draft[s].timeline]
          /\ \A t \in Sessions \ {s} : draft'[t] = draft[t]
      BY <1>0, WriteType
    <2>2. QED BY <2>1
  <1>2. pc'[s] = "written" /\ \A t \in Sessions \ {s} : pc'[t] = pc[t]
    BY <1>0 DEF Goto, TypeOK
  <1>3. RequestAppliedOnce'
    BY DEF RequestInv, RequestAppliedOnce
  <1>4. RequestHeld'
    BY <1>1, <1>2 DEF RequestInv, RequestHeld
  <1>5. OnceIn(View(s) \cup {e})
    <2>1. e.request # NoKey => \A f \in View(s) : f.request # e.request
      BY DEF RequestInv, RequestHeld, View
    <2>2. QED BY <2>1, AppendKeepsOnce DEF RequestInv, KeyIsNew
  <1>6. View(s)' = View(s) \cup {e} /\ \A t \in Sessions \ {s} : View(t)' = View(t)
    BY <1>1 DEF View
  <1>7. OnceIn(View(s))'
    BY <1>5, <1>6
  <1>8. KeyIsNew'
    BY <1>1, <1>2, <1>6, <1>7 DEF RequestInv, KeyIsNew
  <1>9. QED BY <1>3, <1>4, <1>8

(***************************************************************************)
(* Between its lookup and its insert a request's session has drafted       *)
(* nothing.                                                                *)
(***************************************************************************)
LEMMA WriterHasNoDraft ==
    ASSUME RequestInv, NEW s \in Sessions, MayWrite(s) \/ pc[s] = "keyed"
    PROVE  request[s] # NoKey => draft[s].events = {}
  BY DEF RequestInv, LogInv, DraftUnderLock, RequestHeld, MayWrite

(***************************************************************************)
(* Every step keeps requests and keys used once.                           *)
(***************************************************************************)
LEMMA RequestStep ==
    ASSUME RequestInv, [Next]_vars
    PROVE  RequestInv'
  <1>0. LogInv /\ TypeOK /\ LogInv'
    BY LogStep DEF RequestInv, LogInv
  <1>a. ASSUME NEW s \in Sessions, Rollback(s) PROVE RequestInv'
    <2>1. EndSession(s) /\ UNCHANGED <<log, remembered>>
      BY <1>a DEF Rollback, committed
    <2>2. /\ pc'[s] = "idle" /\ draft'[s] = NoDraft /\ request'[s] = NoKey
          /\ \A t \in Sessions \ {s} :
                pc'[t] = pc[t] /\ draft'[t] = draft[t] /\ request'[t] = request[t] /\ key'[t] = key[t]
      BY <1>0, <2>1, EndFacts
    <2>3. \A t \in Sessions \ {s}, k \in Requests : keyLock[k] = t => keyLock'[k] = t
      BY <2>1 DEF EndSession
    <2>4. RequestHeld'
      BY <1>0, <2>1, <2>2, <2>3 DEF RequestInv, RequestHeld, NoDraft, TypeOK
    <2>5. View(s)' = log /\ \A t \in Sessions \ {s} : View(t)' = View(t)
      BY <2>1, <2>2 DEF View, NoDraft
    <2>6. OnceIn(View(s))'
      BY <2>5 DEF RequestInv, RequestAppliedOnce
    <2>7. KeyIsNew'
      BY <2>2, <2>5, <2>6 DEF RequestInv, KeyIsNew
    <2>8. QED BY <1>0, <2>1, <2>4, <2>7 DEF RequestInv, RequestAppliedOnce
  <1>1. ASSUME NEW s \in Sessions, Read(s) \/ ReadLocked(s) PROVE RequestInv'
    <2>1. /\ UNCHANGED <<log, remembered, keyLock, request, key, draft>>
          /\ pc[s] = "idle" /\ pc'[s] = "read"
          /\ \A t \in Sessions \ {s} : pc'[t] = pc[t]
      BY <1>0, <1>1 DEF Read, ReadLocked, Goto, TypeOK, committed
    <2>2. draft[s].events = {}
      BY <1>0, <2>1 DEF LogInv, DraftUnderLock
    <2>3. RequestHeld'
      BY <2>1, <2>2 DEF RequestInv, RequestHeld
    <2>4. \A t \in Sessions : View(t)' = View(t)
      BY <2>1 DEF View
    <2>5. KeyIsNew'
      BY <2>1, <2>4 DEF RequestInv, KeyIsNew
    <2>6. QED BY <1>0, <2>1, <2>3, <2>5 DEF RequestInv, RequestAppliedOnce
  <1>2. ASSUME NEW s \in Sessions, NEW k \in Requests, Replay(s, k) PROVE RequestInv'
    <2>1. CASE k \in remembered
      BY <1>a, <1>2, <2>1 DEF Replay
    <2>2. CASE k \notin remembered
      <3>1. /\ UNCHANGED <<log, remembered, pc, key, draft>>
            /\ pc[s] = "read" /\ keyLock[k] = Nobody
            /\ request'[s] = k /\ keyLock'[k] = s
            /\ \A t \in Sessions \ {s} : request'[t] = request[t]
            /\ \A j \in Requests \ {k} : keyLock'[j] = keyLock[j]
        BY <1>0, <1>2, <2>2 DEF Replay, TypeOK, committed
      <3>2. draft[s].events = {}
        BY <1>0, <3>1 DEF LogInv, DraftUnderLock
      <3>3. RequestHeld'
        BY <1>0, <2>2, <3>1, <3>2, LogAssumption DEF RequestInv, RequestHeld, TypeOK
      <3>4. \A t \in Sessions : View(t)' = View(t)
        BY <3>1 DEF View
      <3>5. KeyIsNew'
        BY <3>1, <3>4 DEF RequestInv, KeyIsNew
      <3>6. QED BY <1>0, <3>1, <3>3, <3>5 DEF RequestInv, RequestAppliedOnce
    <2>3. QED BY <2>1, <2>2
  <1>3. ASSUME NEW s \in Sessions, NEW target \in IncidentStatus, NEW actor \in ActorType,
               Transition(s, target, actor)
        PROVE  RequestInv'
    <2>1. CASE ~VersionMatches(s)
      BY <1>a, <1>3, <2>1 DEF Transition
    <2>2. CASE VersionMatches(s)
      <3> DEFINE e == EventOf(s, "state_changed", snap[s].status, target, NoKey)
                 row == [status |-> target, version |-> Current(s).version + 1]
      <3>1. snap[s].status \in IncidentStatus
        BY <1>0 DEF TypeOK, Row
      <3>2. e \in Event /\ e.key = NoKey /\ e.request = request[s]
        BY <1>0, <3>1, EventOfType DEF EventKind
      <3>3. /\ row.status \in IncidentStatus /\ row.version \in Nat
            /\ Write(s, row, e) /\ Goto(s, "written") /\ MayWrite(s)
            /\ UNCHANGED <<log, remembered, keyLock, request, key>>
        BY <1>0, <1>3, <2>2, CurrentType DEF Transition, committed
      <3> HIDE DEF row, e
      <3>4. QED BY <1>0, <3>2, <3>3, WriterHasNoDraft, WriteKeepsRequests DEF RequestInv
    <2>3. QED BY <2>1, <2>2
  <1>4. ASSUME NEW s \in Sessions, ChangeSeverity(s) PROVE RequestInv'
    <2>1. CASE ~VersionMatches(s)
      BY <1>a, <1>4, <2>1 DEF ChangeSeverity
    <2>2. CASE VersionMatches(s)
      <3> DEFINE e == EventOf(s, "severity_changed", Current(s).status, Current(s).status, NoKey)
                 row == [status |-> Current(s).status, version |-> Current(s).version + 1]
      <3>1. e \in Event /\ e.key = NoKey /\ e.request = request[s]
        BY <1>0, CurrentType, EventOfType DEF EventKind
      <3>2. /\ row.status \in IncidentStatus /\ row.version \in Nat
            /\ Write(s, row, e) /\ Goto(s, "written") /\ MayWrite(s)
            /\ UNCHANGED <<log, remembered, keyLock, request, key>>
        BY <1>0, <1>4, <2>2, CurrentType DEF ChangeSeverity, committed
      <3> HIDE DEF row, e
      <3>3. QED BY <1>0, <3>1, <3>2, WriterHasNoDraft, WriteKeepsRequests DEF RequestInv
    <2>3. QED BY <2>1, <2>2
  <1>5. ASSUME NEW s \in Sessions, NEW k \in Keys, LookupKey(s, k) PROVE RequestInv'
    <2>1. /\ UNCHANGED <<log, remembered, keyLock, request, draft>>
          /\ MayWrite(s) /\ pc'[s] = "keyed" /\ key'[s] = k
          /\ \A e \in draft[s].events : e.key # k
          /\ \A t \in Sessions \ {s} : pc'[t] = pc[t] /\ key'[t] = key[t]
      BY <1>0, <1>5 DEF LookupKey, Goto, TypeOK, committed
    <2>2. request[s] # NoKey => draft[s].events = {}
      BY <2>1, WriterHasNoDraft
    <2>3. RequestHeld'
      BY <2>1, <2>2 DEF RequestInv, RequestHeld
    <2>4. \A t \in Sessions : View(t)' = View(t)
      BY <2>1 DEF View
    <2>5. KeyIsNew'
      BY <2>1, <2>4 DEF RequestInv, KeyIsNew
    <2>6. QED BY <1>0, <2>1, <2>3, <2>5 DEF RequestInv, RequestAppliedOnce
  <1>6. ASSUME NEW s \in Sessions, InsertKeyed(s) PROVE RequestInv'
    <2>1. CASE \E e \in log : e.key = key[s] \/ e.sequence = NextSequence(s)
      BY <1>a, <1>6, <2>1 DEF InsertKeyed
    <2>2. CASE ~\E e \in log : e.key = key[s] \/ e.sequence = NextSequence(s)
      <3> DEFINE e == EventOf(s, "annotated", Current(s).status, Current(s).status, key[s])
      <3>1. key[s] \in Keys \cup {NoKey}
        BY <1>0 DEF TypeOK
      <3>2. e \in Event /\ e.key = key[s] /\ e.request = request[s]
        BY <1>0, <3>1, CurrentType, EventOfType DEF EventKind
      <3>3. /\ Write(s, Current(s), e) /\ Goto(s, "written") /\ pc[s] = "keyed"
            /\ UNCHANGED <<log, remembered, keyLock, request>>
            /\ \A t \in Sessions \ {s} : key'[t] = key[t]
        BY <1>0, <1>6, <2>2 DEF InsertKeyed, TypeOK, committed
      <3>4. \A f \in View(s) : f.key # key[s]
        BY <2>2, <3>3 DEF View, RequestInv, KeyIsNew
      <3>5. Current(s).status \in IncidentStatus /\ Current(s).version \in Nat
        BY <1>0, CurrentType
      <3> HIDE DEF e
      <3>6. QED BY <1>0, <3>2, <3>3, <3>4, <3>5, WriterHasNoDraft, WriteKeepsRequests
                DEF RequestInv
    <2>3. QED BY <2>1, <2>2
  <1>7. ASSUME NEW s \in Sessions, InsertUnkeyed(s) PROVE RequestInv'
    <2>1. CASE \E e \in log : e.sequence = NextSequence(s)
      BY <1>a, <1>7, <2>1 DEF InsertUnkeyed
    <2>2. CASE ~\E e \in log : e.sequence = NextSequence(s)
      <3> DEFINE e == EventOf(s, "suppressed", Current(s).status, Current(s).status, NoKey)
      <3>1. e \in Event /\ e.key = NoKey /\ e.request = request[s]
        BY <1>0, CurrentType, EventOfType DEF EventKind
      <3>2. /\ Write(s, Current(s), e) /\ Goto(s, "written") /\ MayWrite(s)
            /\ UNCHANGED <<log, remembered, keyLock, request, key>>
        BY <1>7, <2>2 DEF InsertUnkeyed, committed
      <3>3. Current(s).status \in IncidentStatus /\ Current(s).version \in Nat
        BY <1>0, CurrentType
      <3> HIDE DEF e
      <3>4. QED BY <1>0, <3>1, <3>2, <3>3, WriterHasNoDraft, WriteKeepsRequests DEF RequestInv
    <2>3. QED BY <2>1, <2>2
  <1>8. ASSUME NEW s \in Sessions, Project(s) PROVE RequestInv'
    <2>1. /\ UNCHANGED <<log, remembered, keyLock, request, key>>
          /\ pc'[s] = "written"
          /\ \A t \in Sessions \ {s} : pc'[t] = pc[t]
          /\ \A t \in Sessions : draft'[t].events = draft[t].events
      BY <1>0, <1>8 DEF Project, Goto, TypeOK, Draft, committed
    <2>2. RequestHeld'
      BY <2>1 DEF RequestInv, RequestHeld
    <2>3. \A t \in Sessions : View(t)' = View(t)
      BY <2>1 DEF View
    <2>4. KeyIsNew'
      BY <2>1, <2>3 DEF RequestInv, KeyIsNew
    <2>5. QED BY <1>0, <2>1, <2>2, <2>4 DEF RequestInv, RequestAppliedOnce
  <1>9. ASSUME NEW s \in Sessions, Commit(s) PROVE RequestInv'
    <2>1. /\ EndSession(s) /\ log' = View(s)
          /\ remembered' = remembered \cup ({request[s]} \ {NoKey})
      BY <1>9 DEF Commit, View, Remember
    <2>2. /\ pc'[s] = "idle" /\ draft'[s] = NoDraft /\ request'[s] = NoKey
          /\ \A t \in Sessions \ {s} :
                pc'[t] = pc[t] /\ draft'[t] = draft[t] /\ request'[t] = request[t] /\ key'[t] = key[t]
      BY <1>0, <2>1, EndFacts
    <2>3. \A t \in Sessions \ {s}, k \in Requests : keyLock[k] = t => keyLock'[k] = t
      BY <2>1 DEF EndSession
    <2>4. RequestHeld'
      <3>1. ASSUME NEW t \in Sessions, request'[t] # NoKey
            PROVE  /\ keyLock'[request'[t]] = t /\ request'[t] \notin remembered'
                   /\ pc'[t] \in {"read", "keyed"} => draft'[t].events = {}
        <4>1. t # s /\ request'[t] = request[t] /\ request[t] \in Requests
          BY <1>0, <2>2, <3>1 DEF TypeOK
        <4>2. keyLock[request[t]] = t /\ request[t] \notin remembered
          BY <3>1, <4>1 DEF RequestInv, RequestHeld
        <4>3. request[t] # request[s]
          BY <3>1, <4>1, <4>2 DEF RequestInv, RequestHeld
        <4>4. QED BY <2>1, <2>2, <2>3, <3>1, <4>1, <4>2, <4>3 DEF RequestInv, RequestHeld
      <3>2. \A e \in log' : e.request # NoKey => e.request \in remembered'
        BY <2>1 DEF RequestInv, RequestHeld, View
      <3>3. \A t \in Sessions : \A e \in draft'[t].events : e.request = request'[t]
        BY <2>2 DEF RequestInv, RequestHeld, NoDraft
      <3>4. QED BY <3>1, <3>2, <3>3 DEF RequestHeld
    <2>5. RequestAppliedOnce'
      BY <2>1 DEF RequestInv, RequestAppliedOnce, KeyIsNew
    <2>6. ASSUME NEW t \in Sessions PROVE OnceIn(View(t))'
      <3>1. CASE t = s
        <4>1. View(s)' = log'
          BY <2>2 DEF View, NoDraft
        <4>2. QED BY <2>5, <3>1, <4>1 DEF RequestAppliedOnce
      <3>2. CASE t # s
        <4>1. draft'[t].events = draft[t].events
          BY <2>2, <3>2
        <4>2. draft[s].events = {} \/ draft[t].events = {}
          BY <1>0, <3>2, OthersClean DEF LogInv, DraftUnderLock
        <4>3. View(t)' = View(s) \/ View(t)' = View(t)
          BY <2>1, <4>1, <4>2 DEF View
        <4>4. QED BY <4>3 DEF RequestInv, KeyIsNew
      <3>3. QED BY <3>1, <3>2
    <2>7. KeyIsNew'
      BY <2>2, <2>6 DEF RequestInv, KeyIsNew
    <2>8. QED BY <1>0, <2>4, <2>5, <2>7 DEF RequestInv
  <1>10. ASSUME NEW s \in Sessions, ProjectionRefused(s) \/ Abort(s) PROVE RequestInv'
    BY <1>a, <1>10 DEF ProjectionRefused, Abort
  <1>11. CASE UNCHANGED vars
    <2>1. UNCHANGED <<log, remembered, keyLock, request, key, draft, pc>>
      BY <1>11 DEF vars, committed
    <2>2. \A t \in Sessions : View(t)' = View(t)
      BY <2>1 DEF View
    <2>3. QED BY <1>0, <2>1, <2>2 DEF RequestInv, RequestAppliedOnce, RequestHeld, KeyIsNew
  <1>12. QED BY <1>1, <1>2, <1>3, <1>4, <1>5, <1>6, <1>7, <1>8, <1>9, <1>10, <1>11 DEF Next

(***************************************************************************)
(* A new incident has served no request.                                   *)
(***************************************************************************)
LEMMA RequestInit == Init => RequestInv
  <1> SUFFICES ASSUME Init PROVE RequestInv
    OBVIOUS
  <1>1. /\ log = {}
        /\ \A s \in Sessions : request[s] = NoKey /\ draft[s].events = {} /\ pc[s] = "idle"
    BY DEF Init, NoDraft
  <1>2. QED BY <1>1, LogInit DEF RequestInv, RequestAppliedOnce, RequestHeld, KeyIsNew, OnceIn, View

(***************************************************************************)
(* A request delivered twice, even concurrently, leaves one event, and an  *)
(* event key is used once (_replay, _remember, append_incident_event).     *)
(***************************************************************************)
THEOREM RequestAppliedOnceHolds == Spec => []RequestAppliedOnce
  <1>1. RequestInv => RequestAppliedOnce
    BY DEF RequestInv
  <1>2. QED BY <1>1, RequestInit, RequestStep, PTL DEF Spec
=============================================================================
