------------------------- MODULE ToolBroker_proofs -------------------------
(***************************************************************************)
(* What the broker promises of an effect, for any callers, events,         *)
(* catalogue and bounds.  The argument is about claims: a thread runs      *)
(* under a claim nobody else holds, so while its request is unsettled the  *)
(* effect is not there, and once it is there no thread can add to it.      *)
(***************************************************************************)
EXTENDS ToolBroker, TLAPS

Inv ==
    /\ AtTheBroker /\ ClaimDiscipline /\ EffectMatchesThread /\ CleanIsOver
    /\ GoesForward /\ AppliedOnce /\ RecordIsTrue /\ RevokedIsNotUsed

USE DEF Callers

---------------------------------------------------------------------------
\* An agenda asks for each capability once.
LEMMA AgendaIsDistinct ==
    ASSUME NEW c \in Callers, NEW i \in 1 .. Len(Agenda(c)), NEW j \in 1 .. Len(Agenda(c)),
           Agenda(c)[i] = Agenda(c)[j]
    PROVE  i = j
BY DEF Agenda, _CAPABILITY_ORDER

\* An agenda is finite.
LEMMA AgendaLength == ASSUME NEW c \in Callers PROVE Len(Agenda(c)) \in Nat
BY DEF Agenda, _CAPABILITY_ORDER

\* A key names its capability and its event.
LEMMA KeyIsInjective ==
    ASSUME NEW c \in Callers, NEW d \in Callers, NEW t, NEW u,
           tool_execution_key(c, t) = tool_execution_key(d, u)
    PROVE  t = u /\ EventOf[c] = EventOf[d]
BY DEF tool_execution_key

\* The key of a write is one of the keys claims are made under.
LEMMA KeyIsKey ==
    ASSUME NEW c \in Callers, NEW t \in Catalogue
    PROVE  tool_execution_key(c, t) \in Keys
BY DEF Keys

\* What the menu holds is granted, so it is in the catalogue.
LEMMA ResolveIsGranted ==
    ASSUME NEW c \in Callers, TypeOK
    PROVE  resolve(c) \subseteq Catalogue
BY DEF resolve, TypeOK

\* An authorised request is granted, bound and described.
LEMMA AuthorisedStands ==
    ASSUME NEW c \in Callers, NEW t, TypeOK, t \in resolve(c), assert_matches_database(c)
    PROVE  t \in grants /\ tools[t] = "described"
<1>1. t \in grants /\ t \in capabilities(RegistryOf(c)) /\ tools[t] # "disabled"
  BY DEF resolve
<1>2. t \in Catalogue
  BY <1>1 DEF TypeOK
<1>3. tools[t] # "differs"
  BY <1>1, <1>2 DEF assert_matches_database, _compare
<1>4. tools[t] \in {"described", "disabled", "differs"}
  BY <1>2 DEF TypeOK
<1>5. QED
  BY <1>1, <1>3, <1>4

\* The record of one more execution.
LEMMA ExecsGrow ==
    ASSUME NEW k, NEW outcome, execs' = WithOutcome(k, outcome)
    PROVE  /\ DOMAIN execs' = DOMAIN execs \cup {k}
           /\ execs'[k] = outcome
           /\ \A l \in DOMAIN execs' : l # k => l \in DOMAIN execs /\ execs'[l] = execs[l]
BY DEF WithOutcome

---------------------------------------------------------------------------
\* Initially nothing has been asked for.
LEMMA InitHolds == Init => TypeOK /\ Inv
<1> SUFFICES ASSUME Init PROVE TypeOK /\ Inv
  OBVIOUS
<1>1. DOMAIN execs = {}
  BY DEF Init
<1>2. \A c \in Callers, t \in Catalogue :
         thread[c][t].phase = "none" /\ thread[c][t].result = "none"
  BY DEF Init, NoThread
<1>3. \A c \in Callers : call[c].pc = "start" /\ call[c].at = 1
  BY DEF Init
<1>4. TypeOK
  <2>1. call \in [Callers -> Invocation]
    BY DEF Init, Invocation
  <2>2. thread \in [Callers -> [Catalogue -> AdapterThread]]
    BY DEF Init, AdapterThread, NoThread
  <2>3. QED
    BY <1>1, <2>1, <2>2 DEF Init, TypeOK
<1>5. AtTheBroker
  BY <1>3 DEF AtTheBroker
<1>6. ClaimDiscipline
  BY <1>2 DEF ClaimDiscipline
<1>7. EffectMatchesThread
  BY <1>2 DEF EffectMatchesThread, Init, Unsettled, Running
<1>8. CleanIsOver
  BY <1>2 DEF CleanIsOver
<1>9. GoesForward
  <2>1. Catalogue \subseteq Catalogue /\ refusedAt = {}
    BY ScopeAssumption DEF Init
  <2>2. QED
    BY <1>2, <2>1, Zenon DEF GoesForward
<1>10. AppliedOnce /\ RecordIsTrue /\ RevokedIsNotUsed
  BY <1>1 DEF AppliedOnce, RecordIsTrue, RevokedIsNotUsed, Init
<1>11. QED
  BY <1>4, <1>5, <1>6, <1>7, <1>8, <1>9, <1>10 DEF Inv

---------------------------------------------------------------------------
\* Only the thread of one caller for one capability changes.
Moves(c, t) ==
    /\ thread' \in [Callers -> [Catalogue -> AdapterThread]]
    /\ \A d \in Callers, u \in Catalogue :
           d # c \/ u # t => thread'[d][u] = thread[d][u]

\* An adapter thread that answers moves one thread and no other.
LEMMA AnswersMoves ==
    ASSUME TypeOK, NEW c \in Callers, NEW t \in Catalogue,
           NEW phase \in Unsettled \cup {"none", "applied", "end"},
           NEW result \in {"none", "ok", "not_applied", "unknown"},
           Answers(c, t, phase, result)
    PROVE  Moves(c, t) /\ thread'[c][t].phase = phase /\ thread'[c][t].result = result
<1>1. thread \in [Callers -> [Catalogue -> AdapterThread]]
  BY DEF TypeOK
<1>2. thread[c][t] \in AdapterThread
  BY <1>1
<1> DEFINE r == [thread[c][t] EXCEPT !.phase = phase, !.result = result]
<1>3. r \in AdapterThread /\ r.phase = phase /\ r.result = result
  BY <1>2 DEF AdapterThread
<1>4. thread' = [thread EXCEPT ![c] = [thread[c] EXCEPT ![t] = r]]
  BY <1>1, <1>2 DEF Answers, AdapterThread
<1> HIDE DEF r
<1>5. QED
  BY <1>1, <1>3, <1>4 DEF Moves

\* An adapter thread that goes on moves one thread and keeps its result.
LEMMA BecomesMoves ==
    ASSUME TypeOK, NEW c \in Callers, NEW t \in Catalogue,
           NEW phase \in Unsettled \cup {"none", "applied", "end"},
           Becomes(c, t, phase)
    PROVE  /\ Moves(c, t)
           /\ thread'[c][t].phase = phase
           /\ thread'[c][t].result = thread[c][t].result
<1>1. thread \in [Callers -> [Catalogue -> AdapterThread]]
  BY DEF TypeOK
<1>2. thread[c][t] \in AdapterThread
  BY <1>1
<1> DEFINE r == [thread[c][t] EXCEPT !.phase = phase]
<1>3. r \in AdapterThread /\ r.phase = phase /\ r.result = thread[c][t].result
  BY <1>2 DEF AdapterThread
<1>4. thread' = [thread EXCEPT ![c] = [thread[c] EXCEPT ![t] = r]]
  BY <1>1, <1>2 DEF Becomes, AdapterThread
<1> HIDE DEF r
<1>5. QED
  BY <1>1, <1>3, <1>4 DEF Moves

\* A step of a thread that is running, sent or applied, and that changes nothing
\* else, preserves everything if it goes back to no earlier stage and answers
\* only what it knows.
LEMMA ThreadStep ==
    ASSUME TypeOK, Inv, NEW c \in Callers, NEW t \in Catalogue, Moves(c, t),
           UNCHANGED <<callers, world, admin>>, faults' \in Nat,
           thread[c][t].phase \in Unsettled \cup {"applied"},
           thread'[c][t].phase # "none",
           thread'[c][t].phase \in Unsettled => thread[c][t].phase \in Unsettled,
           thread'[c][t].phase = "applied" => thread[c][t].phase = "applied",
           thread'[c][t].result = "not_applied" =>
               thread'[c][t].phase = "end" /\ thread[c][t].phase \in Unsettled,
           thread'[c][t].result = "ok" =>
               /\ thread'[c][t].phase = "end"
               /\ \/ thread[c][t].phase = "applied"
                  \/ (t = "write.jira_issue" /\ issues > 0)
                  \/ (t = "mutate.k8s_deployment" /\ EventOf[c] \in served)
    PROVE  TypeOK' /\ Inv'
<1>0. t \in Catalogue /\ thread[c][t].phase # "none"
  BY ScopeAssumption DEF Unsettled, Running
<1>1. UNCHANGED <<call, claims, execs, refusedAt, posted, issues, rollout, serving, served,
                  grants, bindings, tools, revocations, deploys>>
  BY DEF callers, world, admin
<1>2. \A d \in Callers, u \in Catalogue :
         (thread'[d][u].phase = "none") = (thread[d][u].phase = "none")
  BY <1>0 DEF Moves
<1>3. TypeOK'
  BY <1>1 DEF TypeOK, Moves
<1>4. AtTheBroker'
  <2>1. \A d \in Callers : Asked(d)' = Asked(d)
    BY <1>1 DEF Asked
  <2>2. QED
    BY <1>1, <1>2, <2>1, ScopeAssumption DEF Inv, AtTheBroker
<1>5. ClaimDiscipline'
  BY <1>1, <1>2 DEF Inv, ClaimDiscipline
<1>6. EffectMatchesThread'
  <2> SUFFICES ASSUME NEW d \in Callers, NEW u \in Catalogue
               PROVE  LET k == tool_execution_key(d, u)
                          th == thread'[d][u]
                      IN  /\ th.phase \in Unsettled => posted[k] = 0
                          /\ th.phase = "applied" => posted[k] = 1
                          /\ th.phase = "none" => th.result = "none"
                          /\ th.result = "not_applied" => th.phase = "end" /\ posted[k] = 0
                          /\ th.result = "ok" =>
                                 /\ th.phase = "end"
                                 /\ \/ posted[k] = 1
                                    \/ u = "write.jira_issue" /\ issues > 0
                                    \/ (u = "mutate.k8s_deployment" /\ EventOf[d] \in served)
    BY <1>1 DEF Inv, EffectMatchesThread
  <2>1. CASE d = c /\ u = t
    BY <1>0, <2>1 DEF Inv, EffectMatchesThread
  <2>2. CASE d # c \/ u # t
    <3>1. thread'[d][u] = thread[d][u]
      BY <2>2 DEF Moves
    <3>2. QED
      BY <3>1 DEF Inv, EffectMatchesThread
  <2>3. QED
    BY <2>1, <2>2
<1>7. CleanIsOver'
  <2> SUFFICES ASSUME NEW d \in Callers, NEW u \in Catalogue,
                      tool_execution_key(d, u) \in DOMAIN execs,
                      execs[tool_execution_key(d, u)] = "failed_clean"
               PROVE  thread'[d][u].phase \in {"none", "end"}
    BY <1>1 DEF CleanIsOver
  <2>1. thread[d][u].phase \in {"none", "end"}
    BY DEF Inv, CleanIsOver
  <2>2. d # c \/ u # t
    BY <2>1 DEF Unsettled, Running
  <2>3. QED
    BY <2>1, <2>2 DEF Moves
<1>8. GoesForward'
  BY <1>1, <1>2, ScopeAssumption DEF Inv, GoesForward
<1>9. AppliedOnce'
  BY <1>1 DEF Inv, AppliedOnce
<1>10. RecordIsTrue'
  BY <1>1 DEF Inv, RecordIsTrue
<1>11. RevokedIsNotUsed'
  BY <1>1, <1>2, ScopeAssumption DEF Inv, RevokedIsNotUsed
<1>12. QED
  BY <1>3, <1>4, <1>5, <1>6, <1>7, <1>8, <1>9, <1>10, <1>11 DEF Inv

---------------------------------------------------------------------------
\* Each step of an adapter is such a step.
LEMMA AdapterStep ==
    ASSUME TypeOK, Inv, NEW c \in Callers, NEW t \in Catalogue, Adapter(c, t)
    PROVE  TypeOK' /\ Inv'
<1>0. t \in Catalogue /\ faults \in Nat /\ issues \in Nat
  BY ScopeAssumption DEF TypeOK
<1>1. thread[c][t] \in AdapterThread
  BY <1>0 DEF TypeOK
<1>2. thread[c][t].result \in {"not_applied", "ok"} => thread[c][t].phase = "end"
  BY <1>0 DEF Inv, EffectMatchesThread
<1> DEFINE before == thread[c][t]
<1>3. ASSUME FailsClean(c, t), UNCHANGED <<callers, world, admin>>, before.phase \in Unsettled
      PROVE  TypeOK' /\ Inv'
  <2>1. /\ Moves(c, t)
        /\ thread'[c][t].phase = "end"
        /\ thread'[c][t].result = "not_applied"
    BY <1>0, <1>3, AnswersMoves DEF FailsClean
  <2>2. faults' \in Nat
    BY <1>0, <1>3 DEF FailsClean, Fault
  <2>3. QED
    BY <1>3, <2>1, <2>2, ThreadStep DEF Unsettled, Running
<1>4. ASSUME NEW result \in {"ok", "not_applied"}, Answers(c, t, "end", result),
             faults' \in Nat, UNCHANGED <<callers, world, admin>>,
             before.phase \in Unsettled \cup {"applied"},
             result = "not_applied" => before.phase \in Unsettled,
             result = "ok" => \/ before.phase = "applied"
                              \/ (t = "write.jira_issue" /\ issues > 0)
                              \/ (t = "mutate.k8s_deployment" /\ EventOf[c] \in served)
      PROVE  TypeOK' /\ Inv'
  <2>1. /\ Moves(c, t)
        /\ thread'[c][t].phase = "end"
        /\ thread'[c][t].result = result
    BY <1>0, <1>4, AnswersMoves
  <2>2. QED
    BY <1>4, <2>1, ThreadStep DEF Unsettled, Running
<1>5. ASSUME NEW phase \in {"connect", "wire"}, Becomes(c, t, phase),
             faults' \in Nat, UNCHANGED <<callers, world, admin>>, before.phase \in Running
      PROVE  TypeOK' /\ Inv'
  <2>1. /\ Moves(c, t)
        /\ thread'[c][t].phase = phase
        /\ thread'[c][t].result = thread[c][t].result
    BY <1>0, <1>5, BecomesMoves DEF Unsettled, Running
  <2>2. thread'[c][t].result \notin {"ok", "not_applied"}
    BY <1>2, <1>5, <2>1 DEF Running
  <2>3. QED
    BY <1>5, <2>1, <2>2, ThreadStep DEF Unsettled, Running
<1>6. CASE _find(c, t)
  <2>1. CASE FailsClean(c, t)
    BY <1>3, <1>6, <2>1 DEF _find, Unsettled, Running
  <2>2. CASE UNCHANGED faults /\ Becomes(c, t, "connect")
    BY <1>0, <1>5, <1>6, <2>2 DEF _find, Running
  <2>3. CASE /\ UNCHANGED faults
             /\ issues # (IF t = "write.jira_issue" THEN 0 ELSE 1)
             /\ Answers(c, t, "end", IF issues = 1 THEN "ok" ELSE "not_applied")
    <3>1. CASE issues = 1
      BY <1>0, <1>4, <1>6, <2>3, <3>1 DEF _find, Unsettled, Running
    <3>2. CASE issues # 1
      BY <1>0, <1>4, <1>6, <2>3, <3>2 DEF _find, Unsettled, Running
    <3>3. QED
      BY <3>1, <3>2
  <2>4. QED
    BY <1>6, <2>1, <2>2, <2>3 DEF _find
<1>7. CASE deployment_rollback(c, t)
  <2>1. CASE FailsClean(c, t)
    BY <1>3, <1>7, <2>1 DEF deployment_rollback, Unsettled, Running
  <2>2. CASE UNCHANGED faults /\ Answers(c, t, "end", "ok") /\ serving = EventOf[c]
    <3>1. EventOf[c] \in served
      BY <2>2 DEF Inv, EffectMatchesThread
    <3>2. QED
      BY <1>0, <1>4, <1>7, <2>2, <3>1 DEF deployment_rollback, Unsettled, Running
  <2>3. CASE /\ UNCHANGED faults
             /\ thread' = [thread EXCEPT ![c][t].phase = "connect", ![c][t].seen = rollout]
    <3> DEFINE r == [thread[c][t] EXCEPT !.phase = "connect", !.seen = rollout]
    <3>1. thread \in [Callers -> [Catalogue -> AdapterThread]] /\ rollout \in Nat
      BY DEF TypeOK
    <3>2. r \in AdapterThread /\ r.phase = "connect" /\ r.result = before.result
      BY <1>1, <3>1 DEF AdapterThread, Unsettled, Running
    <3>3. thread' = [thread EXCEPT ![c] = [thread[c] EXCEPT ![t] = r]]
      BY <1>0, <1>1, <2>3, <3>1 DEF AdapterThread
    <3> HIDE DEF r
    <3>4. Moves(c, t) /\ thread'[c][t].phase = "connect" /\ thread'[c][t].result = before.result
      BY <1>0, <3>1, <3>2, <3>3 DEF Moves
    <3>5. before.phase = "look"
      BY <1>7 DEF deployment_rollback
    <3>6. QED
      BY <1>0, <1>2, <1>7, <2>3, <3>4, <3>5, ThreadStep
      DEF deployment_rollback, Unsettled, Running
  <2>4. QED
    BY <1>7, <2>1, <2>2, <2>3 DEF deployment_rollback
<1>8. CASE connect(c, t)
  <2>1. CASE FailsClean(c, t)
    BY <1>3, <1>8, <2>1 DEF connect, Unsettled, Running
  <2>2. CASE UNCHANGED faults /\ Becomes(c, t, "wire")
    BY <1>0, <1>5, <1>8, <2>2 DEF connect, Running
  <2>3. QED
    BY <1>8, <2>1, <2>2 DEF connect
<1>9. CASE raise_for_status(c, t)
  <2>1. faults' \in Nat
    BY <1>0, <1>9 DEF raise_for_status, Fault
  <2>2. CASE before.phase = "applied" /\ Answers(c, t, "end", "ok")
    BY <1>4, <1>9, <2>1, <2>2 DEF raise_for_status
  <2>3. CASE before.phase = "wire" /\ Answers(c, t, "end", "not_applied")
    BY <1>4, <1>9, <2>1, <2>3 DEF raise_for_status, Unsettled, Running
  <2>4. CASE Answers(c, t, before.phase, "unknown")
    <3>1. before.phase \in {"wire", "applied"}
      BY <1>9 DEF raise_for_status
    <3>2. before.phase \in Unsettled \cup {"none", "applied", "end"}
      BY <3>1 DEF Unsettled
    <3>3. Moves(c, t) /\ thread'[c][t].phase = before.phase /\ thread'[c][t].result = "unknown"
      BY <1>0, <2>4, <3>2, AnswersMoves
    <3>4. QED
      BY <1>9, <2>1, <3>1, <3>3, ThreadStep DEF raise_for_status, Unsettled, Running
  <2>5. QED
    BY <1>9, <2>2, <2>3, <2>4 DEF raise_for_status
<1>10. QED
  BY <1>6, <1>7, <1>8, <1>9 DEF Adapter

---------------------------------------------------------------------------
\* The vendor applies a request: its thread is the only one under its claim, so
\* the effect was not there and no other thread can apply it again.
LEMMA AppliesStep ==
    ASSUME TypeOK, Inv, NEW c \in Callers, NEW t \in Catalogue, applies(c, t)
    PROVE  TypeOK' /\ Inv'
<1> DEFINE key == tool_execution_key(c, t)
<1>0. t \in Catalogue /\ key \in Keys
  BY ScopeAssumption, KeyIsKey
<1>1. UNCHANGED <<call, claims, execs, refusedAt, grants, bindings, tools, revocations,
                  deploys, faults>>
  BY DEF applies, callers, admin
<1>2. /\ thread[c][t] \in AdapterThread /\ posted \in [Keys -> Nat]
      /\ issues \in Nat /\ rollout \in Nat
  BY <1>0 DEF TypeOK
<1>3. /\ thread[c][t].phase = "wire" /\ ~staleVersion(c, t)
      /\ posted' = [posted EXCEPT ![key] = @ + 1]
  BY DEF applies
<1>4. /\ Moves(c, t) /\ thread'[c][t].phase = "applied"
      /\ thread'[c][t].result = thread[c][t].result
  BY <1>0, BecomesMoves DEF applies
<1>5. posted[key] = 0 /\ thread[c][t].result \notin {"ok", "not_applied"} /\ key \in claims
  BY <1>0, <1>3 DEF Inv, EffectMatchesThread, ClaimDiscipline, Unsettled
<1>6. posted'[key] = 1 /\ \A k \in Keys : k # key => posted'[k] = posted[k]
  BY <1>0, <1>2, <1>3, <1>5
<1>7. /\ issues' \in Nat /\ issues' >= issues
      /\ served \subseteq served' /\ serving' \in served'
  BY <1>2 DEF applies, Inv, EffectMatchesThread
<1>8. \A d \in Callers, u \in Catalogue :
         (thread'[d][u].phase = "none") = (thread[d][u].phase = "none")
  BY <1>3, <1>4 DEF Moves
<1>9. \A d \in Callers, u \in Catalogue :
         (d # c \/ u # t) /\ tool_execution_key(d, u) = key => thread[d][u].phase = "none"
  <2> SUFFICES ASSUME NEW d \in Callers, NEW u \in Catalogue, d # c \/ u # t,
                      tool_execution_key(d, u) = key, thread[d][u].phase # "none"
               PROVE  FALSE
    OBVIOUS
  <2>1. u = t /\ EventOf[d] = EventOf[c]
    BY KeyIsInjective
  <2>2. QED
    BY <1>0, <1>3, <2>1 DEF Inv, ClaimDiscipline
<1>10. TypeOK'
  <2>1. posted' \in [Keys -> Nat]
    BY <1>0, <1>2, <1>3
  <2>2. rollout' \in Nat
    <3>1. thread[c][t].seen \in Nat
      BY <1>2 DEF AdapterThread
    <3>2. QED
      BY <1>2, <3>1 DEF applies, TypeOK
  <2>3. QED
    BY <1>1, <1>4, <1>7, <2>1, <2>2 DEF TypeOK, Moves
<1>11. AtTheBroker'
  <2>1. \A d \in Callers : Asked(d)' = Asked(d)
    BY <1>1 DEF Asked
  <2>2. QED
    BY <1>1, <1>8, <2>1, ScopeAssumption DEF Inv, AtTheBroker
<1>12. ClaimDiscipline'
  BY <1>1, <1>8 DEF Inv, ClaimDiscipline
<1>13. EffectMatchesThread'
  <2>1. \A k \in Keys \ claims' : posted'[k] = 0
    BY <1>1, <1>5, <1>6 DEF Inv, EffectMatchesThread
  <2>2. ASSUME NEW d \in Callers, NEW u \in Catalogue
        PROVE  LET k == tool_execution_key(d, u)
                   th == thread'[d][u]
               IN  /\ th.phase \in Unsettled => posted'[k] = 0
                   /\ th.phase = "applied" => posted'[k] = 1
                   /\ th.phase = "none" => th.result = "none"
                   /\ th.result = "not_applied" => th.phase = "end" /\ posted'[k] = 0
                   /\ th.result = "ok" =>
                          /\ th.phase = "end"
                          /\ \/ posted'[k] = 1
                             \/ u = "write.jira_issue" /\ issues' > 0
                             \/ (u = "mutate.k8s_deployment" /\ EventOf[d] \in served')
    <3>1. CASE d = c /\ u = t
      BY <1>4, <1>5, <1>6, <3>1 DEF Unsettled, Running
    <3>2. CASE d # c \/ u # t
      <4>1. thread'[d][u] = thread[d][u]
        BY <1>4, <3>2 DEF Moves
      <4>2. CASE tool_execution_key(d, u) = key
        <5>1. thread[d][u].phase = "none" /\ thread[d][u].result = "none"
          BY <1>9, <3>2, <4>2 DEF Inv, EffectMatchesThread
        <5>2. QED
          BY <4>1, <5>1 DEF Unsettled, Running
      <4>3. CASE tool_execution_key(d, u) # key
        <5>1. posted'[tool_execution_key(d, u)] = posted[tool_execution_key(d, u)]
          BY <1>6, <4>3, KeyIsKey
        <5>2. QED
          BY <1>2, <1>7, <4>1, <5>1 DEF Inv, EffectMatchesThread
      <4>4. QED
        BY <4>2, <4>3
    <3>3. QED
      BY <3>1, <3>2
  <2>3. QED
    BY <1>7, <2>1, <2>2 DEF EffectMatchesThread
<1>14. CleanIsOver'
  <2> SUFFICES ASSUME NEW d \in Callers, NEW u \in Catalogue,
                      tool_execution_key(d, u) \in DOMAIN execs,
                      execs[tool_execution_key(d, u)] = "failed_clean"
               PROVE  thread'[d][u].phase \in {"none", "end"}
    BY <1>1 DEF CleanIsOver
  <2>1. thread[d][u].phase \in {"none", "end"}
    BY DEF Inv, CleanIsOver
  <2>2. d # c \/ u # t
    BY <1>3, <2>1
  <2>3. QED
    BY <1>4, <2>1, <2>2 DEF Moves
<1>15. GoesForward'
  BY <1>1, <1>8, ScopeAssumption DEF Inv, GoesForward
<1>16. AppliedOnce'
  BY <1>6 DEF Inv, AppliedOnce
<1>17. RecordIsTrue'
  <2> SUFFICES ASSUME NEW k \in DOMAIN execs
               PROVE  /\ execs[k] = "failed_clean" => posted'[k] = 0
                      /\ execs[k] = "succeeded" =>
                             \/ posted'[k] = 1
                             \/ k[1] = "write.jira_issue" /\ issues' > 0
                             \/ (k[1] = "mutate.k8s_deployment" /\ k[2] \in served')
    BY <1>1 DEF RecordIsTrue
  <2>1. CASE k = key
    <3>1. execs[k] # "failed_clean"
      BY <1>0, <1>3, <2>1 DEF Inv, CleanIsOver
    <3>2. QED
      BY <1>6, <2>1, <3>1
  <2>2. CASE k # key
    <3>1. posted'[k] = posted[k]
      BY <1>6, <2>2 DEF TypeOK
    <3>2. QED
      BY <1>2, <1>7, <3>1 DEF Inv, RecordIsTrue
  <2>3. QED
    BY <2>1, <2>2
<1>18. RevokedIsNotUsed'
  BY <1>1, <1>8, ScopeAssumption DEF Inv, RevokedIsNotUsed
<1>19. QED
  BY <1>10, <1>11, <1>12, <1>13, <1>14, <1>15, <1>16, <1>17, <1>18 DEF Inv

---------------------------------------------------------------------------
\* A step that leaves threads, claims, records and the outside world alone only
\* has to keep the caller's own place in order.
LEMMA CallerFrame ==
    ASSUME TypeOK, Inv, UNCHANGED <<claims, execs, thread, world, refusedAt>>
    PROVE  /\ ClaimDiscipline' /\ EffectMatchesThread' /\ CleanIsOver'
           /\ AppliedOnce' /\ RecordIsTrue' /\ RevokedIsNotUsed'
<1>1. ClaimDiscipline' /\ EffectMatchesThread' /\ CleanIsOver'
  BY DEF Inv, ClaimDiscipline, EffectMatchesThread, CleanIsOver, world
<1>2. AppliedOnce' /\ RecordIsTrue' /\ RevokedIsNotUsed'
  BY DEF Inv, AppliedOnce, RecordIsTrue, RevokedIsNotUsed, world
<1>3. QED
  BY <1>1, <1>2

\* A change of the caller's place, or its stop.
LEMMA PlaceIsTyped ==
    ASSUME TypeOK, NEW c \in Callers, NEW r \in Invocation,
           call' = [call EXCEPT ![c] = r]
    PROVE  /\ call' \in [Callers -> Invocation]
           /\ call'[c] = r
           /\ \A d \in Callers : d # c => call'[d] = call[d]
BY DEF TypeOK

\* The menu is resolved, or the call ends.
LEMMA MenuStep ==
    ASSUME TypeOK, Inv, NEW c \in Callers, menu_for(c)
    PROVE  TypeOK' /\ Inv'
<1>1. call[c] \in Invocation
  BY DEF TypeOK
<1>2. PICK r \in Invocation :
         /\ call' = [call EXCEPT ![c] = r]
         /\ r.pc \in {"next", "failed"} /\ r.at = call[c].at
  <2>1. CASE assert_matches_database(c)
    <3> DEFINE r == [call[c] EXCEPT !.pc = "next", !.menu = resolve(c)]
    <3>1. r \in Invocation /\ r.pc = "next" /\ r.at = call[c].at
      BY <1>1, ResolveIsGranted DEF Invocation
    <3>2. call' = [call EXCEPT ![c] = r]
      BY <1>1, <2>1 DEF menu_for, TypeOK, Invocation
    <3>3. QED
      BY <3>1, <3>2
  <2>2. CASE ~assert_matches_database(c)
    <3> DEFINE r == [call[c] EXCEPT !.pc = "failed"]
    <3>1. r \in Invocation /\ r.pc = "failed" /\ r.at = call[c].at
      BY <1>1 DEF Invocation
    <3>2. call' = [call EXCEPT ![c] = r]
      BY <1>1, <2>2 DEF menu_for, TypeOK, Invocation
    <3>3. QED
      BY <3>1, <3>2
  <2>3. QED
    BY <2>1, <2>2
<1>3. /\ call' \in [Callers -> Invocation] /\ call'[c] = r
      /\ \A d \in Callers : d # c => call'[d] = call[d]
  BY <1>2, PlaceIsTyped
<1>4. UNCHANGED <<claims, execs, thread, world, admin, refusedAt, faults>>
  BY DEF menu_for
<1>5. TypeOK'
  BY <1>3, <1>4 DEF TypeOK, world, admin
<1>6. AtTheBroker'
  BY <1>2, <1>3, <1>4 DEF Inv, AtTheBroker, Asked
<1>7. GoesForward'
  <2>1. call[c].pc = "start"
    BY DEF menu_for
  <2>2. QED
    BY <1>2, <1>3, <1>4, <2>1 DEF Inv, GoesForward, Stopped
<1>8. QED
  BY <1>4, <1>5, <1>6, <1>7, CallerFrame DEF Inv

---------------------------------------------------------------------------
\* The next request is put to the broker.  It is refused for good, or
\* authorised while it is granted, bound and described.
LEMMA AnnounceStep ==
    ASSUME TypeOK, Inv, NEW c \in Callers, announce(c)
    PROVE  TypeOK' /\ Inv'
<1>1. call[c] \in Invocation /\ call[c].pc = "next"
  BY DEF TypeOK, announce
<1>2. UNCHANGED <<claims, execs, thread, world, admin, faults>>
  BY DEF announce
<1>3. call[c].at \in Nat /\ call[c].at >= 1 /\ call[c].menu \subseteq Catalogue
  BY <1>1 DEF Invocation
<1>4. ASSUME NEW pc \in {"next", "claim", "done", "failed"}, NEW at \in Nat \ {0},
             call' = [call EXCEPT ![c] = [call[c] EXCEPT !.pc = pc, !.at = at]],
             at >= call[c].at,
             pc = "claim" => at \in 1 .. Len(Agenda(c)) /\ Agenda(c)[at] \in Catalogue,
             refusedAt \subseteq refusedAt',
             \A q \in refusedAt' \ refusedAt :
                 \E i \in call[c].at .. Len(Agenda(c)) :
                     /\ q = <<c, Agenda(c)[i]>> /\ Agenda(c)[i] \in Catalogue
                     /\ pc \in Stopped \/ i < at
      PROVE  TypeOK' /\ Inv'
  <2> DEFINE r == [call[c] EXCEPT !.pc = pc, !.at = at]
  <2>1. r \in Invocation /\ r.pc = pc /\ r.at = at
    BY <1>1, <1>4 DEF Invocation
  <2> HIDE DEF r
  <2>2. /\ call' \in [Callers -> Invocation] /\ call'[c] = r
        /\ \A d \in Callers : d # c => call'[d] = call[d]
    BY <1>4, <2>1, PlaceIsTyped DEF r
  <2>3. \A q \in refusedAt' \ refusedAt :
           q \in Callers \X Catalogue /\ q[1] = c /\ thread[c][q[2]].phase = "none"
    <3> SUFFICES ASSUME NEW q \in refusedAt' \ refusedAt
                 PROVE  q \in Callers \X Catalogue /\ q[1] = c /\ thread[c][q[2]].phase = "none"
      OBVIOUS
    <3>1. PICK i \in call[c].at .. Len(Agenda(c)) :
             q = <<c, Agenda(c)[i]>> /\ Agenda(c)[i] \in Catalogue
      BY <1>4
    <3>2. i \in 1 .. Len(Agenda(c)) /\ (i > call[c].at \/ i = call[c].at)
      BY <1>3, AgendaLength
    <3>3. thread[c][Agenda(c)[i]].phase = "none"
      BY <1>1, <3>1, <3>2 DEF Inv, GoesForward, Stopped
    <3>4. QED
      BY <3>1, <3>3
  <2>4. TypeOK'
    BY <1>2, <1>4, <2>2, <2>3 DEF TypeOK, world, admin
  <2>5. AtTheBroker'
    <3> SUFFICES ASSUME NEW d \in Callers
                 PROVE  /\ call'[d].pc \in {"claim", "waiting"} =>
                              call'[d].at \in 1 .. Len(Agenda(d)) /\ Asked(d)' \in Catalogue
                        /\ call'[d].pc = "waiting" => thread'[d][Asked(d)'].phase # "none"
      BY DEF AtTheBroker
    <3>1. CASE d = c
      BY <1>4, <2>1, <2>2, <3>1 DEF Asked
    <3>2. CASE d # c
      <4>1. call'[d] = call[d] /\ Asked(d)' = Asked(d)
        BY <2>2, <3>2 DEF Asked
      <4>2. QED
        BY <1>2, <4>1 DEF Inv, AtTheBroker
    <3>3. QED
      BY <3>1, <3>2
  <2>6. GoesForward'
    <3> SUFFICES ASSUME NEW d \in Callers, NEW t \in Catalogue, NEW j \in 1 .. Len(Agenda(d)),
                        Agenda(d)[j] = t, call'[d].pc \notin Stopped
                 PROVE  /\ j > call'[d].at \/ (j = call'[d].at /\ call'[d].pc # "waiting") =>
                              thread[d][t].phase = "none"
                        /\ <<d, t>> \in refusedAt' => j < call'[d].at
      BY <1>2 DEF GoesForward
    <3>1. CASE d = c
      <4>1. call[c].pc \notin Stopped /\ j \in Nat /\ at \in Nat
        BY <1>1, AgendaLength DEF Stopped
      <4>2. /\ j > call[c].at \/ j = call[c].at => thread[c][t].phase = "none"
            /\ <<c, t>> \in refusedAt => j < call[c].at
        BY <1>1, <3>1, <4>1 DEF Inv, GoesForward
      <4>3. <<c, t>> \in refusedAt' => j < at
        <5>1. CASE <<c, t>> \in refusedAt
          BY <1>3, <1>4, <4>1, <4>2, <5>1
        <5>2. CASE <<c, t>> \in refusedAt' \ refusedAt
          <6>1. PICK i \in call[c].at .. Len(Agenda(c)) :
                   /\ <<c, t>> = <<c, Agenda(c)[i]>>
                   /\ pc \in Stopped \/ i < at
            BY <1>4, <5>2
          <6>2. i \in 1 .. Len(Agenda(c)) /\ Agenda(c)[i] = t
            BY <1>3, <6>1, AgendaLength
          <6>3. i = j
            BY <3>1, <6>2, AgendaIsDistinct
          <6>4. QED
            BY <2>1, <2>2, <3>1, <6>1, <6>3
        <5>3. QED
          BY <5>1, <5>2
      <4>4. QED
        BY <1>3, <1>4, <2>1, <2>2, <3>1, <4>1, <4>2, <4>3
    <3>2. CASE d # c
      <4>1. call'[d] = call[d] /\ (<<d, t>> \in refusedAt' => <<d, t>> \in refusedAt)
        BY <2>2, <2>3, <3>2
      <4>2. QED
        BY <4>1 DEF Inv, GoesForward
    <3>3. QED
      BY <3>1, <3>2
  <2>7. RevokedIsNotUsed'
    <3> SUFFICES ASSUME NEW d \in Callers, NEW t \in Catalogue, <<d, t>> \in refusedAt'
                 PROVE  thread[d][t].phase = "none"
      BY <1>2 DEF RevokedIsNotUsed
    <3>1. CASE <<d, t>> \in refusedAt
      BY <3>1 DEF Inv, RevokedIsNotUsed
    <3>2. CASE <<d, t>> \notin refusedAt
      BY <2>3, <3>2
    <3>3. QED
      BY <3>1, <3>2
  <2>8. ClaimDiscipline' /\ EffectMatchesThread' /\ CleanIsOver'
    BY <1>2 DEF Inv, ClaimDiscipline, EffectMatchesThread, CleanIsOver, world
  <2>9. AppliedOnce' /\ RecordIsTrue'
    BY <1>2 DEF Inv, AppliedOnce, RecordIsTrue, world
  <2>10. QED
    BY <2>4, <2>5, <2>6, <2>7, <2>8, <2>9 DEF Inv
<1>5. CASE Left(c) = {} /\ Goto(c, "done") /\ UNCHANGED refusedAt
  <2>1. call' = [call EXCEPT ![c] = [call[c] EXCEPT !.pc = "done", !.at = call[c].at]]
    BY <1>1, <1>5 DEF Goto, TypeOK, Invocation
  <2>2. refusedAt \subseteq refusedAt' /\ \A q \in refusedAt' \ refusedAt : FALSE
    BY <1>5
  <2>3. call[c].at \in Nat \ {0} /\ call[c].at >= call[c].at
    BY <1>3
  <2>4. QED
    BY <1>4, <2>1, <2>2, <2>3
<1>6. CASE \E i \in Left(c) :
             /\ _authorize(c, i)
             /\ refusedAt' = IF Agenda(c)[i] \in grants \cap bindings
                                 /\ tools[Agenda(c)[i]] = "described" THEN refusedAt
                             ELSE refusedAt \cup {<<c, Agenda(c)[i]>>}
  <2>1. PICK i \in Left(c) :
             /\ _authorize(c, i)
             /\ refusedAt' = IF Agenda(c)[i] \in grants \cap bindings
                                 /\ tools[Agenda(c)[i]] = "described" THEN refusedAt
                             ELSE refusedAt \cup {<<c, Agenda(c)[i]>>}
    BY <1>6
  <2> DEFINE t == Agenda(c)[i]
             allowed == t \in resolve(c) /\ t \in bindings /\ ArgumentsBind(c, t)
  <2>2. i \in call[c].at .. Len(Agenda(c)) /\ t \in Catalogue
    BY <1>3 DEF Left
  <2>3. i \in Nat /\ i >= call[c].at /\ i \in 1 .. Len(Agenda(c))
    BY <1>3, <2>2, AgendaLength
  <2>4. CASE ~assert_matches_database(c) /\ call' = [call EXCEPT ![c].pc = "failed"]
    <3>1. call' = [call EXCEPT ![c] = [call[c] EXCEPT !.pc = "failed", !.at = call[c].at]]
      BY <1>1, <2>4 DEF TypeOK, Invocation
    <3>2. refusedAt \subseteq refusedAt' /\ \A q \in refusedAt' \ refusedAt : q = <<c, t>>
      BY <2>1
    <3>3. call[c].at \in Nat \ {0} /\ call[c].at >= call[c].at /\ "failed" \in Stopped
      BY <1>3 DEF Stopped
    <3>4. QED
      BY <1>4, <2>2, <3>1, <3>2, <3>3
  <2>5. CASE /\ assert_matches_database(c) /\ allowed
             /\ call' = [call EXCEPT ![c].pc = "claim", ![c].at = i]
    <3>1. UNCHANGED refusedAt
      BY <2>1, <2>5, AuthorisedStands
    <3>2. call' = [call EXCEPT ![c] = [call[c] EXCEPT !.pc = "claim", !.at = i]]
      BY <1>1, <2>5 DEF TypeOK, Invocation
    <3>3. refusedAt \subseteq refusedAt' /\ \A q \in refusedAt' \ refusedAt : FALSE
      BY <3>1
    <3>4. i \in Nat \ {0}
      BY <2>3
    <3>5. QED
      BY <1>4, <2>2, <2>3, <3>2, <3>3, <3>4
  <2>6. CASE call' = [call EXCEPT ![c].at = i + 1]
    <3>1. call' = [call EXCEPT ![c] = [call[c] EXCEPT !.pc = "next", !.at = i + 1]]
      BY <1>1, <2>6 DEF TypeOK, Invocation
    <3>2. i + 1 \in Nat \ {0} /\ i + 1 >= call[c].at /\ i < i + 1
      BY <1>3, <2>3
    <3>3. \A q \in refusedAt' \ refusedAt : q = <<c, t>>
      BY <2>1
    <3>4. refusedAt \subseteq refusedAt'
      BY <2>1
    <3>5. QED
      BY <1>4, <2>2, <3>1, <3>2, <3>3, <3>4
  <2>7. QED
    BY <2>1, <2>4, <2>5, <2>6 DEF _authorize
<1>7. QED
  BY <1>5, <1>6 DEF announce

---------------------------------------------------------------------------
\* A caller that stops, or goes on to a later position, keeps its place in order.
LEMMA GoesOn ==
    ASSUME TypeOK, Inv, NEW c \in Callers, NEW r \in Invocation,
           call' = [call EXCEPT ![c] = r],
           \/ r.pc \in Stopped
           \/ (r.pc = "next" /\ r.at > call[c].at /\ call[c].pc \notin Stopped),
           UNCHANGED <<thread, refusedAt>>
    PROVE  call' \in [Callers -> Invocation] /\ AtTheBroker' /\ GoesForward'
<1>1. /\ call' \in [Callers -> Invocation] /\ call'[c] = r
      /\ \A d \in Callers : d # c => call'[d] = call[d]
  BY PlaceIsTyped
<1>2. r.pc \notin {"claim", "waiting"}
  BY DEF Stopped
<1>3. AtTheBroker'
  <2> SUFFICES ASSUME NEW d \in Callers
               PROVE  /\ call'[d].pc \in {"claim", "waiting"} =>
                            call'[d].at \in 1 .. Len(Agenda(d)) /\ Asked(d)' \in Catalogue
                      /\ call'[d].pc = "waiting" => thread'[d][Asked(d)'].phase # "none"
    BY DEF AtTheBroker
  <2>1. CASE d = c
    BY <1>1, <1>2, <2>1
  <2>2. CASE d # c
    <3>1. call'[d] = call[d] /\ Asked(d)' = Asked(d)
      BY <1>1, <2>2 DEF Asked
    <3>2. QED
      BY <3>1 DEF Inv, AtTheBroker
  <2>3. QED
    BY <2>1, <2>2
<1>4. GoesForward'
  <2> SUFFICES ASSUME NEW d \in Callers, NEW t \in Catalogue, NEW j \in 1 .. Len(Agenda(d)),
                      Agenda(d)[j] = t, call'[d].pc \notin Stopped
               PROVE  /\ j > call'[d].at \/ (j = call'[d].at /\ call'[d].pc # "waiting") =>
                            thread[d][t].phase = "none"
                      /\ <<d, t>> \in refusedAt => j < call'[d].at
    BY DEF GoesForward
  <2>1. CASE d = c
    <3>1. r.at \in Nat /\ call[c].at \in Nat /\ j \in Nat
      BY AgendaLength DEF TypeOK, Invocation
    <3>2. /\ j > call[c].at => thread[c][t].phase = "none"
          /\ <<c, t>> \in refusedAt => j < call[c].at
      BY <1>1, <2>1 DEF Inv, GoesForward
    <3>3. QED
      BY <1>1, <2>1, <3>1, <3>2
  <2>2. CASE d # c
    BY <1>1, <2>2 DEF Inv, GoesForward
  <2>3. QED
    BY <2>1, <2>2
<1>5. QED
  BY <1>1, <1>3, <1>4

\* The two ways a call leaves the broker.
LEMMA Leaves ==
    ASSUME TypeOK, NEW c \in Callers, Receive(c) \/ Goto(c, "failed") \/ Goto(c, "crashed"),
           call[c].pc \notin Stopped
    PROVE  \E r \in Invocation :
               /\ call' = [call EXCEPT ![c] = r]
               /\ \/ r.pc \in Stopped
                  \/ (r.pc = "next" /\ r.at > call[c].at /\ call[c].pc \notin Stopped)
<1>1. call[c] \in Invocation /\ call \in [Callers -> Invocation]
  BY DEF TypeOK
<1>2. CASE Receive(c)
  <2> DEFINE at == call[c].at + 1
             r == [call[c] EXCEPT !.pc = "next", !.at = at]
  <2>0. at \in Nat \ {0} /\ at > call[c].at
    BY <1>1 DEF Invocation
  <2>1. r \in Invocation /\ r.pc = "next" /\ r.at = at
    BY <1>1, <2>0 DEF Invocation
  <2>2. call' = [call EXCEPT ![c] = r]
    BY <1>1, <1>2 DEF Receive, Invocation
  <2>3. QED
    BY <2>0, <2>1, <2>2
<1>3. ASSUME NEW pc \in {"failed", "crashed"}, Goto(c, pc)
      PROVE  \E r \in Invocation : call' = [call EXCEPT ![c] = r] /\ r.pc \in Stopped
  <2> DEFINE r == [call[c] EXCEPT !.pc = pc]
  <2>1. r \in Invocation /\ r.pc \in Stopped
    BY <1>1, <1>3 DEF Invocation, Stopped
  <2>2. call' = [call EXCEPT ![c] = r]
    BY <1>1, <1>3 DEF Goto, Invocation
  <2>3. QED
    BY <2>1, <2>2
<1>4. QED
  BY <1>2, <1>3

\* The claim is taken by one thread, or was taken before and stays where it is.
LEMMA ClaimStep ==
    ASSUME TypeOK, Inv, NEW c \in Callers, _claim_write(c)
    PROVE  TypeOK' /\ Inv'
<1> DEFINE t == Asked(c)
           key == tool_execution_key(c, t)
<1>1. call[c].pc = "claim" /\ UNCHANGED <<execs, world, admin, refusedAt, faults>>
  BY DEF _claim_write
<1>2. /\ call[c] \in Invocation /\ call[c].at \in 1 .. Len(Agenda(c))
      /\ t \in Catalogue /\ t \in Catalogue
  BY <1>1, ScopeAssumption DEF Inv, AtTheBroker, TypeOK
<1>3. thread[c][t].phase = "none" /\ <<c, t>> \notin refusedAt
  <2>1. Agenda(c)[call[c].at] = t /\ call[c].pc \notin Stopped
    BY <1>1 DEF Asked, Stopped
  <2>2. ~(call[c].at < call[c].at)
    BY <1>2, AgendaLength
  <2>3. QED
    BY <1>1, <1>2, <2>1, <2>2 DEF Inv, GoesForward
<1>4. CASE key \in claims /\ Receive(c) /\ UNCHANGED <<claims, thread>>
  <2>1. call[c].pc \notin Stopped
    BY <1>1 DEF Stopped
  <2>2. call' \in [Callers -> Invocation] /\ AtTheBroker' /\ GoesForward'
    BY <1>1, <1>4, <2>1, Leaves, GoesOn
  <2>3. TypeOK'
    BY <1>1, <1>4, <2>2 DEF TypeOK, world, admin
  <2>4. QED
    BY <1>1, <1>4, <2>2, <2>3, CallerFrame DEF Inv
<1>5. CASE /\ key \notin claims /\ claims' = claims \cup {key}
           /\ thread' = [thread EXCEPT ![c][t].phase = FirstPhase(t)]
           /\ Goto(c, "waiting")
  <2> DEFINE phase == FirstPhase(t)
  <2>1. phase \in Running
    BY DEF FirstPhase, Running
  <2>2. /\ Moves(c, t) /\ thread'[c][t].phase = phase
        /\ thread'[c][t].result = thread[c][t].result
    <3>1. phase \in Unsettled \cup {"none", "applied", "end"}
      BY <2>1 DEF Unsettled
    <3>2. Becomes(c, t, phase)
      BY <1>5 DEF Becomes
    <3> HIDE DEF phase, t
    <3>3. QED
      BY <1>2, <3>1, <3>2, BecomesMoves
  <2>3. /\ thread'[c][t].phase \in Running /\ thread'[c][t].phase # "none"
        /\ thread'[c][t].result = "none"
    BY <1>2, <1>3, <2>1, <2>2 DEF Inv, EffectMatchesThread, Running
  <2> HIDE DEF phase
  <2> DEFINE r == [call[c] EXCEPT !.pc = "waiting"]
  <2>4. r \in Invocation /\ r.pc = "waiting" /\ r.at = call[c].at
    BY <1>2 DEF Invocation
  <2>5. call' = [call EXCEPT ![c] = r]
    BY <1>2, <1>5 DEF Goto, TypeOK, Invocation
  <2> HIDE DEF r
  <2>6. /\ call' \in [Callers -> Invocation] /\ call'[c] = r
        /\ \A d \in Callers : d # c => call'[d] = call[d]
    BY <2>4, <2>5, PlaceIsTyped
  <2>7. \A d \in Callers : Asked(d)' = Asked(d)
    BY <2>4, <2>6 DEF Asked
  <2>8. \A d \in Callers, u \in Catalogue :
           thread[d][u].phase # "none" => thread'[d][u] = thread[d][u]
    BY <1>3, <2>2 DEF Moves
  <2>9. key \in Keys
    BY <1>2, KeyIsKey
  <2>10. \A d \in Callers, u \in Catalogue :
            tool_execution_key(d, u) = key => thread[d][u].phase = "none"
    BY <1>5 DEF Inv, ClaimDiscipline
  <2>11. TypeOK'
    BY <1>1, <1>5, <2>2, <2>6, <2>9 DEF TypeOK, Moves, world, admin
  <2>12. AtTheBroker'
    <3> SUFFICES ASSUME NEW d \in Callers
                 PROVE  /\ call'[d].pc \in {"claim", "waiting"} =>
                              call'[d].at \in 1 .. Len(Agenda(d)) /\ Asked(d)' \in Catalogue
                        /\ call'[d].pc = "waiting" => thread'[d][Asked(d)'].phase # "none"
      BY DEF AtTheBroker
    <3>1. CASE d = c
      BY <1>2, <2>3, <2>4, <2>6, <2>7, <3>1
    <3>2. CASE d # c
      <4>1. call'[d] = call[d] /\ (Asked(d) \in Catalogue => Asked(d) \in Catalogue)
        BY <2>6, <3>2, ScopeAssumption
      <4>2. QED
        BY <2>7, <2>8, <4>1 DEF Inv, AtTheBroker
    <3>3. QED
      BY <3>1, <3>2
  <2>13. ClaimDiscipline'
    <3> SUFFICES ASSUME NEW d \in Callers, NEW u \in Catalogue, thread'[d][u].phase # "none"
                 PROVE  /\ tool_execution_key(d, u) \in claims'
                        /\ \A e \in Callers :
                              EventOf[e] = EventOf[d] /\ thread'[e][u].phase # "none" => e = d
      BY DEF ClaimDiscipline
    <3>1. CASE d = c /\ u = t
      <4>1. \A e \in Callers : EventOf[e] = EventOf[c] => tool_execution_key(e, t) = key
        BY DEF tool_execution_key
      <4>2. \A e \in Callers : EventOf[e] = EventOf[c] => thread[e][t].phase = "none"
        BY <1>2, <2>10, <4>1
      <4>3. QED
        BY <1>2, <1>5, <2>2, <3>1, <4>2 DEF Moves
    <3>2. CASE d # c \/ u # t
      <4>1. thread'[d][u] = thread[d][u]
        BY <2>2, <3>2 DEF Moves
      <4>2. tool_execution_key(d, u) \in claims /\ tool_execution_key(d, u) # key
        BY <1>5, <4>1 DEF Inv, ClaimDiscipline
      <4>3. ASSUME NEW e \in Callers, EventOf[e] = EventOf[d], thread'[e][u].phase # "none"
            PROVE  e = d
        <5>1. ~(e = c /\ u = t)
          BY <4>2, <4>3 DEF tool_execution_key
        <5>2. thread'[e][u] = thread[e][u]
          BY <2>2, <5>1 DEF Moves
        <5>3. QED
          BY <4>1, <4>3, <5>2 DEF Inv, ClaimDiscipline
      <4>4. QED
        BY <1>5, <4>2, <4>3
    <3>3. QED
      BY <3>1, <3>2
  <2>14. EffectMatchesThread'
    <3>1. posted[key] = 0
      BY <1>5, <2>9 DEF Inv, EffectMatchesThread
    <3>2. \A k \in Keys \ claims' : posted'[k] = 0
      BY <1>1, <1>5 DEF Inv, EffectMatchesThread, world
    <3>3. ASSUME NEW d \in Callers, NEW u \in Catalogue
          PROVE  LET k == tool_execution_key(d, u)
                     th == thread'[d][u]
                 IN  /\ th.phase \in Unsettled => posted[k] = 0
                     /\ th.phase = "applied" => posted[k] = 1
                     /\ th.phase = "none" => th.result = "none"
                     /\ th.result = "not_applied" => th.phase = "end" /\ posted[k] = 0
                     /\ th.result = "ok" =>
                            /\ th.phase = "end"
                            /\ \/ posted[k] = 1
                               \/ u = "write.jira_issue" /\ issues > 0
                               \/ (u = "mutate.k8s_deployment" /\ EventOf[d] \in served)
      <4>1. CASE d = c /\ u = t
        BY <2>3, <3>1, <4>1 DEF Running
      <4>2. CASE d # c \/ u # t
        <5>1. thread'[d][u] = thread[d][u]
          BY <2>2, <4>2 DEF Moves
        <5>2. QED
          BY <5>1 DEF Inv, EffectMatchesThread
      <4>3. QED
        BY <4>1, <4>2
    <3>4. QED
      BY <1>1, <3>2, <3>3 DEF Inv, EffectMatchesThread, world
  <2>15. CleanIsOver'
    <3> SUFFICES ASSUME NEW d \in Callers, NEW u \in Catalogue,
                        tool_execution_key(d, u) \in DOMAIN execs,
                        execs[tool_execution_key(d, u)] = "failed_clean"
                 PROVE  thread'[d][u].phase \in {"none", "end"}
      BY <1>1 DEF CleanIsOver
    <3>1. ~(d = c /\ u = t)
      BY <1>5 DEF TypeOK
    <3>2. thread'[d][u] = thread[d][u]
      BY <2>2, <3>1 DEF Moves
    <3>3. QED
      BY <3>2 DEF Inv, CleanIsOver
  <2>16. GoesForward'
    <3> SUFFICES ASSUME NEW d \in Callers, NEW u \in Catalogue, NEW j \in 1 .. Len(Agenda(d)),
                        Agenda(d)[j] = u, call'[d].pc \notin Stopped
                 PROVE  /\ j > call'[d].at \/ (j = call'[d].at /\ call'[d].pc # "waiting") =>
                              thread'[d][u].phase = "none"
                        /\ <<d, u>> \in refusedAt => j < call'[d].at
      BY <1>1 DEF GoesForward
    <3>1. CASE d = c
      <4>1. u = t => j = call[c].at
        BY <1>2, <3>1, AgendaIsDistinct DEF Asked
      <4>2. /\ j > call[c].at => thread[c][u].phase = "none"
            /\ <<c, u>> \in refusedAt => j < call[c].at
        BY <1>1, <3>1 DEF Inv, GoesForward, Stopped
      <4>3. j > call[c].at => thread'[c][u] = thread[c][u]
        <5>1. ~(call[c].at > call[c].at) /\ u \in Catalogue
          BY <1>2, AgendaLength, ScopeAssumption
        <5>2. QED
          BY <2>2, <4>1, <5>1 DEF Moves
      <4>4. QED
        BY <2>4, <2>6, <3>1, <4>2, <4>3
    <3>2. CASE d # c
      <4>1. thread'[d][u] = thread[d][u] /\ call'[d] = call[d]
        BY <2>2, <2>6, <3>2, ScopeAssumption DEF Moves
      <4>2. QED
        BY <4>1 DEF Inv, GoesForward
    <3>3. QED
      BY <3>1, <3>2
  <2>17. AppliedOnce' /\ RecordIsTrue'
    BY <1>1 DEF Inv, AppliedOnce, RecordIsTrue, world
  <2>18. RevokedIsNotUsed'
    <3> SUFFICES ASSUME NEW d \in Callers, NEW u \in Catalogue, <<d, u>> \in refusedAt
                 PROVE  thread'[d][u].phase = "none"
      BY <1>1 DEF RevokedIsNotUsed
    <3>1. thread'[d][u] = thread[d][u]
      BY <1>3, <2>2, ScopeAssumption DEF Moves
    <3>2. QED
      BY <3>1 DEF Inv, RevokedIsNotUsed
  <2>19. QED
    BY <2>11, <2>12, <2>13, <2>14, <2>15, <2>16, <2>17, <2>18 DEF Inv
<1>6. QED
  BY <1>4, <1>5 DEF _claim_write

---------------------------------------------------------------------------
\* An outcome that is true of the outside world when it is recorded stays so.
LEMMA RecordStep ==
    ASSUME TypeOK, Inv, NEW c \in Callers, call[c].pc = "waiting",
           NEW outcome \in {"succeeded", "failed_clean", "unknown"},
           Record(c, Asked(c), outcome),
           UNCHANGED <<claims, thread, world, admin, refusedAt>>,
           outcome = "failed_clean" =>
               /\ posted[tool_execution_key(c, Asked(c))] = 0
               /\ thread[c][Asked(c)].phase = "end",
           outcome = "succeeded" =>
               \/ posted[tool_execution_key(c, Asked(c))] = 1
               \/ (Asked(c) = "write.jira_issue" /\ issues > 0)
               \/ (Asked(c) = "mutate.k8s_deployment" /\ EventOf[c] \in served)
    PROVE  TypeOK' /\ Inv'
<1> DEFINE t == Asked(c)
           key == tool_execution_key(c, t)
<1>1. t \in Catalogue /\ t \in Catalogue /\ thread[c][t].phase # "none"
  BY ScopeAssumption DEF Inv, AtTheBroker
<1>2. key \in claims
  BY <1>1 DEF Inv, ClaimDiscipline
<1>3. call' \in [Callers -> Invocation] /\ AtTheBroker' /\ GoesForward'
  <2>1. (Receive(c) \/ Goto(c, "failed") \/ Goto(c, "crashed")) /\ call[c].pc \notin Stopped
    BY DEF Record, Stopped
  <2>2. QED
    BY <2>1, Leaves, GoesOn
<1>4. faults' \in Nat
  BY DEF Record, Fault, TypeOK
<1>5. CASE UNCHANGED execs
  <2>1. TypeOK'
    BY <1>3, <1>4, <1>5 DEF TypeOK, world, admin
  <2>2. QED
    BY <1>3, <1>5, <2>1, CallerFrame DEF Inv
<1>6. CASE execs' = WithOutcome(key, outcome)
  <2>1. /\ DOMAIN execs' = DOMAIN execs \cup {key}
        /\ execs'[key] = outcome
        /\ \A l \in DOMAIN execs' : l # key => l \in DOMAIN execs /\ execs'[l] = execs[l]
    BY <1>6, ExecsGrow
  <2>2. TypeOK'
    BY <1>2, <1>3, <1>4, <2>1 DEF TypeOK, world, admin
  <2>3. ClaimDiscipline' /\ EffectMatchesThread'
    BY DEF Inv, ClaimDiscipline, EffectMatchesThread, world
  <2>4. CleanIsOver'
    <3> SUFFICES ASSUME NEW d \in Callers, NEW u \in Catalogue,
                        tool_execution_key(d, u) \in DOMAIN execs',
                        execs'[tool_execution_key(d, u)] = "failed_clean"
                 PROVE  thread[d][u].phase \in {"none", "end"}
      BY DEF CleanIsOver
    <3>1. CASE tool_execution_key(d, u) = key
      <4>1. u = t /\ EventOf[d] = EventOf[c]
        BY <3>1, KeyIsInjective
      <4>2. thread[c][t].phase = "end"
        BY <2>1, <3>1
      <4>3. QED
        BY <1>1, <4>1, <4>2 DEF Inv, ClaimDiscipline
    <3>2. CASE tool_execution_key(d, u) # key
      BY <2>1, <3>2 DEF Inv, CleanIsOver
    <3>3. QED
      BY <3>1, <3>2
  <2>5. AppliedOnce' /\ RevokedIsNotUsed'
    BY DEF Inv, AppliedOnce, RevokedIsNotUsed, world
  <2>6. RecordIsTrue'
    <3> SUFFICES ASSUME NEW k \in DOMAIN execs'
                 PROVE  /\ execs'[k] = "failed_clean" => posted[k] = 0
                        /\ execs'[k] = "succeeded" =>
                               \/ posted[k] = 1
                               \/ k[1] = "write.jira_issue" /\ issues > 0
                               \/ (k[1] = "mutate.k8s_deployment" /\ k[2] \in served)
      BY DEF RecordIsTrue, world
    <3>1. CASE k = key
      <4>1. k[1] = t /\ k[2] = EventOf[c]
        BY <3>1 DEF tool_execution_key
      <4>2. QED
        BY <2>1, <3>1, <4>1
    <3>2. CASE k # key
      BY <2>1, <3>2 DEF Inv, RecordIsTrue
    <3>3. QED
      BY <3>1, <3>2
  <2>7. QED
    BY <1>3, <2>2, <2>3, <2>4, <2>5, <2>6 DEF Inv
<1>7. QED
  BY <1>5, <1>6 DEF Record

\* The caller takes its thread's answer, or gives it up at the deadline, and records.
LEMMA DispatchStep ==
    ASSUME TypeOK, Inv, NEW c \in Callers, _dispatch(c) \/ _invoke_with_deadline(c)
    PROVE  TypeOK' /\ Inv'
<1>1. CASE _invoke_with_deadline(c)
  BY <1>1, RecordStep DEF _invoke_with_deadline
<1>2. CASE _dispatch(c)
  <2> DEFINE t == Asked(c)
             result == thread[c][t].result
  <2>1. /\ call[c].pc = "waiting" /\ result # "none" /\ Record(c, t, Outcome(result))
        /\ UNCHANGED <<claims, thread, world, admin, refusedAt>>
    BY <1>2 DEF _dispatch
  <2>2. t \in Catalogue
    BY <2>1, ScopeAssumption DEF Inv, AtTheBroker
  <2>3. result \in {"ok", "not_applied", "unknown"}
    <3>1. thread[c][t] \in AdapterThread
      BY <2>2 DEF TypeOK
    <3>2. QED
      BY <2>1, <3>1 DEF AdapterThread
  <2>4. /\ result = "not_applied" =>
              thread[c][t].phase = "end" /\ posted[tool_execution_key(c, t)] = 0
        /\ result = "ok" => \/ posted[tool_execution_key(c, t)] = 1
                            \/ (t = "write.jira_issue" /\ issues > 0)
                            \/ (t = "mutate.k8s_deployment" /\ EventOf[c] \in served)
    BY <2>2 DEF Inv, EffectMatchesThread
  <2>5. /\ Outcome(result) \in {"succeeded", "failed_clean", "unknown"}
        /\ Outcome(result) = "failed_clean" => result = "not_applied"
        /\ Outcome(result) = "succeeded" => result = "ok"
    BY <2>3 DEF Outcome
  <2> HIDE DEF result, t
  <2>6. QED
    BY <2>1, <2>4, <2>5, RecordStep DEF t
<1>3. QED
  BY <1>1, <1>2

\* A crash ends the threads that have sent nothing; what is on the wire stays.
LEMMA CrashStep ==
    ASSUME TypeOK, Inv, NEW c \in Callers, Crash(c)
    PROVE  TypeOK' /\ Inv'
<1>1. /\ UNCHANGED <<claims, execs, world, admin, refusedAt>>
      /\ Goto(c, "crashed") /\ call[c].pc \notin Stopped /\ faults' \in Nat
  BY DEF Crash, Stopped, Fault, TypeOK
<1>2. thread \in [Callers -> [Catalogue -> AdapterThread]]
  BY DEF TypeOK
<1> DEFINE ended(u) == IF thread[c][u].phase \in Running THEN [thread[c][u] EXCEPT !.phase = "end"]
                       ELSE thread[c][u]
<1>3. thread' = [thread EXCEPT ![c] = [u \in Catalogue |-> ended(u)]]
  BY DEF Crash
<1>4. \A u \in Catalogue :
         /\ ended(u) \in AdapterThread
         /\ ended(u).result = thread[c][u].result
         /\ ended(u).phase = IF thread[c][u].phase \in Running THEN "end" ELSE thread[c][u].phase
  <2> SUFFICES ASSUME NEW u \in Catalogue
               PROVE  /\ ended(u) \in AdapterThread
                      /\ ended(u).result = thread[c][u].result
                      /\ ended(u).phase = IF thread[c][u].phase \in Running THEN "end"
                                          ELSE thread[c][u].phase
    OBVIOUS
  <2>1. thread[c][u] \in AdapterThread
    BY <1>2
  <2>2. QED
    BY <2>1 DEF AdapterThread
<1>5. thread' \in [Callers -> [Catalogue -> AdapterThread]]
  BY <1>2, <1>3, <1>4
<1>6. \A d \in Callers, u \in Catalogue :
         /\ thread'[d][u].result = thread[d][u].result
         /\ \/ thread'[d][u].phase = thread[d][u].phase
            \/ (thread[d][u].phase \in Running /\ thread'[d][u].phase = "end")
  BY <1>2, <1>3, <1>4
<1>7. \A d \in Callers, u \in Catalogue :
         (thread'[d][u].phase = "none") = (thread[d][u].phase = "none")
  BY <1>6 DEF Running
<1> DEFINE r == [call[c] EXCEPT !.pc = "crashed"]
<1>8. r \in Invocation /\ call' = [call EXCEPT ![c] = r] /\ r.pc = "crashed"
  BY <1>1 DEF Goto, TypeOK, Invocation
<1> HIDE DEF r, ended
<1>9. /\ call' \in [Callers -> Invocation] /\ call'[c] = r
      /\ \A d \in Callers : d # c => call'[d] = call[d]
  BY <1>8, PlaceIsTyped
<1>10. TypeOK'
  BY <1>1, <1>5, <1>9 DEF TypeOK, world, admin
<1>11. AtTheBroker'
  <2> SUFFICES ASSUME NEW d \in Callers, call'[d].pc \in {"claim", "waiting"}
               PROVE  /\ call'[d].at \in 1 .. Len(Agenda(d)) /\ Asked(d)' \in Catalogue
                      /\ call'[d].pc = "waiting" => thread'[d][Asked(d)'].phase # "none"
    BY DEF AtTheBroker
  <2>1. call'[d] = call[d] /\ Asked(d)' = Asked(d)
    BY <1>8, <1>9 DEF Asked
  <2>2. QED
    BY <1>7, <2>1, ScopeAssumption DEF Inv, AtTheBroker
<1>12. ClaimDiscipline'
  BY <1>1, <1>7 DEF Inv, ClaimDiscipline
<1>13. EffectMatchesThread'
  <2> SUFFICES ASSUME NEW d \in Callers, NEW u \in Catalogue
               PROVE  LET k == tool_execution_key(d, u)
                          th == thread'[d][u]
                      IN  /\ th.phase \in Unsettled => posted[k] = 0
                          /\ th.phase = "applied" => posted[k] = 1
                          /\ th.phase = "none" => th.result = "none"
                          /\ th.result = "not_applied" => th.phase = "end" /\ posted[k] = 0
                          /\ th.result = "ok" =>
                                 /\ th.phase = "end"
                                 /\ \/ posted[k] = 1
                                    \/ u = "write.jira_issue" /\ issues > 0
                                    \/ (u = "mutate.k8s_deployment" /\ EventOf[d] \in served)
    BY <1>1 DEF Inv, EffectMatchesThread, world
  <2>1. CASE thread'[d][u].phase = thread[d][u].phase
    BY <1>6, <2>1 DEF Inv, EffectMatchesThread
  <2>2. CASE thread[d][u].phase \in Running /\ thread'[d][u].phase = "end"
    BY <1>6, <2>2 DEF Inv, EffectMatchesThread, Unsettled, Running
  <2>3. QED
    BY <1>6, <2>1, <2>2
<1>14. CleanIsOver'
  BY <1>1, <1>6 DEF Inv, CleanIsOver
<1>15. GoesForward'
  BY <1>1, <1>7, <1>8, <1>9, ScopeAssumption DEF Inv, GoesForward, Stopped
<1>16. AppliedOnce' /\ RecordIsTrue'
  BY <1>1 DEF Inv, AppliedOnce, RecordIsTrue, world
<1>17. RevokedIsNotUsed'
  BY <1>1, <1>7, ScopeAssumption DEF Inv, RevokedIsNotUsed
<1>18. QED
  BY <1>10, <1>11, <1>12, <1>13, <1>14, <1>15, <1>16, <1>17 DEF Inv

---------------------------------------------------------------------------
\* Administrators and other deployers touch nothing a caller holds.
LEMMA OutsideStep ==
    ASSUME TypeOK, Inv, (\E t \in Revocable : Revoke(t)) \/ Deploy
    PROVE  TypeOK' /\ Inv'
<1>1. /\ UNCHANGED <<callers, thread, posted, issues>>
      /\ served \subseteq served' /\ (serving \in served => serving' \in served')
  BY DEF Revoke, Deploy, world
<1>2. UNCHANGED <<call, claims, execs, refusedAt>>
  BY <1>1 DEF callers
<1>3. TypeOK'
  <2>1. CASE \E t \in Revocable : Revoke(t)
    <3>1. PICK t \in Revocable : Revoke(t)
      BY <2>1
    <3>2. grants' \subseteq Catalogue /\ bindings' \subseteq Catalogue
      BY <3>1 DEF Revoke, TypeOK
    <3>3. tools' \in [Catalogue -> {"described", "disabled", "differs"}]
      BY <3>1 DEF Revoke, TypeOK
    <3>4. revocations' \in Nat /\ UNCHANGED <<rollout, faults, deploys>>
      BY <3>1 DEF Revoke, TypeOK, world
    <3>5. QED
      BY <1>1, <1>2, <3>2, <3>3, <3>4 DEF TypeOK
  <2>2. CASE Deploy
    BY <1>1, <1>2, <2>2 DEF Deploy, TypeOK
  <2>3. QED
    BY <2>1, <2>2
<1>4. AtTheBroker' /\ GoesForward'
  BY <1>1, <1>2 DEF Inv, AtTheBroker, GoesForward, Asked
<1>5. ClaimDiscipline' /\ EffectMatchesThread' /\ CleanIsOver'
  BY <1>1, <1>2 DEF Inv, ClaimDiscipline, EffectMatchesThread, CleanIsOver
<1>6. AppliedOnce' /\ RecordIsTrue' /\ RevokedIsNotUsed'
  BY <1>1, <1>2 DEF Inv, AppliedOnce, RecordIsTrue, RevokedIsNotUsed
<1>7. QED
  BY <1>3, <1>4, <1>5, <1>6 DEF Inv

\* Nothing happens.
LEMMA Stutter ==
    ASSUME TypeOK, Inv, UNCHANGED vars
    PROVE  TypeOK' /\ Inv'
<1>1. UNCHANGED <<claims, execs, thread, world, refusedAt, call, admin, faults>>
  BY DEF vars, world, admin
<1>2. TypeOK'
  BY <1>1 DEF TypeOK, world, admin
<1>3. AtTheBroker' /\ GoesForward'
  BY <1>1 DEF Inv, AtTheBroker, GoesForward, Asked
<1>4. QED
  BY <1>1, <1>2, <1>3, CallerFrame DEF Inv

---------------------------------------------------------------------------
\* Every step of callers, threads, vendors, administrators and faults keeps it.
LEMMA NextHolds == TypeOK /\ Inv /\ [Next]_vars => TypeOK' /\ Inv'
<1> SUFFICES ASSUME TypeOK, Inv, [Next]_vars PROVE TypeOK' /\ Inv'
  OBVIOUS
<1>1. ASSUME NEW c \in Callers, Caller(c) PROVE TypeOK' /\ Inv'
  BY <1>1, MenuStep, AnnounceStep, ClaimStep, DispatchStep DEF Caller
<1>2. ASSUME NEW c \in Callers, Crash(c) PROVE TypeOK' /\ Inv'
  BY <1>2, CrashStep
<1>3. ASSUME NEW c \in Callers, NEW t \in Catalogue, Adapter(c, t) \/ applies(c, t)
      PROVE  TypeOK' /\ Inv'
  BY <1>3, AdapterStep, AppliesStep
<1>4. CASE (\E t \in Revocable : Revoke(t)) \/ Deploy
  BY <1>4, OutsideStep
<1>5. CASE UNCHANGED vars
  BY <1>5, Stutter
<1>6. QED
  BY <1>1, <1>2, <1>3, <1>4, <1>5 DEF Next

\* The types, and the invariant all four properties rest on.
THEOREM Inductive == Spec => [](TypeOK /\ Inv)
BY InitHolds, NextHolds, PTL DEF Spec

\* However many callers ask for one effect, crash, give up or ask again, and
\* whenever the vendor gets to it: it is applied at most once.
THEOREM AppliedOnceHolds == Spec => []AppliedOnce
<1>1. Inv => AppliedOnce
  BY DEF Inv
<1>2. QED
  BY <1>1, Inductive, PTL

\* A recorded failed_clean or succeeded is true of the outside world from then on,
\* whatever the requests that were given up do.
THEOREM RecordIsTrueHolds == Spec => []RecordIsTrue
<1>1. Inv => RecordIsTrue
  BY DEF Inv
<1>2. QED
  BY <1>1, Inductive, PTL

\* No thread is ever started for what was withdrawn when it was asked for.
THEOREM RevokedIsNotUsedHolds == Spec => []RevokedIsNotUsed
<1>1. Inv => RevokedIsNotUsed
  BY DEF Inv
<1>2. QED
  BY <1>1, Inductive, PTL

---------------------------------------------------------------------------
\* What a caller leaves behind: the menu is fixed by the caller's kind, and every
\* destination passed over had its claim, its record or a refusal.

\* The loop over the destinations ends, or passes on to the next one that is due
\* and leaves its caller at the claim, past the refusal, or with an exception.
LEMMA AnnounceMoves ==
    ASSUME TypeOK, NEW c \in Callers, announce(c)
    PROVE  /\ \A d \in Callers : d # c => call'[d] = call[d]
           /\ call'[c].menu = call[c].menu
           /\ call[c].pc = "next" /\ UNCHANGED <<claims, execs>> /\ refusedAt \subseteq refusedAt'
           /\ \/ Left(c) = {} /\ call'[c].pc = "done"
              \/ \E i \in Left(c) :
                    /\ \A j \in Left(c) : i <= j
                    /\ call'[c].pc # "done"
                    /\ \/ call'[c].pc = "failed"
                       \/ call'[c].at = i
                       \/ /\ call'[c].at = i + 1
                          /\ LET t == Agenda(c)[i] IN
                             \/ tool_execution_key(c, t) \in DOMAIN execs
                             \/ <<c, t>> \in refusedAt'
                             \/ ~ArgumentsBind(c, t)
                             \/ t \notin resolve(c) /\ t \in grants /\ tools[t] # "disabled"
<1> USE DEF TypeOK, Invocation
<1>1. CASE Left(c) = {} /\ Goto(c, "done")
  BY <1>1 DEF announce, Goto
<1>2. CASE \E i \in Left(c) :
              /\ \A j \in Left(c) : i <= j
              /\ _authorize(c, i)
              /\ refusedAt' = IF Agenda(c)[i] \in grants \cap bindings
                                  /\ tools[Agenda(c)[i]] = "described" THEN refusedAt
                              ELSE refusedAt \cup {<<c, Agenda(c)[i]>>}
  <2>1. PICK i \in Left(c) :
              /\ \A j \in Left(c) : i <= j
              /\ _authorize(c, i)
              /\ refusedAt' = IF Agenda(c)[i] \in grants \cap bindings
                                  /\ tools[Agenda(c)[i]] = "described" THEN refusedAt
                              ELSE refusedAt \cup {<<c, Agenda(c)[i]>>}
    BY <1>2
  <2> DEFINE t == Agenda(c)[i]
  <2>2. refusedAt \subseteq refusedAt' /\ (t \notin bindings \/ t \notin grants \/ tools[t] = "disabled" => <<c, t>> \in refusedAt')
    BY <2>1
  <2>3. \A d \in Callers : d # c => call'[d] = call[d]
    BY <2>1 DEF _authorize
  <2>4. call'[c].menu = call[c].menu
    BY <2>1 DEF _authorize
  <2>5. call'[c].pc # "done"
    BY <2>1 DEF _authorize, announce
  <2>6. \/ call'[c].pc = "failed"
        \/ call'[c].at = i
        \/ call'[c].at = i + 1 /\ ~(t \in resolve(c) /\ t \in bindings /\ ArgumentsBind(c, t)
                                   /\ ~_from_recorded(c, t))
    BY <2>1 DEF _authorize
  <2>7. QED
    BY <2>1, <2>2, <2>3, <2>4, <2>5, <2>6 DEF announce, _from_recorded
<1>3. QED
  BY <1>1, <1>2 DEF announce

\* The caller's own step keeps the menu of what it is permitted.
LEMMA MenuStays ==
    ASSUME TypeOK, MenuIsPermitted, [Next]_vars
    PROVE  MenuIsPermitted'
<1>1. CASE \A c \in Callers : call'[c].menu = call[c].menu
  BY <1>1 DEF MenuIsPermitted
<1>2. CASE \E c \in Callers : menu_for(c)
  <2>1. PICK c \in Callers : menu_for(c)
    BY <1>2
  <2>2. \A d \in Callers : call'[d].menu \in {call[d].menu, resolve(d)}
    BY <2>1 DEF menu_for, TypeOK, Invocation
  <2>3. QED
    BY <2>2 DEF MenuIsPermitted, resolve
<1>3. CASE ~\E c \in Callers : menu_for(c)
  <2>1. ASSUME NEW c \in Callers, announce(c)
        PROVE  \A d \in Callers : call'[d].menu = call[d].menu
    BY <2>1, AnnounceMoves
  <2>2. \A c \in Callers : _claim_write(c) \/ _dispatch(c) \/ _invoke_with_deadline(c) \/ Crash(c)
            => \A d \in Callers : call'[d].menu = call[d].menu
    BY DEF _claim_write, _dispatch, _invoke_with_deadline, Record, Crash, Receive, Goto, TypeOK, Invocation
  <2>3. \A c \in Callers, t \in Catalogue : Adapter(c, t) \/ applies(c, t) => call' = call
    BY DEF Adapter, _find, deployment_rollback, connect, raise_for_status, applies, callers
  <2>4. (\E t \in Revocable : Revoke(t)) \/ Deploy \/ UNCHANGED vars => call' = call
    BY DEF Revoke, Deploy, callers, vars
  <2>5. \A d \in Callers : call'[d].menu = call[d].menu
    BY <1>3, <2>1, <2>2, <2>3, <2>4 DEF Next, Caller
  <2>6. QED
    BY <1>1, <2>5
<1>4. QED
  BY <1>2, <1>3

\* Claims and refusals only grow, so a step has to account for what its own
\* caller newly has behind it and for nothing else.
LEMMA SkipFrame ==
    ASSUME NothingSkipped, NEW c \in Callers,
           claims \subseteq claims', refusedAt \subseteq refusedAt',
           \A d \in Callers : d # c => call'[d] = call[d],
           call'[c].pc # "start",
           \A i \in 1 .. Len(Agenda(c)) :
               Behind(c, i)' /\ Due(c, Agenda(c)[i])' => Settled(c, Agenda(c)[i])'
    PROVE  NothingSkipped'
<1>1. ASSUME NEW d \in Callers, d # c
      PROVE  /\ call'[d].pc = "start" => call'[d].at = 1
             /\ \A i \in 1 .. Len(Agenda(d)) :
                   Behind(d, i)' /\ Due(d, Agenda(d)[i])' => Settled(d, Agenda(d)[i])'
  BY <1>1 DEF NothingSkipped, Behind, Due, Settled
<1>2. QED
  BY <1>1 DEF NothingSkipped

\* A step that leaves every caller where it was leaves nothing behind.
LEMMA SkipStill ==
    ASSUME NothingSkipped, UNCHANGED <<call, claims, refusedAt>>
    PROVE  NothingSkipped'
BY DEF NothingSkipped, Behind, Due, Settled

\* A caller that goes on after a claim has the claim behind it.
LEMMA SkipReceive ==
    ASSUME TypeOK, NothingSkipped, NEW c \in Callers, Receive(c),
           call[c].pc \in {"claim", "waiting"},
           tool_execution_key(c, Asked(c)) \in claims, UNCHANGED <<claims, refusedAt>>
    PROVE  NothingSkipped'
<1>1. /\ \A d \in Callers : d # c => call'[d] = call[d]
      /\ call'[c].pc = "next" /\ call'[c].at = call[c].at + 1 /\ call'[c].menu = call[c].menu
      /\ call[c].at \in Nat
  BY DEF Receive, TypeOK, Invocation
<1>2. ASSUME NEW i \in 1 .. Len(Agenda(c)), Behind(c, i)', Due(c, Agenda(c)[i])'
      PROVE  Settled(c, Agenda(c)[i])'
  <2>1. i \in Nat /\ (i < call[c].at \/ i = call[c].at)
    BY <1>1, <1>2, AgendaLength DEF Behind
  <2>2. Due(c, Agenda(c)[i])
    BY <1>1, <1>2 DEF Due
  <2>3. Settled(c, Agenda(c)[i])
    BY <2>1, <2>2 DEF NothingSkipped, Behind, Settled, Asked
  <2>4. QED
    BY <2>3 DEF Settled
<1>3. QED
  BY <1>1, <1>2, SkipFrame

\* A caller that raises or dies promises nothing.
LEMMA SkipLeaves ==
    ASSUME TypeOK, NothingSkipped, NEW c \in Callers, Goto(c, "failed") \/ Goto(c, "crashed"),
           UNCHANGED <<claims, refusedAt>>
    PROVE  NothingSkipped'
<1>1. (\A d \in Callers : d # c => call'[d] = call[d]) /\ call'[c].pc \in {"failed", "crashed"}
  BY DEF Goto, TypeOK, Invocation
<1>2. QED
  BY <1>1, SkipFrame DEF Behind

\* The loop over the destinations passes over what is not due, and past what was
\* recorded or refused.
LEMMA SkipAnnounce ==
    ASSUME TypeOK, Inv, MenuIsPermitted, NothingSkipped, NEW c \in Callers, announce(c)
    PROVE  NothingSkipped'
<1>1. /\ \A d \in Callers : d # c => call'[d] = call[d]
      /\ call'[c].menu = call[c].menu
      /\ call[c].pc = "next" /\ UNCHANGED <<claims, execs>> /\ refusedAt \subseteq refusedAt'
  BY AnnounceMoves
<1>2. call[c].at \in Nat /\ Len(Agenda(c)) \in Nat
  BY AgendaLength DEF TypeOK, Invocation
<1>3. \A i \in 1 .. Len(Agenda(c)) :
         Due(c, Agenda(c)[i]) /\ i \notin Left(c) => Settled(c, Agenda(c)[i])
  BY <1>1, <1>2 DEF NothingSkipped, Behind, Due, Left
<1>4. \A t : Due(c, t)' <=> Due(c, t)
  BY <1>1 DEF Due
<1>5. \A t : Settled(c, t) => Settled(c, t)'
  BY <1>1 DEF Settled
<1>6. call'[c].pc # "start"
  BY DEF announce, _authorize, Goto, TypeOK, Invocation
<1>7. ASSUME NEW i \in 1 .. Len(Agenda(c)), Behind(c, i)', Due(c, Agenda(c)[i])
      PROVE  Settled(c, Agenda(c)[i])'
  <2>1. CASE i \notin Left(c)
    BY <1>3, <1>5, <1>7, <2>1
  <2>2. CASE i \in Left(c)
    <3>1. PICK j \in Left(c) :
             /\ \A k \in Left(c) : j <= k
             /\ call'[c].pc # "done"
             /\ \/ call'[c].pc = "failed"
                \/ call'[c].at = j
                \/ /\ call'[c].at = j + 1
                   /\ LET t == Agenda(c)[j] IN
                      \/ tool_execution_key(c, t) \in DOMAIN execs
                      \/ <<c, t>> \in refusedAt'
                      \/ ~ArgumentsBind(c, t)
                      \/ t \notin resolve(c) /\ t \in grants /\ tools[t] # "disabled"
      BY <2>2, AnnounceMoves
    <3>2. j \in Nat /\ i \in Nat /\ j <= i
      BY <1>2, <2>2, <3>1 DEF Left
    <3>3. DOMAIN execs \subseteq claims
      BY DEF TypeOK
    <3>4. j = i /\ call'[c].at = j + 1 /\ call'[c].pc # "failed"
      BY <1>7, <3>1, <3>2 DEF Behind
    <3>5. Agenda(c)[i] \notin resolve(c) /\ Agenda(c)[i] \in grants => tools[Agenda(c)[i]] = "disabled"
      BY <1>7 DEF MenuIsPermitted, Due, resolve
    <3>6. tool_execution_key(c, Agenda(c)[i]) \in claims \/ <<c, Agenda(c)[i]>> \in refusedAt'
      BY <1>7, <3>1, <3>2, <3>3, <3>4, <3>5 DEF Due
    <3>7. QED
      BY <1>1, <3>6 DEF Settled
  <2>3. QED
    BY <2>1, <2>2
<1>8. QED
  BY <1>1, <1>4, <1>6, <1>7, SkipFrame

\* One step leaves nothing behind a caller that was due and did not come to a
\* claim or a refusal.
LEMMA SkipStep ==
    ASSUME TypeOK, Inv, MenuIsPermitted, NothingSkipped, [Next]_vars
    PROVE  NothingSkipped'
<1>1. ASSUME NEW c \in Callers, menu_for(c) PROVE NothingSkipped'
  <2>1. /\ \A d \in Callers : d # c => call'[d] = call[d]
        /\ call'[c].pc \in {"next", "failed"} /\ call'[c].at = 1
        /\ UNCHANGED <<claims, refusedAt>>
    BY <1>1 DEF menu_for, NothingSkipped, TypeOK, Invocation
  <2>2. QED
    BY <2>1, SkipFrame DEF Behind
<1>2. ASSUME NEW c \in Callers, _claim_write(c) PROVE NothingSkipped'
  <2>1. CASE tool_execution_key(c, Asked(c)) \in claims
    BY <1>2, <2>1, SkipReceive DEF _claim_write
  <2>2. CASE tool_execution_key(c, Asked(c)) \notin claims
    <3>1. /\ \A d \in Callers : d # c => call'[d] = call[d]
          /\ call[c].pc = "claim" /\ call' = [call EXCEPT ![c].pc = "waiting"]
          /\ claims \subseteq claims' /\ UNCHANGED refusedAt
      BY <1>2, <2>2 DEF _claim_write, Goto, TypeOK
    <3>2. call'[c].pc = "waiting" /\ call'[c].at = call[c].at /\ call'[c].menu = call[c].menu
      BY <3>1 DEF TypeOK, Invocation
    <3>3. \A i \in 1 .. Len(Agenda(c)) :
             Behind(c, i)' /\ Due(c, Agenda(c)[i])' => Settled(c, Agenda(c)[i])'
      BY <3>1, <3>2 DEF NothingSkipped, Behind, Due, Settled
    <3>4. QED
      BY <3>1, <3>2, <3>3, SkipFrame
  <2>3. QED
    BY <2>1, <2>2
<1>3. ASSUME NEW c \in Callers, _dispatch(c) \/ _invoke_with_deadline(c) PROVE NothingSkipped'
  <2>1. /\ call[c].pc = "waiting" /\ UNCHANGED <<claims, refusedAt>>
        /\ Receive(c) \/ Goto(c, "failed")
    BY <1>3 DEF _dispatch, _invoke_with_deadline, Record
  <2>2. tool_execution_key(c, Asked(c)) \in claims
    BY <2>1 DEF Inv, AtTheBroker, ClaimDiscipline
  <2>3. QED
    BY <2>1, <2>2, SkipReceive, SkipLeaves
<1>4. ASSUME NEW c \in Callers, Crash(c) PROVE NothingSkipped'
  BY <1>4, SkipLeaves DEF Crash
<1>5. ASSUME NEW c \in Callers, NEW t \in Catalogue, Adapter(c, t) \/ applies(c, t)
      PROVE  NothingSkipped'
  BY <1>5, SkipStill DEF Adapter, _find, deployment_rollback, connect, raise_for_status, applies, callers
<1>6. CASE (\E t \in Revocable : Revoke(t)) \/ Deploy \/ UNCHANGED vars
  BY <1>6, SkipStill DEF Revoke, Deploy, callers, vars
<1>7. QED
  BY <1>1, <1>2, <1>3, <1>4, <1>5, <1>6, SkipAnnounce DEF Next, Caller

\* However callers race, crash and are refused, and whatever their deliveries come
\* to: an announcement that ended has every destination that was due claimed,
\* recorded or withdrawn.
THEOREM EveryDestinationTriedHolds == Spec => []EveryDestinationTried
<1>1. Init => MenuIsPermitted /\ NothingSkipped
  BY DEF Init, MenuIsPermitted, NothingSkipped, Behind
<1>2. TypeOK /\ Inv /\ MenuIsPermitted /\ NothingSkipped /\ [Next]_vars
         => (MenuIsPermitted /\ NothingSkipped)'
  BY MenuStays, SkipStep
<1>3. NothingSkipped => EveryDestinationTried
  BY DEF NothingSkipped, EveryDestinationTried, Behind
<1>4. QED
  BY <1>1, <1>2, <1>3, Inductive, PTL DEF Spec
===========================================================================
