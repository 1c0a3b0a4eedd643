---------------------- MODULE InvestigationRun_proofs ----------------------
(***************************************************************************)
(* One request opens one run and no model call is paid for twice, for any  *)
(* workers, answers, budgets and faults.  Until a worker loses its item    *)
(* lock at work, one pass at a time drives the run, a cause is named on    *)
(* grounds and the calls are accounted for.                                *)
(***************************************************************************)
EXTENDS InvestigationRun, FiniteSetTheorems, WellFoundedInduction, TLAPS

-----------------------------------------------------------------------------
(* Ledgers.                                                                *)

\* Charging adds up, dimension by dimension.
LEMMA ChargeAdds ==
    ASSUME NEW l \in BudgetLedger, NEW c \in BudgetLedger
    PROVE  charge(l, c) \in BudgetLedger /\ charge(l, c).tokens = l.tokens + c.tokens
BY DEF charge, BudgetLedger

\* What one iteration, n tokens or n tool calls cost.
LEMMA Costs ==
    ASSUME NEW n \in Nat
    PROVE  /\ NoCharge \in BudgetLedger /\ NoCharge.tokens = 0
           /\ Iteration \in BudgetLedger /\ Iteration.tokens = 0
           /\ Tokens(n) \in BudgetLedger /\ Tokens(n).tokens = n
           /\ ToolCalls(n) \in BudgetLedger /\ ToolCalls(n).tokens = 0
BY DEF NoCharge, Iteration, Tokens, ToolCalls, BudgetLedger

\* A call that was let through leaves the budget a token.
LEMMA HeadroomLeavesRoom ==
    ASSUME NEW l \in BudgetLedger, require_headroom(l, Tokens(1), late, Policy)
    PROVE  l.tokens + 1 < Policy.tokens
<1>1. /\ charge(l, Tokens(1)).tokens = l.tokens + 1
      /\ charge(l, Tokens(1)) \in BudgetLedger
  BY ChargeAdds, Costs
<1>2. Policy.tokens \in Nat
  BY PolicyAssumption DEF NoCharge
<1>3. "tokens" \in DOMAIN charge(l, Tokens(1))
  BY <1>1 DEF BudgetLedger
<1>4. ~(charge(l, Tokens(1)).tokens >= Policy.tokens)
  BY <1>3 DEF require_headroom, refusal_kinds, exhausted_kinds
<1>5. QED
  BY <1>1, <1>2, <1>4 DEF BudgetLedger

-----------------------------------------------------------------------------
(* Types.                                                                  *)

\* A pass begins with nothing, and so does what it hands on.
LEMMA InitialStateOK ==
    ASSUME NEW place
    PROVE  StateOK(InitialState) /\ CallOK(InitialState, place)
<1>1. NoCharge \in BudgetLedger
  BY Costs
<1>2. QED
  BY <1>1 DEF StateOK, CallOK, InitialState, CallStates

\* The checkpoint of a well-formed state.
LEMMA SerialiseOK ==
    ASSUME NEW s, StateOK(s)
    PROVE  /\ DOMAIN serialise(s) = EphemeralKeys
           /\ \A k \in EphemeralKeys : serialise(s)[k] = s[k]
           /\ serialise(s).iteration \in Nat
           /\ serialise(s).ledger = s.ledger
           /\ serialise(s).refusal \in BOOLEAN
BY DEF serialise, StateOK, EphemeralKeys, InitialState

\* What a resuming pass starts from.
LEMMA RehydrateOK ==
    ASSUME TypeOK
    PROVE  /\ StateOK(rehydrate) /\ \A place : CallOK(rehydrate, place)
           /\ rehydrate.ledger = ckpt.ledger
           /\ rehydrate.hyps = hyps
           /\ rehydrate.unrecoverable = FALSE
           /\ rehydrate.call = "ask"
<1>1. /\ DOMAIN rehydrate = DOMAIN InitialState
      /\ rehydrate.iteration = ckpt.iteration /\ rehydrate.ledger = ckpt.ledger
      /\ rehydrate.refusal = ckpt.refusal /\ rehydrate.unrecoverable = FALSE
      /\ rehydrate.opened = FALSE /\ rehydrate.steps = steps /\ rehydrate.hyps = hyps
      /\ rehydrate.call = "ask" /\ rehydrate.attempt = 1 /\ rehydrate.spent = 0
      /\ rehydrate.response = NoResponse
  BY DEF rehydrate, EphemeralKeys, InitialState, _load_hypotheses
<1>2. StateOK(rehydrate)
  BY <1>1 DEF TypeOK, StateOK
<1>3. \A place : CallOK(rehydrate, place)
  BY <1>1 DEF CallOK, CallStates
<1>4. QED
  BY <1>1, <1>2, <1>3

\* One pass moves and the others stay where they are.
LEMMA PassMoves ==
    ASSUME TypeOK, NEW w \in Workers, NEW s, NEW p \in Places,
           st' = [st EXCEPT ![w] = s] \/ (st' = st /\ s = st[w]),
           pc' = [pc EXCEPT ![w] = p] \/ (pc' = pc /\ p = pc[w]),
           StateOK(s), CallOK(s, p)
    PROVE  /\ pc' \in [Workers -> Places] /\ DOMAIN st' = Workers
           /\ st'[w] = s /\ pc'[w] = p
           /\ \A v \in Workers \ {w} : st'[v] = st[v] /\ pc'[v] = pc[v]
           /\ \A v \in Workers : StateOK(st'[v]) /\ CallOK(st'[v], pc'[v])
<1>1. /\ pc' \in [Workers -> Places] /\ DOMAIN st' = Workers /\ st'[w] = s /\ pc'[w] = p
      /\ \A v \in Workers \ {w} : st'[v] = st[v] /\ pc'[v] = pc[v]
  BY DEF TypeOK
<1>2. QED
  BY <1>1 DEF TypeOK

\* Before anybody looks at the request everything is well formed.
LEMMA TypeInit == Init => TypeOK
<1> SUFFICES ASSUME Init PROVE TypeOK
  OBVIOUS
<1>1. NoCharge \in BudgetLedger
  BY Costs
<1>2. /\ DOMAIN ckpt = EphemeralKeys
      /\ ckpt.iteration \in Nat /\ ckpt.ledger \in BudgetLedger /\ ckpt.refusal \in BOOLEAN
  <2>1. StateOK(InitialState)
    BY InitialStateOK
  <2>2. QED
    BY <2>1, SerialiseOK DEF Init, StateOK
<1>3. /\ pc \in [Workers -> Places] /\ DOMAIN st = Workers
      /\ \A w \in Workers : StateOK(st[w]) /\ CallOK(st[w], pc[w])
  BY InitialStateOK DEF Init, Places
<1>4. /\ DOMAIN resv \subseteq Keys
      /\ resv \in [DOMAIN resv -> [status : {"reserved", "completed"}, response : Answers]]
      /\ \A k \in DOMAIN resv : resv[k].response \in Outputs(k[1]) \cup {NoResponse}
  BY DEF Init
<1>5. steps \in Seq(Step) /\ calls \in Seq(Keys) /\ lost \in Nat /\ stalled \in BOOLEAN
  <2>1. stalled \in BOOLEAN
    BY Zenon DEF Init
  <2>2. QED
    BY <2>1 DEF Init
<1>6. hyps \in Seq(Hypothesis) /\ \A i \in DOMAIN hyps : hyps[i].id = i
  BY DEF Init
<1>7. dispatch \in [status : {"pending", "completed", "terminal"}, linked : BOOLEAN,
                   attempts : Nat]
  BY DEF Init
<1>8. run \in [status : {"none", "running", "completed", "dead_lettered"},
              owner : Workers \cup {None, Dead}, expired : BOOLEAN, ledger : BudgetLedger]
  BY <1>1 DEF Init
<1>9. /\ incident \in IncidentStatus /\ itemLock \in Workers \cup {None} /\ late \in BOOLEAN
      /\ execs \in [Menu -> {"none", "succeeded", "failed"}]
  BY DEF Init, IncidentStatus
<1>10. QED
  BY <1>2, <1>3, <1>4, <1>5, <1>6, <1>7, <1>8, <1>9 DEF TypeOK

-----------------------------------------------------------------------------
\* The worker and the dispatcher change the dispatch row and where the pass is.
LEMMA DispatchType ==
    ASSUME TypeOK, NEW w \in Workers,
           \/ Discover(w) \/ ClaimItem(w) \/ Dispatch(w) \/ StartRefused(w) \/ FollowLink(w)
           \/ DispatchFailed(w) \/ MarkCompleted(w) \/ ResumeRefused(w)
    PROVE  /\ TypeOK'
           /\ pc[w] \notin Nodes /\ pc'[w] \notin Nodes
           /\ \A v \in Workers \ {w} : st'[v] = st[v] /\ pc'[v] = pc[v]
           /\ st'[w].call = "ask"
           /\ dispatch'.linked = dispatch.linked
           /\ UNCHANGED <<incident, run, ckpt, rows, resv, late, history, budgets>>
<1>1. UNCHANGED <<incident, run, ckpt, rows, resv, late, history, budgets>>
  BY DEF Discover, ClaimItem, Dispatch, StartRefused, FollowLink, DispatchFailed, MarkCompleted,
         ResumeRefused
<1>2. PICK p \in {"idle", "found", "claimed", "starting", "linked", "resuming", "failed"} :
          pc' = [pc EXCEPT ![w] = p]
  BY DEF Discover, ClaimItem, Dispatch, StartRefused, FollowLink, DispatchFailed, MarkCompleted,
         ResumeRefused, Leave, Goto
<1>3. PICK s : /\ s \in {st[w], InitialState}
               /\ st' = [st EXCEPT ![w] = s] \/ (st' = st /\ s = st[w])
  BY DEF Discover, ClaimItem, Dispatch, StartRefused, FollowLink, DispatchFailed, MarkCompleted,
         ResumeRefused, Leave
<1>4. pc[w] \notin Nodes
  BY DEF Discover, ClaimItem, Dispatch, StartRefused, FollowLink, DispatchFailed, MarkCompleted,
         ResumeRefused, Nodes
<1>5. StateOK(s) /\ CallOK(s, p) /\ s.call = "ask"
  <2>1. CASE s = InitialState
    BY <2>1, InitialStateOK DEF InitialState
  <2>2. CASE s = st[w]
    BY <1>2, <1>4, <2>2 DEF TypeOK, CallOK, AskingNodes, Nodes
  <2>3. QED
    BY <1>3, <2>1, <2>2
<1>6. p \in Places /\ p \notin Nodes
  BY <1>2 DEF Places, Nodes
<1>7. /\ pc' \in [Workers -> Places] /\ DOMAIN st' = Workers
      /\ st'[w] = s /\ pc'[w] = p
      /\ \A v \in Workers \ {w} : st'[v] = st[v] /\ pc'[v] = pc[v]
      /\ \A v \in Workers : StateOK(st'[v]) /\ CallOK(st'[v], pc'[v])
  BY <1>2, <1>3, <1>5, <1>6, PassMoves
<1>8. /\ itemLock' \in Workers \cup {None}
      /\ dispatch' \in [status : {"pending", "completed", "terminal"}, linked : BOOLEAN,
                        attempts : Nat]
      /\ dispatch'.linked = dispatch.linked
  <2>1. CASE DispatchFailed(w)
    <3>1. PICK x \in {"pending", "completed", "terminal"} :
              dispatch' = [dispatch EXCEPT !.status = x]
      BY <2>1 DEF DispatchFailed, TypeOK
    <3>2. QED
      BY <2>1, <3>1 DEF DispatchFailed, Leave, TypeOK
  <2>2. CASE Dispatch(w)
    <3>1. itemLock' \in Workers \cup {None}
      BY <2>2 DEF Dispatch, Leave, TypeOK
    <3>2. dispatch' \in {dispatch,
                        [dispatch EXCEPT !.attempts = @ + 1, !.status = "terminal"],
                        [dispatch EXCEPT !.attempts = @ + 1],
                        [dispatch EXCEPT !.status = "completed"]}
      BY <2>2 DEF Dispatch
    <3>3. dispatch \in [status : {"pending", "completed", "terminal"}, linked : BOOLEAN,
                       attempts : Nat]
      BY DEF TypeOK
    <3>4. CASE dispatch' = dispatch
      BY <3>1, <3>3, <3>4
    <3>5. CASE dispatch' = [dispatch EXCEPT !.attempts = @ + 1, !.status = "terminal"]
      <4>1. dispatch' = [status |-> "terminal", linked |-> dispatch.linked,
                         attempts |-> dispatch.attempts + 1]
        BY <3>3, <3>5
      <4>2. QED
        BY <3>1, <3>3, <4>1
    <3>6. CASE dispatch' = [dispatch EXCEPT !.attempts = @ + 1]
      BY <3>1, <3>3, <3>6
    <3>7. CASE dispatch' = [dispatch EXCEPT !.status = "completed"]
      BY <3>1, <3>3, <3>7
    <3>8. QED
      BY <3>2, <3>4, <3>5, <3>6, <3>7
  <2>3. CASE ~DispatchFailed(w) /\ ~Dispatch(w)
    BY <2>3 DEF Discover, ClaimItem, StartRefused, FollowLink, MarkCompleted, ResumeRefused,
                Leave, TypeOK
  <2>4. QED
    BY <2>1, <2>2, <2>3
<1>9. TypeOK'
  BY <1>1, <1>7, <1>8 DEF TypeOK, rows, history
<1>10. QED
  BY <1>1, <1>4, <1>5, <1>6, <1>7, <1>8, <1>9

\* Opening the run.
LEMMA StartType ==
    ASSUME TypeOK, NEW w \in Workers, Start(w)
    PROVE  /\ TypeOK'
           /\ pc[w] \notin Nodes /\ pc'[w] = "coordinator"
           /\ st'[w] = [InitialState EXCEPT !.opened = TRUE]
           /\ \A v \in Workers \ {w} : st'[v] = st[v] /\ pc'[v] = pc[v]
           /\ ckpt' = serialise(InitialState) /\ ckpt'.ledger = NoCharge
           /\ st'[w].call = "ask" /\ st'[w].ledger = NoCharge /\ st'[w].hyps = <<>>
           /\ st'[w].unrecoverable = FALSE
<1> DEFINE s == [InitialState EXCEPT !.opened = TRUE]
<1>1. StateOK(s) /\ CallOK(s, "coordinator")
  <2>1. StateOK(InitialState) /\ CallOK(InitialState, "coordinator")
    BY InitialStateOK
  <2>2. QED
    BY <2>1 DEF StateOK, CallOK, InitialState
<1>2. /\ pc' \in [Workers -> Places] /\ DOMAIN st' = Workers
      /\ st'[w] = s /\ pc'[w] = "coordinator"
      /\ \A v \in Workers \ {w} : st'[v] = st[v] /\ pc'[v] = pc[v]
      /\ \A v \in Workers : StateOK(st'[v]) /\ CallOK(st'[v], pc'[v])
  <2>1. "coordinator" \in Places
    BY DEF Places, Nodes
  <2> HIDE DEF s
  <2>2. st' = [st EXCEPT ![w] = s] /\ pc' = [pc EXCEPT ![w] = "coordinator"]
    BY DEF Start, Goto, s
  <2>3. QED
    BY <1>1, <2>1, <2>2, PassMoves
<1>3. /\ DOMAIN ckpt' = EphemeralKeys
      /\ ckpt'.iteration \in Nat /\ ckpt'.ledger = NoCharge /\ ckpt'.refusal \in BOOLEAN
  <2>1. StateOK(InitialState) /\ InitialState.ledger = NoCharge
    BY InitialStateOK DEF InitialState
  <2>2. QED
    BY <2>1, SerialiseOK DEF Start
<1>4. NoCharge \in BudgetLedger
  BY Costs
<1>5. TypeOK'
  BY <1>2, <1>3, <1>4 DEF Start, TypeOK, rows, budgets, IncidentStatus
<1>6. QED
  BY <1>2, <1>3, <1>5 DEF Start, InitialState, Nodes

\* Taking a run up again.
LEMMA ResumeType ==
    ASSUME TypeOK, NEW w \in Workers, Resume(w)
    PROVE  /\ TypeOK'
           /\ pc[w] \notin Nodes /\ pc'[w] = "coordinator"
           /\ st'[w] = rehydrate
           /\ \A v \in Workers \ {w} : st'[v] = st[v] /\ pc'[v] = pc[v]
<1>1. StateOK(rehydrate) /\ CallOK(rehydrate, "coordinator")
  BY RehydrateOK
<1>2. /\ pc' \in [Workers -> Places] /\ DOMAIN st' = Workers
      /\ st'[w] = rehydrate /\ pc'[w] = "coordinator"
      /\ \A v \in Workers \ {w} : st'[v] = st[v] /\ pc'[v] = pc[v]
      /\ \A v \in Workers : StateOK(st'[v]) /\ CallOK(st'[v], pc'[v])
  <2>1. "coordinator" \in Places
    BY DEF Places, Nodes
  <2>2. QED
    BY <1>1, <2>1, PassMoves DEF Resume, Goto
<1>3. TypeOK'
  BY <1>2 DEF Resume, TypeOK, rows, history, budgets
<1>4. QED
  BY <1>2, <1>3 DEF Resume, Nodes

-----------------------------------------------------------------------------
(***************************************************************************)
(* A node boundary: what the pass hands on is what the checkpoint and the  *)
(* run's row get.                                                          *)
(***************************************************************************)
LEMMA CommitType ==
    ASSUME TypeOK, NEW w \in Workers, NEW s, NEW next \in Nodes, StateOK(s),
           CommitNode(w, s, next),
           steps' \in Seq(Step), execs' \in [Menu -> {"none", "succeeded", "failed"}],
           hyps' \in Seq(Hypothesis), \A i \in DOMAIN hyps' : hyps'[i].id = i
    PROVE  /\ TypeOK'
           /\ pc'[w] = next
           /\ st'[w].call = "ask" /\ st'[w].attempt = 1 /\ st'[w].spent = 0
           /\ \A k \in DOMAIN InitialState \ {"call", "attempt", "spent", "response"} :
                 st'[w][k] = s[k]
           /\ \A v \in Workers \ {w} : st'[v] = st[v] /\ pc'[v] = pc[v]
           /\ ckpt'.ledger = s.ledger /\ run' = [run EXCEPT !.ledger = s.ledger, !.expired = FALSE]
           /\ UNCHANGED <<dispatch, resv, calls, lost, started, verdict>>
<1> DEFINE t == [s EXCEPT !.call = "ask", !.attempt = 1, !.spent = 0, !.response = NoResponse]
<1>1. /\ DOMAIN t = DOMAIN InitialState
      /\ t.call = "ask" /\ t.attempt = 1 /\ t.spent = 0 /\ t.response = NoResponse
      /\ \A k \in DOMAIN InitialState \ {"call", "attempt", "spent", "response"} : t[k] = s[k]
  BY DEF StateOK, InitialState
<1>2. /\ st' = [st EXCEPT ![w] = t] /\ pc' = [pc EXCEPT ![w] = next]
      /\ ckpt' = serialise(s) /\ run' = [run EXCEPT !.ledger = s.ledger, !.expired = FALSE]
      /\ UNCHANGED <<dispatch, incident, resv, itemLock, late, history, budgets>>
  BY DEF CommitNode, Goto, WriteCheckpoint, _record_progress
<1> HIDE DEF t
<1>3. StateOK(t) /\ CallOK(t, next)
  <2>1. /\ t.iteration = s.iteration /\ t.ledger = s.ledger /\ t.refusal = s.refusal
        /\ t.unrecoverable = s.unrecoverable /\ t.opened = s.opened
        /\ t.steps = s.steps /\ t.hyps = s.hyps
    BY <1>1 DEF InitialState
  <2>2. QED
    BY <1>1, <2>1 DEF StateOK, CallOK, CallStates
<1>4. /\ pc' \in [Workers -> Places] /\ DOMAIN st' = Workers
      /\ st'[w] = t /\ pc'[w] = next
      /\ \A v \in Workers \ {w} : st'[v] = st[v] /\ pc'[v] = pc[v]
      /\ \A v \in Workers : StateOK(st'[v]) /\ CallOK(st'[v], pc'[v])
  <2>1. next \in Places
    BY DEF Places
  <2>2. QED
    BY <1>2, <1>3, <2>1, PassMoves
<1>5. /\ DOMAIN ckpt' = EphemeralKeys
      /\ ckpt'.iteration \in Nat /\ ckpt'.ledger = s.ledger /\ ckpt'.refusal \in BOOLEAN
  BY <1>2, SerialiseOK
<1>6. TypeOK'
  BY <1>2, <1>4, <1>5 DEF TypeOK, StateOK, history
<1>7. QED
  BY <1>1, <1>2, <1>4, <1>5, <1>6 DEF history

\* An exception out of a node.
LEMMA DeadLetterType ==
    ASSUME TypeOK, NEW w \in Workers, DeadLetter(w)
    PROVE  /\ TypeOK'
           /\ pc'[w] = "failed" /\ st'[w].call = "ask"
           /\ \A v \in Workers \ {w} : st'[v] = st[v] /\ pc'[v] = pc[v]
           /\ run'.status = "dead_lettered" /\ lost' = lost + 1
           /\ UNCHANGED <<dispatch, ckpt, hyps, resv, calls, started, verdict>>
<1>1. /\ pc' \in [Workers -> Places] /\ DOMAIN st' = Workers
      /\ st'[w] = InitialState /\ pc'[w] = "failed"
      /\ \A v \in Workers \ {w} : st'[v] = st[v] /\ pc'[v] = pc[v]
      /\ \A v \in Workers : StateOK(st'[v]) /\ CallOK(st'[v], pc'[v])
  <2>1. "failed" \in Places
    BY DEF Places
  <2>2. QED
    BY <2>1, InitialStateOK, PassMoves DEF DeadLetter, Goto
<1>2. /\ run' \in [status : {"none", "running", "completed", "dead_lettered"},
                  owner : Workers \cup {None, Dead}, expired : BOOLEAN, ledger : BudgetLedger]
      /\ run'.status = "dead_lettered" /\ lost' = lost + 1 /\ lost' \in Nat
  <2>1. run' = [status |-> "dead_lettered", owner |-> None, expired |-> FALSE,
                ledger |-> run.ledger]
    BY DEF DeadLetter, TypeOK
  <2>2. run.ledger \in BudgetLedger /\ lost \in Nat
    BY DEF TypeOK
  <2>3. lost' = lost + 1
    BY DEF DeadLetter
  <2>4. QED
    BY <2>1, <2>2, <2>3
<1>3. UNCHANGED <<dispatch, incident, ckpt, steps, execs, hyps, resv, itemLock, late, calls,
                  started, stalled, verdict>>
  BY DEF DeadLetter, rows
<1>4. TypeOK'
  BY <1>1, <1>2, <1>3 DEF TypeOK
<1>5. QED
  BY <1>1, <1>2, <1>3, <1>4 DEF InitialState

(***************************************************************************)
(* A step of a model call changes nothing of the pass but the call.        *)
(***************************************************************************)
LEMMA CallMoves ==
    ASSUME TypeOK, NEW w \in Workers, NEW s, pc[w] \in AskingNodes,
           st' = [st EXCEPT ![w] = s], UNCHANGED pc,
           DOMAIN s = DOMAIN InitialState,
           \A k \in DOMAIN InitialState \ {"call", "attempt", "spent", "response"} :
               s[k] = st[w][k],
           CallOK(s, pc[w])
    PROVE  /\ pc' \in [Workers -> Places] /\ DOMAIN st' = Workers
           /\ st'[w] = s /\ pc'[w] = pc[w]
           /\ \A v \in Workers \ {w} : st'[v] = st[v] /\ pc'[v] = pc[v]
           /\ \A v \in Workers : StateOK(st'[v]) /\ CallOK(st'[v], pc'[v])
<1>1. StateOK(s)
  <2>1. /\ s.iteration = st[w].iteration /\ s.ledger = st[w].ledger
        /\ s.refusal = st[w].refusal /\ s.unrecoverable = st[w].unrecoverable
        /\ s.opened = st[w].opened /\ s.steps = st[w].steps /\ s.hyps = st[w].hyps
    BY DEF InitialState
  <2>2. StateOK(st[w])
    BY DEF TypeOK
  <2>3. QED
    BY <2>1, <2>2 DEF StateOK
<1>2. pc[w] \in Places
  BY DEF TypeOK
<1>3. QED
  BY <1>1, <1>2, PassMoves

\* The key of a pass that asks the model.
LEMMA KeyType ==
    ASSUME TypeOK, NEW w \in Workers, pc[w] \in AskingNodes
    PROVE  InvocationKey(w) \in Keys /\ InvocationKey(w)[1] = pc[w]
<1>1. st[w].iteration \in Nat /\ st[w].attempt \in {1, 2}
  BY DEF TypeOK, StateOK, CallOK
<1>2. QED
  BY <1>1 DEF InvocationKey, Keys

\* A call is under way only in a node that asks the model.
LEMMA AsksInNode ==
    ASSUME TypeOK, NEW w \in Workers, st[w].call # "ask" \/ AsksModel(w)
    PROVE  pc[w] \in AskingNodes
BY DEF TypeOK, CallOK, AsksModel, AskingNodes

\* Looking for the reservation of the key.
LEMMA LookupType ==
    ASSUME TypeOK, NEW w \in Workers, Lookup(w)
    PROVE  /\ TypeOK'
           /\ pc[w] \in AskingNodes /\ st[w].call = "ask"
           /\ st'[w].call \in {"reserve", "answer", "permanent"}
           /\ \A k \in DOMAIN InitialState \ {"call", "response"} : st'[w][k] = st[w][k]
           /\ \A v \in Workers \ {w} : st'[v] = st[v]
           /\ UNCHANGED <<dispatch, run, ckpt, hyps, resv, pc, history>>
<1>1. pc[w] \in AskingNodes /\ st[w].call = "ask"
  BY AsksInNode DEF Lookup
<1>2. PICK c \in {"reserve", "answer", "permanent"}, r \in Outputs(pc[w]) \cup {NoResponse} :
          st' = [st EXCEPT ![w] = [st[w] EXCEPT !.call = c, !.response = r]]
  <2> DEFINE k == InvocationKey(w)
  <2>1. st[w].response \in Outputs(pc[w]) \cup {NoResponse}
    BY DEF TypeOK, CallOK
  <2>2. DOMAIN st[w] = DOMAIN InitialState
    BY DEF TypeOK, StateOK
  <2>3. CASE Reservation(k).status = "completed"
    <3>1. k \in DOMAIN resv /\ Reservation(k) = resv[k]
      BY <2>3 DEF Reservation, NoReservation
    <3>2. k[1] = pc[w]
      BY <1>1, KeyType
    <3>3. resv[k].response \in Outputs(pc[w]) \cup {NoResponse}
      BY <3>1, <3>2 DEF TypeOK
    <3>4. st' = [st EXCEPT ![w] = [st[w] EXCEPT !.call = "answer", !.response = resv[k].response]]
      BY <2>3, <3>1 DEF Lookup
    <3>5. QED
      BY <3>3, <3>4
  <2>4. CASE Reservation(k).status # "completed"
    <3>1. PICK c \in {"reserve", "permanent"} : st' = [st EXCEPT ![w] = [st[w] EXCEPT !.call = c]]
      BY <2>4 DEF Lookup, SetCall
    <3>2. [st[w] EXCEPT !.call = c] = [st[w] EXCEPT !.call = c, !.response = st[w].response]
      BY <2>2 DEF InitialState
    <3>3. QED
      BY <2>1, <3>1, <3>2
  <2>5. QED
    BY <2>3, <2>4
<1> DEFINE s == [st[w] EXCEPT !.call = c, !.response = r]
<1>3. /\ DOMAIN s = DOMAIN InitialState /\ s.call = c /\ s.response = r
      /\ \A k \in DOMAIN InitialState \ {"call", "response"} : s[k] = st[w][k]
  BY DEF TypeOK, StateOK, InitialState
<1> HIDE DEF s
<1>4. CallOK(s, pc[w])
  <2>1. s.attempt = st[w].attempt /\ s.spent = st[w].spent
    BY <1>3 DEF InitialState
  <2>2. CallOK(st[w], pc[w])
    BY DEF TypeOK
  <2>3. QED
    BY <1>1, <1>2, <1>3, <2>1, <2>2 DEF CallOK, CallStates
<1>5. UNCHANGED <<dispatch, incident, run, ckpt, rows, resv, pc, itemLock, late, history, budgets>>
  BY DEF Lookup
<1>6. /\ pc' \in [Workers -> Places] /\ DOMAIN st' = Workers
      /\ st'[w] = s
      /\ \A v \in Workers \ {w} : st'[v] = st[v]
      /\ \A v \in Workers : StateOK(st'[v]) /\ CallOK(st'[v], pc'[v])
  <2>1. st' = [st EXCEPT ![w] = s]
    BY <1>2 DEF s
  <2>2. QED
    BY <1>1, <1>3, <1>4, <1>5, <2>1, CallMoves
<1>7. TypeOK'
  BY <1>5, <1>6 DEF TypeOK, rows, history
<1>8. QED
  BY <1>1, <1>2, <1>3, <1>5, <1>6, <1>7 DEF rows

\* The three ways a reservation can go.
LEMMA ReserveForms ==
    ASSUME TypeOK, NEW w \in Workers, Reserve(w)
    PROVE  /\ pc[w] \in AskingNodes /\ st[w].call = "reserve"
           /\ \/ /\ st' = [st EXCEPT ![w] = [st[w] EXCEPT !.call = "exhausted"]]
                 /\ UNCHANGED <<dispatch, incident, run, ckpt, rows, resv, pc, itemLock, late,
                                history>>
              \/ /\ st' = [st EXCEPT ![w] = [st[w] EXCEPT !.call = "call"]]
                 /\ InvocationKey(w) \notin DOMAIN resv
                 /\ resv' = Reserved(InvocationKey(w))
                 /\ run' = [run EXCEPT !.ledger = charge(run.ledger, Tokens(1))]
                 /\ run.ledger.tokens + 1 < Policy.tokens
                 /\ UNCHANGED <<dispatch, incident, ckpt, rows, pc, itemLock, late, history>>
              \/ DeadLetter(w)
<1>1. st[w].call = "reserve" /\ pc[w] \in AskingNodes
  BY AsksInNode DEF Reserve
<1>2. run.ledger \in BudgetLedger
  BY DEF TypeOK
<1>3. QED
  BY <1>1, <1>2, HeadroomLeavesRoom DEF Reserve, SetCall

\* Changing how far the call has come.
LEMMA CallAdvances ==
    ASSUME TypeOK, NEW w \in Workers, pc[w] \in AskingNodes,
           NEW c \in CallStates \ {"schema"}, NEW r \in Outputs(pc[w]) \cup {NoResponse},
           st[w].call # "schema",
           st' = [st EXCEPT ![w] = [st[w] EXCEPT !.call = c, !.response = r]], UNCHANGED pc
    PROVE  /\ pc' \in [Workers -> Places] /\ DOMAIN st' = Workers
           /\ st'[w].call = c /\ st'[w].response = r
           /\ \A k \in DOMAIN InitialState \ {"call", "response"} : st'[w][k] = st[w][k]
           /\ \A v \in Workers \ {w} : st'[v] = st[v]
           /\ \A v \in Workers : StateOK(st'[v]) /\ CallOK(st'[v], pc'[v])
<1> DEFINE s == [st[w] EXCEPT !.call = c, !.response = r]
<1>1. /\ DOMAIN s = DOMAIN InitialState /\ s.call = c /\ s.response = r
      /\ \A k \in DOMAIN InitialState \ {"call", "response"} : s[k] = st[w][k]
  BY DEF TypeOK, StateOK, InitialState
<1> HIDE DEF s
<1>2. CallOK(s, pc[w])
  <2>1. s.attempt = st[w].attempt /\ s.spent = st[w].spent
    BY <1>1 DEF InitialState
  <2>2. CallOK(st[w], pc[w])
    BY DEF TypeOK
  <2>3. QED
    BY <1>1, <2>1, <2>2 DEF CallOK
<1>3. st' = [st EXCEPT ![w] = s]
  BY DEF s
<1>4. QED
  BY <1>1, <1>2, <1>3, CallMoves

\* The same, with the answer left as it is.
LEMMA CallAdvancesOnly ==
    ASSUME TypeOK, NEW w \in Workers, pc[w] \in AskingNodes,
           NEW c \in CallStates \ {"schema"}, st[w].call # "schema",
           st' = [st EXCEPT ![w] = [st[w] EXCEPT !.call = c]], UNCHANGED pc
    PROVE  /\ pc' \in [Workers -> Places] /\ DOMAIN st' = Workers
           /\ st'[w].call = c /\ st'[w].response = st[w].response
           /\ \A k \in DOMAIN InitialState \ {"call", "response"} : st'[w][k] = st[w][k]
           /\ \A v \in Workers \ {w} : st'[v] = st[v]
           /\ \A v \in Workers : StateOK(st'[v]) /\ CallOK(st'[v], pc'[v])
<1>1. st[w].response \in Outputs(pc[w]) \cup {NoResponse}
  BY DEF TypeOK, CallOK
<1>2. DOMAIN st[w] = DOMAIN InitialState
  BY DEF TypeOK, StateOK
<1>3. [st[w] EXCEPT !.call = c] = [st[w] EXCEPT !.call = c, !.response = st[w].response]
  BY <1>2 DEF InitialState
<1>4. QED
  BY <1>1, <1>3, CallAdvances

\* Reserving a call, or being told that there is no budget for it.
LEMMA ReserveType ==
    ASSUME TypeOK, NEW w \in Workers, Reserve(w), ~DeadLetter(w)
    PROVE  /\ TypeOK'
           /\ st'[w].call \in {"call", "exhausted"}
           /\ \A k \in DOMAIN InitialState \ {"call", "response"} : st'[w][k] = st[w][k]
           /\ \A v \in Workers \ {w} : st'[v] = st[v]
           /\ UNCHANGED <<dispatch, ckpt, hyps, pc, history>>
           /\ run'.status = run.status
           /\ DOMAIN resv \subseteq DOMAIN resv'
           /\ st'[w].call = "call" =>
                 /\ InvocationKey(w) \in DOMAIN resv' \ DOMAIN resv
                 /\ run'.ledger.tokens = run.ledger.tokens + 1
                 /\ run'.ledger.tokens < Policy.tokens
           /\ st'[w].call = "exhausted" => UNCHANGED <<run, resv>>
<1>1. pc[w] \in AskingNodes /\ st[w].call = "reserve"
  BY ReserveForms
<1>2. CASE /\ st' = [st EXCEPT ![w] = [st[w] EXCEPT !.call = "exhausted"]]
           /\ UNCHANGED <<dispatch, incident, run, ckpt, rows, resv, pc, itemLock, late, history>>
  <2>1. /\ pc' \in [Workers -> Places] /\ DOMAIN st' = Workers
        /\ st'[w].call = "exhausted"
        /\ \A k \in DOMAIN InitialState \ {"call", "response"} : st'[w][k] = st[w][k]
        /\ \A v \in Workers \ {w} : st'[v] = st[v]
        /\ \A v \in Workers : StateOK(st'[v]) /\ CallOK(st'[v], pc'[v])
    <3>1. "exhausted" \in CallStates \ {"schema"}
      BY DEF CallStates
    <3>2. QED
      BY <1>1, <1>2, <3>1, CallAdvancesOnly
  <2>2. TypeOK'
    BY <1>2, <2>1 DEF TypeOK, rows, history
  <2>3. QED
    BY <1>2, <2>1, <2>2 DEF rows
<1>3. CASE /\ st' = [st EXCEPT ![w] = [st[w] EXCEPT !.call = "call"]]
           /\ InvocationKey(w) \notin DOMAIN resv
           /\ resv' = Reserved(InvocationKey(w))
           /\ run' = [run EXCEPT !.ledger = charge(run.ledger, Tokens(1))]
           /\ run.ledger.tokens + 1 < Policy.tokens
           /\ UNCHANGED <<dispatch, incident, ckpt, rows, pc, itemLock, late, history>>
  <2>1. /\ pc' \in [Workers -> Places] /\ DOMAIN st' = Workers
        /\ st'[w].call = "call"
        /\ \A k \in DOMAIN InitialState \ {"call", "response"} : st'[w][k] = st[w][k]
        /\ \A v \in Workers \ {w} : st'[v] = st[v]
        /\ \A v \in Workers : StateOK(st'[v]) /\ CallOK(st'[v], pc'[v])
    <3>1. "call" \in CallStates \ {"schema"}
      BY DEF CallStates
    <3>2. QED
      BY <1>1, <1>3, <3>1, CallAdvancesOnly
  <2>2. InvocationKey(w) \in Keys
    BY <1>1, KeyType
  <2>3. /\ DOMAIN resv' = DOMAIN resv \cup {InvocationKey(w)}
        /\ DOMAIN resv' \subseteq Keys
        /\ resv' \in [DOMAIN resv' -> [status : {"reserved", "completed"}, response : Answers]]
        /\ \A k \in DOMAIN resv' : resv'[k].response \in Outputs(k[1]) \cup {NoResponse}
    BY <1>3, <2>2 DEF TypeOK, Reserved, NoReservation, Answers
  <2>4. /\ run' \in [status : {"none", "running", "completed", "dead_lettered"},
                    owner : Workers \cup {None, Dead}, expired : BOOLEAN, ledger : BudgetLedger]
        /\ run'.status = run.status /\ run'.ledger.tokens = run.ledger.tokens + 1
    <3>1. /\ charge(run.ledger, Tokens(1)) \in BudgetLedger
          /\ charge(run.ledger, Tokens(1)).tokens = run.ledger.tokens + 1
      <4>1. run.ledger \in BudgetLedger /\ 1 \in Nat
        BY DEF TypeOK
      <4>2. Tokens(1) \in BudgetLedger /\ Tokens(1).tokens = 1
        BY <4>1, Costs
      <4>3. QED
        BY <4>1, <4>2, ChargeAdds
    <3>2. QED
      BY <1>3, <3>1 DEF TypeOK
  <2>5. TypeOK'
    BY <1>3, <2>1, <2>3, <2>4 DEF TypeOK, rows, history
  <2>6. QED
    BY <1>3, <2>1, <2>3, <2>4, <2>5 DEF rows
<1>4. QED
  BY <1>2, <1>3, ReserveForms

\* The provider is called.
LEMMA CallProviderType ==
    ASSUME TypeOK, NEW w \in Workers, CallProvider(w)
    PROVE  /\ TypeOK'
           /\ pc[w] \in AskingNodes /\ st[w].call = "call"
           /\ st'[w].call \in {"settle", "transient", "permanent"}
           /\ \A k \in DOMAIN InitialState \ {"call", "response"} : st'[w][k] = st[w][k]
           /\ \A v \in Workers \ {w} : st'[v] = st[v]
           /\ calls' = Append(calls, InvocationKey(w))
           /\ UNCHANGED <<dispatch, run, ckpt, hyps, resv, pc, lost, started, verdict>>
<1>1. pc[w] \in AskingNodes /\ st[w].call = "call"
  BY AsksInNode DEF CallProvider
<1>2. calls' = Append(calls, InvocationKey(w)) /\ calls' \in Seq(Keys)
  <2>1. InvocationKey(w) \in Keys
    BY <1>1, KeyType
  <2>2. QED
    BY <2>1 DEF CallProvider, TypeOK
<1>3. UNCHANGED <<dispatch, incident, run, ckpt, rows, resv, pc, itemLock, late, lost, started,
                  stalled, verdict, budgets>>
  BY DEF CallProvider
<1>4. /\ pc' \in [Workers -> Places] /\ DOMAIN st' = Workers
      /\ st'[w].call \in {"settle", "transient", "permanent"}
      /\ \A k \in DOMAIN InitialState \ {"call", "response"} : st'[w][k] = st[w][k]
      /\ \A v \in Workers \ {w} : st'[v] = st[v]
      /\ \A v \in Workers : StateOK(st'[v]) /\ CallOK(st'[v], pc'[v])
  <2>1. CASE \E r \in Outputs(pc[w]) : st' = [st EXCEPT ![w].call = "settle", ![w].response = r]
    <3>1. PICK r \in Outputs(pc[w]) :
              st' = [st EXCEPT ![w] = [st[w] EXCEPT !.call = "settle", !.response = r]]
      BY <2>1
    <3>2. "settle" \in CallStates \ {"schema"}
      BY DEF CallStates
    <3>3. QED
      BY <1>1, <1>3, <3>1, <3>2, CallAdvances
  <2>2. CASE \E failure \in ProviderFailures : SetCall(w, failure)
    <3>1. PICK c \in {"transient", "permanent"} : st' = [st EXCEPT ![w] = [st[w] EXCEPT !.call = c]]
      BY <2>2, FailuresAssumption DEF SetCall
    <3>2. c \in CallStates \ {"schema"}
      BY DEF CallStates
    <3>3. QED
      BY <1>1, <1>3, <3>1, <3>2, CallAdvancesOnly
  <2>3. QED
    BY <2>1, <2>2 DEF CallProvider
<1>5. TypeOK'
  BY <1>2, <1>3, <1>4 DEF TypeOK, rows
<1>6. QED
  BY <1>1, <1>2, <1>3, <1>4, <1>5 DEF rows

\* The answer is kept with its reservation.
LEMMA SettleType ==
    ASSUME TypeOK, NEW w \in Workers, Settle(w)
    PROVE  /\ TypeOK'
           /\ pc[w] \in AskingNodes /\ st[w].call = "settle"
           /\ st'[w].call = "answer"
           /\ \A k \in DOMAIN InitialState \ {"call", "response"} : st'[w][k] = st[w][k]
           /\ \A v \in Workers \ {w} : st'[v] = st[v]
           /\ DOMAIN resv' = DOMAIN resv
           /\ UNCHANGED <<dispatch, run, ckpt, hyps, pc, history>>
<1>1. pc[w] \in AskingNodes /\ st[w].call = "settle"
  BY AsksInNode DEF Settle
<1>2. UNCHANGED <<dispatch, incident, run, ckpt, rows, pc, itemLock, late, history, budgets>>
  BY DEF Settle
<1>3. /\ pc' \in [Workers -> Places] /\ DOMAIN st' = Workers
      /\ st'[w].call = "answer"
      /\ \A k \in DOMAIN InitialState \ {"call", "response"} : st'[w][k] = st[w][k]
      /\ \A v \in Workers \ {w} : st'[v] = st[v]
      /\ \A v \in Workers : StateOK(st'[v]) /\ CallOK(st'[v], pc'[v])
  <2>1. "answer" \in CallStates \ {"schema"}
    BY DEF CallStates
  <2>2. st' = [st EXCEPT ![w] = [st[w] EXCEPT !.call = "answer"]]
    BY DEF Settle, SetCall
  <2>3. QED
    BY <1>1, <1>2, <2>1, <2>2, CallAdvancesOnly
<1>4. /\ DOMAIN resv' = DOMAIN resv
      /\ resv' \in [DOMAIN resv' -> [status : {"reserved", "completed"}, response : Answers]]
      /\ \A k \in DOMAIN resv' : resv'[k].response \in Outputs(k[1]) \cup {NoResponse}
  <2> DEFINE key == InvocationKey(w)
             answer == [status |-> "completed", response |-> st[w].response]
  <2>1. CASE resv' = resv
    BY <2>1 DEF TypeOK
  <2>2. CASE resv' = [resv EXCEPT ![key] = answer]
    <3>1. st[w].response \in Outputs(key[1]) \cup {NoResponse} /\ st[w].response \in Answers
      <4>1. st[w].response \in Outputs(pc[w]) \cup {NoResponse}
        BY DEF TypeOK, CallOK
      <4>2. key[1] = pc[w]
        BY <1>1, KeyType
      <4>3. QED
        BY <4>1, <4>2 DEF Outputs, Answers
    <3>2. answer \in [status : {"reserved", "completed"}, response : Answers]
      BY <3>1
    <3>3. answer.response = st[w].response
      OBVIOUS
    <3> HIDE DEF key, answer
    <3>4. QED
      BY <2>2, <3>1, <3>2, <3>3 DEF TypeOK
  <2>3. QED
    BY <2>1, <2>2 DEF Settle
<1>5. TypeOK'
  BY <1>2, <1>3, <1>4 DEF TypeOK, rows, history
<1>6. QED
  BY <1>1, <1>2, <1>3, <1>4, <1>5 DEF rows

\* An answer that fails its schema is asked for once more.
LEMMA RepairType ==
    ASSUME TypeOK, NEW w \in Workers, Repair(w)
    PROVE  /\ TypeOK'
           /\ pc[w] \in AskingNodes /\ st[w].call = "answer"
           /\ st'[w].call \in {"ask", "schema"} /\ st'[w].spent = st[w].spent + 1
           /\ \A k \in DOMAIN InitialState \ {"call", "attempt", "spent", "response"} :
                 st'[w][k] = st[w][k]
           /\ \A v \in Workers \ {w} : st'[v] = st[v]
           /\ UNCHANGED <<dispatch, run, ckpt, hyps, resv, pc, history>>
<1> DEFINE s == [st[w] EXCEPT !.spent = @ + 1, !.attempt = Least(2, st[w].attempt + 1),
                              !.call = IF st[w].attempt = 1 THEN "ask" ELSE "schema"]
<1>1. pc[w] \in AskingNodes /\ st[w].call = "answer"
  BY AsksInNode DEF Repair
<1>2. UNCHANGED <<dispatch, incident, run, ckpt, rows, resv, pc, itemLock, late, history, budgets>>
  BY DEF Repair
<1>3. st' = [st EXCEPT ![w] = s]
  BY DEF Repair
<1>4. DOMAIN st[w] = DOMAIN InitialState /\ CallOK(st[w], pc[w])
  BY DEF TypeOK, StateOK
<1>5. /\ DOMAIN s = DOMAIN InitialState
      /\ s.spent = st[w].spent + 1 /\ s.attempt = Least(2, st[w].attempt + 1)
      /\ s.call = IF st[w].attempt = 1 THEN "ask" ELSE "schema"
      /\ s.response = st[w].response
      /\ \A k \in DOMAIN InitialState \ {"call", "attempt", "spent", "response"} :
            s[k] = st[w][k]
  BY <1>4 DEF InitialState
<1> HIDE DEF s
<1>6. CallOK(s, pc[w])
  <2>1. CASE st[w].attempt = 1
    BY <1>1, <1>4, <1>5, <2>1 DEF CallOK, CallStates, Least
  <2>2. CASE st[w].attempt = 2
    BY <1>1, <1>4, <1>5, <2>2 DEF CallOK, CallStates, Least
  <2>3. QED
    BY <1>4, <2>1, <2>2 DEF CallOK
<1>7. /\ pc' \in [Workers -> Places] /\ DOMAIN st' = Workers
      /\ st'[w] = s
      /\ \A v \in Workers \ {w} : st'[v] = st[v]
      /\ \A v \in Workers : StateOK(st'[v]) /\ CallOK(st'[v], pc'[v])
  BY <1>1, <1>2, <1>3, <1>5, <1>6, CallMoves
<1>8. TypeOK'
  BY <1>2, <1>7 DEF TypeOK, rows, history
<1>9. QED
  BY <1>1, <1>2, <1>5, <1>7, <1>8 DEF rows

-----------------------------------------------------------------------------
(* The nodes: what each of them commits.                                   *)

\* A state that differs from a well-formed one in nothing a type is about.
LEMMA SameTypes ==
    ASSUME NEW s, NEW t, StateOK(s), DOMAIN t = DOMAIN InitialState,
           \A k \in {"iteration", "ledger", "refusal", "unrecoverable", "opened", "steps", "hyps"} :
               t[k] = s[k]
    PROVE  StateOK(t)
BY DEF StateOK

\* The coordinator: its gaps have something to start with.
LEMMA CoordinatorCommits ==
    ASSUME TypeOK, NEW w \in Workers, Coordinator(w)
    PROVE  /\ pc[w] = "coordinator" /\ UNCHANGED rows
           /\ \E s : /\ StateOK(s) /\ CommitNode(w, s, "planner")
                     /\ \A k \in DOMAIN InitialState \ {"gaps"} : s[k] = st[w][k]
<1> DEFINE s == [st[w] EXCEPT !.gaps = IF @ = {} THEN {"cause"} ELSE @]
<1>1. pc[w] = "coordinator" /\ UNCHANGED rows /\ CommitNode(w, s, "planner")
  BY DEF Coordinator
<1>2. StateOK(st[w])
  BY DEF TypeOK
<1>3. /\ DOMAIN s = DOMAIN InitialState
      /\ \A k \in DOMAIN InitialState \ {"gaps"} : s[k] = st[w][k]
  BY <1>2 DEF StateOK, InitialState
<1> HIDE DEF s
<1>4. StateOK(s)
  BY <1>2, <1>3, SameTypes DEF InitialState
<1>5. QED
  BY <1>1, <1>3, <1>4

\* A planner without budget ends the run and may forget the first attempt's call.
LEMMA PlannerRefusedCommits ==
    ASSUME TypeOK, NEW w \in Workers, PlannerRefused(w)
    PROVE  /\ pc[w] = "planner" /\ st[w].call \in {"ask", "exhausted"} /\ UNCHANGED rows
           /\ \E s : /\ StateOK(s) /\ CommitNode(w, s, "terminator")
                     /\ s.refusal = TRUE /\ s.ledger.tokens = st[w].ledger.tokens
                     /\ s.unrecoverable = st[w].unrecoverable /\ s.hyps = st[w].hyps
<1>1. pc[w] = "planner" /\ UNCHANGED rows
  BY DEF PlannerRefused
<1>2. StateOK(st[w])
  BY DEF TypeOK
<1>3. st[w].call \in {"ask", "exhausted"}
  BY DEF PlannerRefused, BudgetRefusesCall
<1>4. PICK l \in {st[w].ledger, charge(st[w].ledger, Iteration)} :
          CommitNode(w, [st[w] EXCEPT !.decision = Terminate, !.refusal = TRUE, !.ledger = l],
                     "terminator")
  <2>1. CASE CommitNode(w, [st[w] EXCEPT !.decision = Terminate, !.refusal = TRUE], "terminator")
    <3>1. [st[w] EXCEPT !.decision = Terminate, !.refusal = TRUE]
            = [st[w] EXCEPT !.decision = Terminate, !.refusal = TRUE, !.ledger = st[w].ledger]
      BY <1>2 DEF StateOK, InitialState
    <3>2. QED
      BY <2>1, <3>1
  <2>2. CASE CommitNode(w, [st[w] EXCEPT !.decision = Terminate, !.refusal = TRUE,
                                         !.ledger = charge(@, Iteration)], "terminator")
    BY <2>2
  <2>3. QED
    BY <2>1, <2>2 DEF PlannerRefused
<1>5. l \in BudgetLedger /\ l.tokens = st[w].ledger.tokens
  <2>1. st[w].ledger \in BudgetLedger
    BY <1>2 DEF StateOK
  <2>2. Iteration \in BudgetLedger /\ Iteration.tokens = 0
    <3>1. 0 \in Nat
      OBVIOUS
    <3>2. QED
      BY <3>1, Costs
  <2>3. QED
    BY <2>1, <2>2, ChargeAdds DEF BudgetLedger
<1> DEFINE s == [st[w] EXCEPT !.decision = Terminate, !.refusal = TRUE, !.ledger = l]
<1>6. /\ DOMAIN s = DOMAIN InitialState /\ s.refusal = TRUE /\ s.ledger = l
      /\ \A k \in DOMAIN InitialState \ {"decision", "refusal", "ledger"} : s[k] = st[w][k]
  BY <1>2 DEF StateOK, InitialState
<1>7. CommitNode(w, s, "terminator")
  BY <1>4
<1> HIDE DEF s
<1>8. /\ s.iteration = st[w].iteration /\ s.unrecoverable = st[w].unrecoverable
      /\ s.opened = st[w].opened /\ s.steps = st[w].steps /\ s.hyps = st[w].hyps
  BY <1>6 DEF InitialState
<1>9. StateOK(s)
  BY <1>2, <1>5, <1>6, <1>8 DEF StateOK
<1>10. QED
  BY <1>1, <1>3, <1>5, <1>6, <1>7, <1>8, <1>9

\* A planner whose call failed takes over the run's own ledger.
LEMMA PlannerFailsCommits ==
    ASSUME TypeOK, NEW w \in Workers, PlannerFails(w)
    PROVE  /\ pc[w] = "planner" /\ UNCHANGED rows
           /\ st[w].call \in {"schema", "transient", "permanent"}
           /\ \E s : /\ StateOK(s) /\ CommitNode(w, s, "terminator")
                     /\ s.ledger = run.ledger /\ s.hyps = st[w].hyps
<1> DEFINE u == st[w].unrecoverable \/ st[w].call = "permanent"
           s == [st[w] EXCEPT !.decision = Terminate, !.ledger = run.ledger, !.unrecoverable = u]
<1>1. pc[w] = "planner" /\ UNCHANGED rows /\ CommitNode(w, s, "terminator")
  BY DEF PlannerFails
<1>2. st[w].call \in {"schema", "transient", "permanent"}
  BY DEF PlannerFails, CallFailed
<1>3. StateOK(st[w]) /\ run.ledger \in BudgetLedger
  BY DEF TypeOK
<1>4. u \in BOOLEAN
  OBVIOUS
<1> HIDE DEF u
<1>5. /\ DOMAIN s = DOMAIN InitialState /\ s.ledger = run.ledger /\ s.unrecoverable = u
      /\ \A k \in DOMAIN InitialState \ {"decision", "unrecoverable", "ledger"} : s[k] = st[w][k]
  BY <1>3 DEF StateOK, InitialState
<1> HIDE DEF s
<1>6. /\ s.iteration = st[w].iteration /\ s.refusal = st[w].refusal
      /\ s.opened = st[w].opened /\ s.steps = st[w].steps /\ s.hyps = st[w].hyps
  BY <1>5 DEF InitialState
<1>7. StateOK(s)
  BY <1>3, <1>4, <1>5, <1>6 DEF StateOK
<1>8. QED
  BY <1>1, <1>2, <1>5, <1>6, <1>7

\* The hypothesis engine without evidence, or whose call was refused or failed.
LEMMA HypothesisSkippedCommits ==
    ASSUME TypeOK, NEW w \in Workers, HypothesisSkipped(w)
    PROVE  /\ pc[w] = "hypothesis_engine" /\ UNCHANGED rows
           /\ \E s : /\ StateOK(s) /\ CommitNode(w, s, "terminator")
                     /\ s.unrecoverable = st[w].unrecoverable /\ s.hyps = st[w].hyps
                     /\ \/ s.ledger = run.ledger
                        \/ /\ s.ledger = st[w].ledger
                           /\ st[w].call = "ask" /\ EvidenceCount(st[w]) = 0
<1>1. pc[w] = "hypothesis_engine" /\ UNCHANGED rows
  BY DEF HypothesisSkipped
<1>2. StateOK(st[w]) /\ run.ledger \in BudgetLedger
  BY DEF TypeOK
<1>3. CASE /\ st[w].call = "ask" /\ EvidenceCount(st[w]) = 0
           /\ CommitNode(w, st[w], "terminator")
  BY <1>1, <1>2, <1>3
<1>4. CASE CommitNode(w, [st[w] EXCEPT !.ledger = run.ledger], "terminator")
  <2> DEFINE s == [st[w] EXCEPT !.ledger = run.ledger]
  <2>1. /\ DOMAIN s = DOMAIN InitialState /\ s.ledger = run.ledger
        /\ \A k \in DOMAIN InitialState \ {"ledger"} : s[k] = st[w][k]
    BY <1>2 DEF StateOK, InitialState
  <2>2. CommitNode(w, s, "terminator")
    BY <1>4
  <2> HIDE DEF s
  <2>3. /\ s.iteration = st[w].iteration /\ s.refusal = st[w].refusal
        /\ s.unrecoverable = st[w].unrecoverable
        /\ s.opened = st[w].opened /\ s.steps = st[w].steps /\ s.hyps = st[w].hyps
    BY <2>1 DEF InitialState
  <2>4. StateOK(s)
    BY <1>2, <2>1, <2>3 DEF StateOK
  <2>5. QED
    BY <1>1, <2>1, <2>2, <2>3, <2>4
<1>5. QED
  BY <1>3, <1>4 DEF HypothesisSkipped

\* A valid answer is one of the model's.
LEMMA ValidAnswer ==
    ASSUME TypeOK, NEW w \in Workers, st[w].response.valid
    PROVE  st[w].response \in Outputs(pc[w])
<1>1. st[w].response \in Outputs(pc[w]) \cup {NoResponse}
  BY DEF TypeOK, CallOK
<1>2. st[w].response # NoResponse
  BY DEF NoResponse
<1>3. QED
  BY <1>1, <1>2

\* What the guards leave of a proposal: a collection names a domain of the menu.
LEMMA GuardedDecision ==
    ASSUME NEW s, NEW a \in PlannerAction, NEW dom, NEW g
    PROVE  LET d == apply_guards([action |-> a, domain |-> dom, gap |-> g], s)
           IN  /\ d.action \in PlannerAction /\ d.gap = g
               /\ d.action = "collect_evidence" => d.domain \in Menu
               /\ NodeAfter(d.action) \in {"evidence_collector", "hypothesis_engine", "terminator"}
<1> DEFINE d == apply_guards([action |-> a, domain |-> dom, gap |-> g], s)
<1>1. d.action \in PlannerAction /\ d.gap = g /\ (d.action = "collect_evidence" => d.domain \in Menu)
  BY DEF apply_guards, PlannerAction
<1> HIDE DEF d
<1>2. NodeAfter(d.action) \in {"evidence_collector", "hypothesis_engine", "terminator"}
  BY <1>1 DEF NodeAfter, PlannerAction
<1>3. QED
  BY <1>1, <1>2 DEF d

\* The planner's decision: its calls are charged, and a collection is a step.
LEMMA PlannerCommits ==
    ASSUME TypeOK, NEW w \in Workers, Planner(w), ~DeadLetter(w)
    PROVE  /\ pc[w] = "planner" /\ st[w].call = "answer"
           /\ steps' \in Seq(Step) /\ UNCHANGED <<execs, hyps>>
           /\ \E s, next : /\ StateOK(s) /\ CommitNode(w, s, next)
                           /\ next \in {"evidence_collector", "hypothesis_engine", "terminator"}
                           /\ s.ledger.tokens = st[w].ledger.tokens + st[w].spent + 1
                           /\ s.unrecoverable = st[w].unrecoverable /\ s.hyps = st[w].hyps
<1> DEFINE r == st[w].response
           d == apply_guards([action |-> r.action, domain |-> r.domain, gap |-> r.gap], st[w])
           l == charge(charge(st[w].ledger, Iteration), Tokens(st[w].spent + 1))
           t == [st[w] EXCEPT !.decision = d, !.iteration = @ + 1, !.ledger = l]
           u == [t EXCEPT !.steps = Append(@, Planned(d)), !.gaps = @ \ {d.gap}]
           next == NodeAfter(d.action)
<1>1. pc[w] = "planner" /\ st[w].call = "answer" /\ r.valid
  BY DEF Planner
<1>2. r \in PlannerOutputs
  BY <1>1, ValidAnswer DEF Outputs
<1>3. StateOK(st[w]) /\ CallOK(st[w], pc[w])
  BY DEF TypeOK
<1>4. l \in BudgetLedger /\ l.tokens = st[w].ledger.tokens + st[w].spent + 1
  <2>1. st[w].spent + 1 \in Nat /\ st[w].ledger \in BudgetLedger
    BY <1>3 DEF StateOK, CallOK
  <2>2. /\ Iteration \in BudgetLedger /\ Iteration.tokens = 0
        /\ Tokens(st[w].spent + 1) \in BudgetLedger
        /\ Tokens(st[w].spent + 1).tokens = st[w].spent + 1
    BY <2>1, Costs
  <2>3. /\ charge(st[w].ledger, Iteration) \in BudgetLedger
        /\ charge(st[w].ledger, Iteration).tokens = st[w].ledger.tokens + 0
    BY <2>1, <2>2, ChargeAdds
  <2>4. /\ l \in BudgetLedger
        /\ l.tokens = charge(st[w].ledger, Iteration).tokens + (st[w].spent + 1)
    BY <2>2, <2>3, ChargeAdds
  <2>5. st[w].ledger.tokens \in Nat /\ st[w].spent \in Int
    BY <1>3, <2>1 DEF BudgetLedger, CallOK
  <2>6. QED
    BY <2>3, <2>4, <2>5
<1>5. /\ d.gap = r.gap /\ (d.action = "collect_evidence" => d.domain \in Menu)
      /\ next \in {"evidence_collector", "hypothesis_engine", "terminator"}
  <2>1. r.action \in PlannerAction
    BY <1>1, <1>2, OutputsAssumption
  <2>2. QED
    BY <2>1, GuardedDecision
<1>6. \/ /\ CommitNode(w, t, next) /\ UNCHANGED rows
      \/ /\ d.action = "collect_evidence"
         /\ CommitNode(w, u, next)
         /\ steps' = Append(steps, Planned(d)) /\ UNCHANGED <<execs, hyps>>
  BY DEF Planner
<1> HIDE DEF d, l, next
<1>7. /\ DOMAIN t = DOMAIN InitialState
      /\ t.ledger = l /\ t.iteration = st[w].iteration + 1
      /\ \A k \in DOMAIN InitialState \ {"decision", "iteration", "ledger"} : t[k] = st[w][k]
  BY <1>3 DEF StateOK, InitialState
<1> HIDE DEF t
<1>8. /\ t.refusal = st[w].refusal /\ t.unrecoverable = st[w].unrecoverable
      /\ t.opened = st[w].opened /\ t.steps = st[w].steps /\ t.hyps = st[w].hyps
  BY <1>7 DEF InitialState
<1>9. StateOK(t)
  BY <1>3, <1>4, <1>7, <1>8 DEF StateOK
<1>10. CASE CommitNode(w, t, next) /\ UNCHANGED rows
  <2>1. steps \in Seq(Step)
    BY DEF TypeOK
  <2>2. QED
    BY <1>1, <1>4, <1>5, <1>7, <1>8, <1>9, <1>10, <2>1 DEF rows
<1>11. CASE /\ d.action = "collect_evidence" /\ CommitNode(w, u, next)
            /\ steps' = Append(steps, Planned(d)) /\ UNCHANGED <<execs, hyps>>
  <2>1. Planned(d) \in Step
    BY <1>2, <1>5, <1>11 DEF Planned, Step
  <2>2. /\ DOMAIN u = DOMAIN InitialState /\ u.steps = Append(t.steps, Planned(d))
        /\ \A k \in DOMAIN InitialState \ {"steps", "gaps"} : u[k] = t[k]
    BY <1>7 DEF InitialState
  <2> HIDE DEF u
  <2>3. /\ u.iteration = t.iteration /\ u.ledger = t.ledger /\ u.refusal = t.refusal
        /\ u.unrecoverable = t.unrecoverable /\ u.opened = t.opened /\ u.hyps = t.hyps
    BY <2>2 DEF InitialState
  <2>4. u.steps \in Seq(Step)
    BY <1>9, <2>1, <2>2 DEF StateOK
  <2>5. StateOK(u)
    BY <1>9, <2>2, <2>3, <2>4 DEF StateOK
  <2>6. steps' \in Seq(Step)
    BY <1>11, <2>1 DEF TypeOK
  <2>7. QED
    BY <1>1, <1>4, <1>5, <1>7, <1>8, <1>11, <2>3, <2>5, <2>6
<1>12. QED
  BY <1>6, <1>10, <1>11

\* Noting how a step went.
LEMMA StepStatus ==
    ASSUME NEW f \in Seq(Step), NEW i \in Nat, NEW x \in {"completed", "degraded"}
    PROVE  [f EXCEPT ![i].status = x] \in Seq(Step)
<1> DEFINE g == [f EXCEPT ![i].status = x]
<1>1. g \in [1 .. Len(f) -> Step]
  <2>1. f \in [1 .. Len(f) -> Step]
    OBVIOUS
  <2>2. \A y \in Step : [y EXCEPT !.status = x] \in Step
    BY DEF Step
  <2> HIDE DEF Step
  <2>3. g = [j \in 1 .. Len(f) |-> IF j = i THEN [f[j] EXCEPT !.status = x] ELSE f[j]]
    BY <2>1
  <2>4. QED
    BY <2>1, <2>2, <2>3
<1>2. QED
  BY <1>1

\* A collector that records a step, its ledger and nothing else of a type.
LEMMA StepRecorded ==
    ASSUME TypeOK, NEW s, StateOK(s), NEW t, NEW i \in Nat,
           NEW x \in {"completed", "degraded"},
           steps' = [steps EXCEPT ![i].status = x],
           DOMAIN t = DOMAIN InitialState, t.steps = [s.steps EXCEPT ![i].status = x],
           \A k \in DOMAIN InitialState \ {"covered", "degraded", "steps"} : t[k] = s[k]
    PROVE  /\ steps' \in Seq(Step) /\ StateOK(t)
           /\ t.ledger = s.ledger /\ t.unrecoverable = s.unrecoverable /\ t.hyps = s.hyps
<1>1. steps' \in Seq(Step) /\ t.steps \in Seq(Step)
  <2>1. steps \in Seq(Step) /\ s.steps \in Seq(Step)
    BY DEF TypeOK, StateOK
  <2>2. /\ [steps EXCEPT ![i].status = x] \in Seq(Step)
        /\ [s.steps EXCEPT ![i].status = x] \in Seq(Step)
    BY <2>1, StepStatus, Zenon
  <2>3. QED
    BY <2>2
<1>2. /\ t.iteration = s.iteration /\ t.ledger = s.ledger /\ t.refusal = s.refusal
      /\ t.unrecoverable = s.unrecoverable /\ t.opened = s.opened /\ t.hyps = s.hyps
  BY DEF InitialState
<1>3. QED
  BY <1>1, <1>2 DEF StateOK

\* A collection that failed or was refused.
LEMMA DegradeCommits ==
    ASSUME TypeOK, NEW w \in Workers, NEW s, StateOK(s), Degrade(w, s)
    PROVE  /\ steps' \in Seq(Step)
           /\ \E t : /\ StateOK(t) /\ CommitNode(w, t, "terminator")
                     /\ t.ledger = s.ledger /\ t.unrecoverable = s.unrecoverable
                     /\ t.hyps = s.hyps
<1> DEFINE last == Len(s.steps)
           t == [s EXCEPT !.degraded = @ \cup {s.decision.domain},
                          !.steps[last].status = "degraded"]
<1>1. steps' = [steps EXCEPT ![last].status = "degraded"] /\ CommitNode(w, t, "terminator")
  BY DEF Degrade
<1>2. /\ DOMAIN t = DOMAIN InitialState
      /\ t.steps = [s.steps EXCEPT ![last].status = "degraded"]
      /\ \A k \in DOMAIN InitialState \ {"covered", "degraded", "steps"} : t[k] = s[k]
  BY DEF StateOK, InitialState
<1>3. last \in Nat /\ "degraded" \in {"completed", "degraded"}
  BY DEF StateOK
<1> HIDE DEF t, last
<1>4. /\ steps' \in Seq(Step) /\ StateOK(t)
      /\ t.ledger = s.ledger /\ t.unrecoverable = s.unrecoverable /\ t.hyps = s.hyps
  BY <1>1, <1>2, <1>3, StepRecorded, Zenon
<1>5. QED
  BY <1>1, <1>4

\* Evidence costs no tokens.
LEMMA EvidenceCommits ==
    ASSUME TypeOK, NEW w \in Workers, EvidenceRefused(w) \/ Evidence(w)
    PROVE  /\ pc[w] = "evidence_collector"
           /\ steps' \in Seq(Step) /\ execs' \in [Menu -> {"none", "succeeded", "failed"}]
           /\ UNCHANGED hyps
           /\ \E s : /\ StateOK(s) /\ CommitNode(w, s, "terminator")
                     /\ s.ledger.tokens = st[w].ledger.tokens
                     /\ s.unrecoverable = st[w].unrecoverable /\ s.hyps = st[w].hyps
<1>1. StateOK(st[w]) /\ execs \in [Menu -> {"none", "succeeded", "failed"}]
  BY DEF TypeOK
<1>2. CASE EvidenceRefused(w)
  <2> DEFINE s == [st[w] EXCEPT !.refusal = TRUE]
  <2>1. /\ pc[w] = "evidence_collector" /\ Degrade(w, s) /\ UNCHANGED <<execs, hyps>>
    BY <1>2 DEF EvidenceRefused
  <2>2. /\ DOMAIN s = DOMAIN InitialState /\ s.refusal = TRUE
        /\ \A k \in DOMAIN InitialState \ {"refusal"} : s[k] = st[w][k]
    BY <1>1 DEF StateOK, InitialState
  <2> HIDE DEF s
  <2>3. /\ s.iteration = st[w].iteration /\ s.ledger = st[w].ledger
        /\ s.unrecoverable = st[w].unrecoverable /\ s.opened = st[w].opened
        /\ s.steps = st[w].steps /\ s.hyps = st[w].hyps
    BY <2>2 DEF InitialState
  <2>4. StateOK(s)
    BY <1>1, <2>2, <2>3 DEF StateOK
  <2>5. QED
    BY <1>1, <2>1, <2>3, <2>4, DegradeCommits
<1>3. CASE Evidence(w)
  <2> DEFINE d == st[w].decision.domain
             last == Len(st[w].steps)
             again == execs[d] # "none"
             l == charge(st[w].ledger, ToolCalls(IF again THEN 0 ELSE 1))
             s == [st[w] EXCEPT !.ledger = l]
             t == [s EXCEPT !.covered = @ \cup {d}, !.steps[last].status = "completed"]
  <2>1. /\ execs' \in [Menu -> {"none", "succeeded", "failed"}]
        /\ \/ Degrade(w, st[w])
           \/ Degrade(w, s)
           \/ /\ steps' = [steps EXCEPT ![last].status = "completed"]
              /\ CommitNode(w, t, "terminator")
    <3>1. \/ Degrade(w, st[w]) /\ UNCHANGED execs
          \/ \E outcome \in (IF again THEN {execs[d]} ELSE {"succeeded", "failed"}) :
                /\ execs' = [execs EXCEPT ![d] = outcome]
                /\ \/ Degrade(w, s)
                   \/ /\ steps' = [steps EXCEPT ![last].status = "completed"]
                      /\ CommitNode(w, t, "terminator")
      BY <1>3 DEF Evidence
    <3>2. ASSUME NEW outcome \in (IF again THEN {execs[d]} ELSE {"succeeded", "failed"}),
                 execs' = [execs EXCEPT ![d] = outcome]
          PROVE  execs' \in [Menu -> {"none", "succeeded", "failed"}]
      <4>1. d \in Menu => outcome \in {"none", "succeeded", "failed"}
        BY <1>1, <3>2
      <4>2. QED
        BY <1>1, <3>2, <4>1
    <3> HIDE DEF s, t
    <3>3. QED
      BY <1>1, <3>1, <3>2
  <2>2. pc[w] = "evidence_collector" /\ UNCHANGED hyps
    BY <1>3 DEF Evidence
  <2>3. CASE Degrade(w, st[w])
    BY <1>1, <2>1, <2>2, <2>3, DegradeCommits
  <2>4. l \in BudgetLedger /\ l.tokens = st[w].ledger.tokens
    <3>1. PICK n \in Nat : l = charge(st[w].ledger, ToolCalls(n))
      OBVIOUS
    <3>2. ToolCalls(n) \in BudgetLedger /\ ToolCalls(n).tokens = 0
      BY Costs
    <3>3. QED
      BY <1>1, <3>1, <3>2, ChargeAdds DEF StateOK, BudgetLedger
  <2> HIDE DEF l
  <2>5. /\ DOMAIN s = DOMAIN InitialState /\ s.ledger = l
        /\ \A k \in DOMAIN InitialState \ {"ledger"} : s[k] = st[w][k]
    BY <1>1 DEF StateOK, InitialState
  <2> HIDE DEF s
  <2>6. /\ s.iteration = st[w].iteration /\ s.refusal = st[w].refusal
        /\ s.unrecoverable = st[w].unrecoverable /\ s.opened = st[w].opened
        /\ s.steps = st[w].steps /\ s.hyps = st[w].hyps
    BY <2>5 DEF InitialState
  <2>7. StateOK(s)
    BY <1>1, <2>4, <2>5, <2>6 DEF StateOK
  <2>8. CASE Degrade(w, s)
    BY <2>1, <2>2, <2>4, <2>5, <2>6, <2>7, <2>8, DegradeCommits
  <2>9. CASE /\ steps' = [steps EXCEPT ![last].status = "completed"]
             /\ CommitNode(w, t, "terminator")
    <3>1. /\ DOMAIN t = DOMAIN InitialState
          /\ t.steps = [s.steps EXCEPT ![last].status = "completed"]
          /\ \A k \in DOMAIN InitialState \ {"covered", "degraded", "steps"} : t[k] = s[k]
      BY <2>5 DEF InitialState
    <3>2. last \in Nat /\ "completed" \in {"completed", "degraded"}
      BY <1>1 DEF StateOK
    <3> HIDE DEF t, last
    <3>3. /\ steps' \in Seq(Step) /\ StateOK(t)
          /\ t.ledger = s.ledger /\ t.unrecoverable = s.unrecoverable /\ t.hyps = s.hyps
      BY <2>7, <2>9, <3>1, <3>2, StepRecorded, Zenon
    <3>4. QED
      BY <2>1, <2>2, <2>4, <2>5, <2>6, <2>9, <3>3
  <2>10. QED
    BY <2>1, <2>3, <2>8, <2>9
<1>4. QED
  BY <1>2, <1>3

\* A set of numbers has a least one.
LEMMA LeastNumber ==
    ASSUME NEW T, T \subseteq Nat, T # {}
    PROVE  \E x \in T : \A y \in T : x <= y
<1> DEFINE R == OpToRel(<, Nat)
<1>1. IsWellFoundedOn(R, Nat)
  BY NatLessThanWellFounded
<1>2. \A x, y \in Nat : y < x => <<y, x>> \in R
  BY DEF OpToRel
<1> HIDE DEF R
<1>3. PICK x \in T : \A y \in T : ~ (<<y, x>> \in R)
  BY <1>1, WFMin
<1>4. \A y \in T : ~(y < x)
  BY <1>2, <1>3, Zenon
<1>5. QED
  BY <1>4

\* The lookup by id finds an entry with that id, if there is one.
LEMMA FirstEntryFound ==
    ASSUME NEW list \in Seq(Hypothesis), NEW id, \E i \in DOMAIN list : list[i].id = id
    PROVE  FirstEntry(list, id) \in Hypothesis /\ FirstEntry(list, id).id = id
<1> DEFINE T == {i \in DOMAIN list : list[i].id = id}
<1>1. PICK x \in T : \A y \in T : x <= y
  <2>1. T \subseteq Nat /\ T # {}
    OBVIOUS
  <2>2. QED
    BY <2>1, LeastNumber
<1>2. x \in DOMAIN list /\ list[x].id = id /\ \A j \in 1 .. (x - 1) : list[j].id # id
  <2>1. ASSUME NEW j \in 1 .. (x - 1), list[j].id = id PROVE FALSE
    <3>1. j \in T /\ j < x
      BY <1>1, <2>1
    <3>2. QED
      BY <1>1, <3>1
  <2>2. QED
    BY <1>1, <2>1
<1> DEFINE P(i) == list[i].id = id /\ \A j \in 1 .. (i - 1) : list[j].id # id
           c == CHOOSE i \in DOMAIN list : P(i)
<1>3. c \in DOMAIN list /\ P(c)
  BY <1>2
<1>4. FirstEntry(list, id) = list[c]
  BY DEF FirstEntry
<1> HIDE DEF c
<1>5. QED
  BY <1>3, <1>4

\* The evidence of a pass is counted by a number.
LEMMA EvidenceIsCounted ==
    ASSUME NEW s, StateOK(s)
    PROVE  EvidenceCount(s) \in Nat
<1> DEFINE E == {i \in DOMAIN s.steps : s.steps[i].status = "completed"}
<1>1. Len(s.steps) \in Nat /\ DOMAIN s.steps = 1 .. Len(s.steps)
  BY DEF StateOK
<1>2. IsFiniteSet(1 .. Len(s.steps))
  BY <1>1, FS_Interval
<1>3. E \in SUBSET (1 .. Len(s.steps))
  BY <1>1
<1>4. IsFiniteSet(E)
  BY <1>2, <1>3, FS_Subset
<1>5. QED
  BY <1>4, FS_CardinalityType DEF EvidenceCount

\* A draft becomes a row that carries its number.
LEMMA PersistedType ==
    ASSUME NEW s, StateOK(s), NEW draft, draft.claim \in 0 .. 100, draft.cites \in Nat,
           NEW rank \in Nat, NEW id \in Nat
    PROVE  Persisted(draft, s, rank, id) \in Hypothesis /\ Persisted(draft, s, rank, id).id = id
<1> DEFINE contra == IF draft.contradicted THEN 1 ELSE 0
           support == Least(draft.cites, EvidenceCount(s) - contra)
           ceiling == confidence_ceiling(support, contra, EvidenceQuality)
           conf == Least(draft.claim, ceiling)
<1>1. contra \in {0, 1} /\ support \in Int
  BY EvidenceIsCounted DEF Least
<1> HIDE DEF contra, support
<1>2. ceiling \in Int
  BY <1>1, QualityAssumption DEF confidence_ceiling, Least
<1> HIDE DEF ceiling
<1>3. conf \in Int
  BY <1>2 DEF Least
<1>4. Persisted(draft, s, rank, id) =
          [id |-> id, rank |-> rank, status |-> "proposed", support |-> support,
           contra |-> contra, confidence |-> conf]
  BY DEF Persisted, contra, support, ceiling, conf
<1> HIDE DEF conf
<1>5. QED
  BY <1>1, <1>3, <1>4 DEF Hypothesis, HypothesisStatus

\* The hypotheses accepted in a step continue the rows' numbers.
LEMMA AcceptedType ==
    ASSUME TypeOK, NEW s, StateOK(s), NEW o \in HypothesisOutputs, o.valid
    PROVE  /\ Accepted(o.drafts, s) \in Seq(Hypothesis)
           /\ \A i \in DOMAIN Accepted(o.drafts, s) : Accepted(o.drafts, s)[i].id = Len(hyps) + i
<1> DEFINE known == KnownDrafts(o.drafts)
           list == [i \in DOMAIN known |->
                      Persisted(known[i], s, Len(s.hyps) + i, Len(hyps) + i)]
<1>1. /\ known \in Seq({known[i] : i \in DOMAIN known})
      /\ \A i \in DOMAIN known : known[i].claim \in 0 .. 100 /\ known[i].cites \in Nat
  BY OutputsAssumption
<1>2. Accepted(o.drafts, s) = list
  BY DEF Accepted
<1> HIDE DEF known
<1>3. DOMAIN known = 1 .. Len(known) /\ Len(known) \in Nat
  BY <1>1
<1>4. Len(s.hyps) \in Nat /\ Len(hyps) \in Nat
  BY DEF TypeOK, StateOK
<1>5. \A i \in DOMAIN known : list[i] \in Hypothesis /\ list[i].id = Len(hyps) + i
  <2> TAKE i \in DOMAIN known
  <2>1. Len(s.hyps) + i \in Nat /\ Len(hyps) + i \in Nat
        /\ known[i].claim \in 0 .. 100 /\ known[i].cites \in Nat
    BY <1>1, <1>3, <1>4
  <2>2. QED
    BY <2>1, PersistedType
<1>6. list \in Seq(Hypothesis)
  BY <1>3, <1>5
<1>7. QED
  BY <1>2, <1>5, <1>6

\* Only a proposal that was admitted revises, and its target is on the list.
LEMMA RevisionHasTarget ==
    ASSUME NEW p, NEW list, NEW fresh, NEW gaps, NEW covered, NEW degraded,
           decide_reflection(p, list, fresh, gaps, covered, degraded).action = "revise_hypothesis"
    PROVE  \E i \in DOMAIN list :
              list[i].id = decide_reflection(p, list, fresh, gaps, covered, degraded).target
<1>1. reflection_fallback(list, gaps, covered, degraded).action # "revise_hypothesis"
  BY DEF reflection_fallback, Verdict
<1>2. reflection_admits(p, list, fresh, gaps, covered, degraded)
  BY <1>1 DEF decide_reflection
<1>3. p.action = "revise_hypothesis"
  BY <1>2 DEF decide_reflection, Verdict
<1>4. decide_reflection(p, list, fresh, gaps, covered, degraded).target = p.target
  BY <1>2, <1>3 DEF decide_reflection, Verdict
<1>5. QED
  BY <1>2, <1>3, <1>4 DEF reflection_admits

\* Superseding a hypothesis changes its status only.
LEMMA SupersededType ==
    ASSUME NEW list \in Seq(Hypothesis), NEW id
    PROVE  /\ Superseded(list, id) \in Seq(Hypothesis)
           /\ DOMAIN Superseded(list, id) = DOMAIN list
           /\ \A i \in DOMAIN list : /\ Superseded(list, id)[i].id = list[i].id
                                     /\ list[i].id # id => Superseded(list, id)[i] = list[i]
<1>1. \A h \in Hypothesis : /\ [h EXCEPT !.status = "superseded"] \in Hypothesis
                            /\ [h EXCEPT !.status = "superseded"].id = h.id
  BY DEF Hypothesis, HypothesisStatus
<1>2. \A i \in DOMAIN list : list[i] \in Hypothesis
  OBVIOUS
<1>3. /\ DOMAIN Superseded(list, id) = 1 .. Len(list)
      /\ \A i \in DOMAIN list : /\ Superseded(list, id)[i] \in Hypothesis
                                /\ Superseded(list, id)[i].id = list[i].id
                                /\ list[i].id # id => Superseded(list, id)[i] = list[i]
  BY <1>1, <1>2 DEF Superseded
<1>4. Superseded(list, id) \in [1 .. Len(list) -> Hypothesis]
  BY <1>3 DEF Superseded
<1>5. Superseded(list, id) \in Seq(Hypothesis)
  BY <1>4
<1>6. QED
  BY <1>3, <1>5

(***************************************************************************)
(* What the hypothesis engine commits: what it accepts goes to the end of  *)
(* the rows and of the pass's list, and a revision closes the list with    *)
(* the superseded target, an earlier hypothesis.                           *)
(***************************************************************************)
Concludes(w, s, accepted, tail, target) ==
    /\ StateOK(s) /\ CommitNode(w, s, "terminator")
    /\ s.ledger.tokens = st[w].ledger.tokens + st[w].spent + 1
    /\ s.unrecoverable = st[w].unrecoverable
    /\ accepted \in Seq(Hypothesis)
    /\ \A i \in DOMAIN accepted : accepted[i].id = Len(hyps) + i
    /\ hyps' = Superseded(hyps \o accepted, target)
    /\ s.hyps = st[w].hyps \o (accepted \o tail)
    /\ \/ tail = <<>> /\ target = 0
       \/ /\ \E h \in Hypothesis : tail = <<h>> /\ h.id = target /\ h.status = "superseded"
          /\ \E i \in DOMAIN st[w].hyps : st[w].hyps[i].id = target
          /\ \A i \in DOMAIN accepted : accepted[i].id # target

\* The hypothesis engine, once its answer is there and can be applied.
LEMMA HypothesiseCommits ==
    ASSUME TypeOK, NEW w \in Workers, Hypothesise(w), ~DeadLetter(w)
    PROVE  /\ pc[w] = "hypothesis_engine" /\ st[w].call = "answer"
           /\ hyps' \in Seq(Hypothesis) /\ \A i \in DOMAIN hyps' : hyps'[i].id = i
           /\ UNCHANGED <<steps, execs>>
           /\ \E s, accepted, tail, target : Concludes(w, s, accepted, tail, target)
<1> DEFINE o == st[w].response
           accepted == Accepted(o.drafts, st[w])
           fresh == {accepted[i].id : i \in DOMAIN accepted}
           gaps == st[w].gaps \cup RemainingGaps(o.drafts)
           v == _reflect(st[w], accepted, gaps)
           revises == v.action = "revise_hypothesis"
           e == [FirstEntry(st[w].hyps, v.target) EXCEPT !.status = "superseded"]
           tail == IF revises THEN <<e>> ELSE <<>>
           target == IF revises THEN v.target ELSE 0
           l == charge(st[w].ledger, Tokens(st[w].spent + 1))
           s == [st[w] EXCEPT !.hyps = @ \o (accepted \o tail), !.reflection = v.action,
                              !.gaps = gaps \cup ({v.gap} \ {"none"}), !.ledger = l]
<1>1. pc[w] = "hypothesis_engine" /\ st[w].call = "answer" /\ o.valid
  BY DEF Hypothesise
<1>2. /\ ~(revises /\ v.target \in fresh)
      /\ hyps' = Superseded(hyps \o accepted, target)
      /\ CommitNode(w, s, "terminator")
      /\ UNCHANGED <<steps, execs>>
  BY DEF Hypothesise
<1>3. o \in HypothesisOutputs
  BY <1>1, ValidAnswer DEF Outputs
<1>4. StateOK(st[w]) /\ CallOK(st[w], pc[w])
  BY DEF TypeOK
<1>5. /\ accepted \in Seq(Hypothesis)
      /\ \A i \in DOMAIN accepted : accepted[i].id = Len(hyps) + i
  BY <1>1, <1>3, <1>4, AcceptedType
<1>6. revises => \E i \in DOMAIN (st[w].hyps \o accepted) :
                     (st[w].hyps \o accepted)[i].id = v.target
  <2> DEFINE p == [o.reflection EXCEPT !.target = resolve_target(@, st[w], accepted)]
  <2> DEFINE list == st[w].hyps \o accepted
  <2>1. v = decide_reflection(p, list, fresh, gaps, st[w].covered, st[w].degraded)
    BY DEF _reflect
  <2> HIDE DEF v, p, fresh, gaps, accepted, list
  <2>2. revises => \E i \in DOMAIN list : list[i].id = v.target
    BY <2>1, RevisionHasTarget
  <2>3. QED
    BY <2>2 DEF list
<1>7. l \in BudgetLedger /\ l.tokens = st[w].ledger.tokens + st[w].spent + 1
  <2>1. st[w].spent + 1 \in Nat /\ st[w].ledger \in BudgetLedger /\ st[w].spent \in Int
    BY <1>4 DEF StateOK, CallOK
  <2>2. /\ Tokens(st[w].spent + 1) \in BudgetLedger
        /\ Tokens(st[w].spent + 1).tokens = st[w].spent + 1
    BY <2>1, Costs
  <2>3. l \in BudgetLedger /\ l.tokens = st[w].ledger.tokens + (st[w].spent + 1)
    BY <2>1, <2>2, ChargeAdds
  <2>4. st[w].ledger.tokens \in Nat
    BY <2>1 DEF BudgetLedger
  <2>5. QED
    BY <2>1, <2>3, <2>4
<1> HIDE DEF accepted, gaps, l
<1>8. revises => /\ \E i \in DOMAIN st[w].hyps : st[w].hyps[i].id = v.target
                 /\ \A i \in DOMAIN accepted : accepted[i].id # v.target
  <2> SUFFICES ASSUME revises
               PROVE  /\ \E i \in DOMAIN st[w].hyps : st[w].hyps[i].id = v.target
                      /\ \A i \in DOMAIN accepted : accepted[i].id # v.target
    OBVIOUS
  <2>1. \A i \in DOMAIN accepted : accepted[i].id # v.target
    BY <1>2
  <2> HIDE DEF v
  <2>2. st[w].hyps \in Seq(Hypothesis)
    BY <1>4 DEF StateOK
  <2>3. PICK i \in DOMAIN (st[w].hyps \o accepted) : (st[w].hyps \o accepted)[i].id = v.target
    BY <1>6
  <2>4. i <= Len(st[w].hyps)
    <3>1. SUFFICES ASSUME i > Len(st[w].hyps) PROVE FALSE
      BY <1>5, <2>2, <2>3
    <3>2. /\ i - Len(st[w].hyps) \in DOMAIN accepted
          /\ (st[w].hyps \o accepted)[i] = accepted[i - Len(st[w].hyps)]
      BY <1>5, <2>2, <2>3, <3>1
    <3>3. QED
      BY <2>1, <2>3, <3>2
  <2>5. i \in DOMAIN st[w].hyps /\ (st[w].hyps \o accepted)[i] = st[w].hyps[i]
    BY <1>5, <2>2, <2>3, <2>4
  <2>6. QED
    BY <2>1, <2>3, <2>5
<1> HIDE DEF v
<1>9. revises => e \in Hypothesis /\ e.id = v.target /\ e.status = "superseded"
  <2> SUFFICES ASSUME revises
               PROVE  e \in Hypothesis /\ e.id = v.target /\ e.status = "superseded"
    OBVIOUS
  <2>1. /\ FirstEntry(st[w].hyps, v.target) \in Hypothesis
        /\ FirstEntry(st[w].hyps, v.target).id = v.target
    BY <1>4, <1>8, FirstEntryFound DEF StateOK
  <2>2. QED
    BY <2>1 DEF Hypothesis, HypothesisStatus
<1> HIDE DEF e, revises
<1>10. tail \in Seq(Hypothesis)
  BY <1>9 DEF tail
<1> HIDE DEF tail, target
<1>11. /\ DOMAIN s = DOMAIN InitialState /\ s.ledger = l
       /\ s.hyps = st[w].hyps \o (accepted \o tail)
       /\ \A k \in DOMAIN InitialState \ {"hyps", "reflection", "gaps", "ledger"} :
             s[k] = st[w][k]
  BY <1>4 DEF StateOK, InitialState
<1> HIDE DEF s
<1>12. /\ s.iteration = st[w].iteration /\ s.refusal = st[w].refusal
       /\ s.unrecoverable = st[w].unrecoverable /\ s.opened = st[w].opened
       /\ s.steps = st[w].steps
  BY <1>11 DEF InitialState
<1>13. s.hyps \in Seq(Hypothesis)
  <2> HIDE DEF Hypothesis
  <2>1. st[w].hyps \in Seq(Hypothesis)
    BY <1>4 DEF StateOK
  <2>2. QED
    BY <1>5, <1>10, <1>11, <2>1
<1>14. StateOK(s)
  BY <1>4, <1>7, <1>11, <1>12, <1>13 DEF StateOK
<1>15. hyps' \in Seq(Hypothesis) /\ \A i \in DOMAIN hyps' : hyps'[i].id = i
  <2> DEFINE all == hyps \o accepted
  <2>1. hyps \in Seq(Hypothesis) /\ \A i \in DOMAIN hyps : hyps[i].id = i
    BY DEF TypeOK
  <2>2. all \in Seq(Hypothesis) /\ \A i \in DOMAIN all : all[i].id = i
    BY <1>5, <2>1
  <2>3. hyps' = Superseded(all, target)
    BY <1>2
  <2> HIDE DEF all
  <2>4. /\ Superseded(all, target) \in Seq(Hypothesis)
        /\ DOMAIN Superseded(all, target) = DOMAIN all
        /\ \A i \in DOMAIN all : Superseded(all, target)[i].id = all[i].id
    BY <2>2, SupersededType
  <2>5. QED
    BY <2>2, <2>3, <2>4
<1>16. \/ tail = <<>> /\ target = 0
       \/ /\ \E h \in Hypothesis : tail = <<h>> /\ h.id = target /\ h.status = "superseded"
          /\ \E i \in DOMAIN st[w].hyps : st[w].hyps[i].id = target
          /\ \A i \in DOMAIN accepted : accepted[i].id # target
  BY <1>8, <1>9 DEF tail, target, revises
<1>17. Concludes(w, s, accepted, tail, target)
  BY <1>2, <1>5, <1>7, <1>11, <1>12, <1>14, <1>16 DEF Concludes
<1>18. QED
  BY <1>1, <1>2, <1>15, <1>17

\* The termination rules, as far as the proofs need them.
LEMMA DecideRules ==
    ASSUME NEW u \in BOOLEAN, NEW e \in BOOLEAN, NEW r \in BOOLEAN, NEW stop \in BOOLEAN,
           NEW a \in BOOLEAN
    PROVE  LET status == decide([unrecoverable |-> u, exhausted |-> e, refusal |-> r,
                                 stop |-> stop, actionable |-> a])
           IN  /\ status \in {"none", "failed", "uncertain", "escalated"}
               /\ u <=> status = "failed"
               /\ status = "none" => ~r
               /\ status = "escalated" => a
BY DEF decide

\* The terminator: on to the planner, or to the end with a status.
LEMMA TerminatorCommits ==
    ASSUME TypeOK, NEW w \in Workers, Terminator(w)
    PROVE  /\ pc[w] = "terminator" /\ UNCHANGED rows
           /\ \E s, status :
                 /\ StateOK(s) /\ CommitNode(w, s, IF status = "none" THEN "planner" ELSE "end")
                 /\ s.ledger = st[w].ledger /\ s.unrecoverable = st[w].unrecoverable
                 /\ s.hyps = st[w].hyps
                 /\ status \in {"none", "failed", "uncertain", "escalated"}
                 /\ status # "none" => s.target = status
                 /\ st[w].unrecoverable <=> status = "failed"
                 /\ status = "none" => ~st[w].refusal
                 /\ status = "escalated" =>
                       is_actionable(st[w].hyps, st[w].covered, st[w].degraded)
<1> DEFINE e == exhausted_kinds(st[w].ledger, late, Policy) # {}
           stop == WantsToStop(st[w].decision.action, st[w].reflection)
           a == is_actionable(st[w].hyps, st[w].covered, st[w].degraded)
           status == decide([unrecoverable |-> st[w].unrecoverable, exhausted |-> e,
                             refusal |-> st[w].refusal, stop |-> stop, actionable |-> a])
           s == [st[w] EXCEPT !.terminated = status # "none",
                              !.target = IF status = "none" THEN @ ELSE status]
           next == IF status = "none" THEN "planner" ELSE "end"
<1>1. pc[w] = "terminator" /\ UNCHANGED rows /\ CommitNode(w, s, next)
  BY DEF Terminator
<1>2. StateOK(st[w]) /\ st[w].unrecoverable \in BOOLEAN /\ st[w].refusal \in BOOLEAN
  BY DEF TypeOK, StateOK
<1>3. e \in BOOLEAN /\ stop \in BOOLEAN /\ a \in BOOLEAN
  BY DEF WantsToStop, is_actionable
<1> HIDE DEF e, stop, a
<1>4. /\ status \in {"none", "failed", "uncertain", "escalated"}
      /\ st[w].unrecoverable <=> status = "failed"
      /\ status = "none" => ~st[w].refusal
      /\ status = "escalated" => a
  BY <1>2, <1>3, DecideRules
<1> HIDE DEF status
<1>5. /\ DOMAIN s = DOMAIN InitialState
      /\ status # "none" => s.target = status
      /\ \A k \in DOMAIN InitialState \ {"terminated", "target"} : s[k] = st[w][k]
  BY <1>2 DEF StateOK, InitialState
<1> HIDE DEF s
<1>6. StateOK(s) /\ s.ledger = st[w].ledger /\ s.hyps = st[w].hyps
      /\ s.unrecoverable = st[w].unrecoverable
  BY <1>2, <1>5, SameTypes DEF InitialState
<1>7. status = "escalated" => is_actionable(st[w].hyps, st[w].covered, st[w].degraded)
  BY <1>4 DEF a
<1>8. QED
  BY <1>1, <1>4, <1>5, <1>6, <1>7

-----------------------------------------------------------------------------
(* Faults, people and the end of the run.                                  *)

\* Every edge of the table leads to a status; those of a stop without repair are
\* the system's own and ask for no justification.
LEMMA TableTargets ==
    \A t \in TRANSITIONS :
        /\ t.target \in IncidentStatus
        /\ t.target \in {"uncertain", "escalated"} =>
              "system" \in t.actors /\ t.justification = FALSE
<1> SUFFICES ASSUME NEW t \in TRANSITIONS
             PROVE  /\ t.target \in IncidentStatus
                    /\ t.target \in {"uncertain", "escalated"} =>
                          "system" \in t.actors /\ t.justification = FALSE
  OBVIOUS
<1>1. CASE t \in {Edge(s, "escalated", SystemOrHuman, TRUE, FALSE) :
                      s \in IncidentStatus \ TERMINAL_STATES}
  BY <1>1 DEF Edge, IncidentStatus, SystemOrHuman, SystemOnly
<1>2. CASE t \in {Edge(s, "failed", SystemOnly, TRUE, FALSE) :
                      s \in IncidentStatus \ TERMINAL_STATES}
  BY <1>2 DEF Edge, IncidentStatus
<1>3. CASE /\ t \notin {Edge(s, "escalated", SystemOrHuman, TRUE, FALSE) :
                          s \in IncidentStatus \ TERMINAL_STATES}
           /\ t \notin {Edge(s, "failed", SystemOnly, TRUE, FALSE) :
                          s \in IncidentStatus \ TERMINAL_STATES}
  BY <1>3 DEF TRANSITIONS, Edge, IncidentStatus, SystemOnly, SystemOrHuman, HumanOnly
<1>4. QED
  BY <1>1, <1>2, <1>3

\* What finalising may apply is a status, and a stop without repair never raises.
LEMMA ApplicableIsSafe ==
    ASSUME NEW target, Applicable(target)
    PROVE  /\ target \in IncidentStatus
           /\ target \in {"uncertain", "escalated"} => SystemMay(target)
BY TableTargets DEF Applicable, Permitted, SystemMay, assert_transition_allowed

\* Completing the run.
LEMMA FinaliseType ==
    ASSUME TypeOK, NEW w \in Workers, Finalise(w)
    PROVE  /\ TypeOK'
           /\ pc[w] = "end" /\ pc'[w] \in {"mark", "idle"} /\ st'[w].call = "ask"
           /\ \A v \in Workers \ {w} : st'[v] = st[v] /\ pc'[v] = pc[v]
           /\ run'.status = "completed" /\ verdict' = st[w].target
           /\ UNCHANGED <<dispatch, ckpt, hyps, resv, calls, lost, started>>
<1>1. pc[w] = "end" /\ StateOK(st[w]) /\ CallOK(st[w], pc[w])
  BY DEF Finalise, TypeOK
<1>2. PICK p \in {"mark", "idle"}, s \in {st[w], InitialState} :
          /\ pc' = [pc EXCEPT ![w] = p]
          /\ st' = [st EXCEPT ![w] = s] \/ (st' = st /\ s = st[w])
  BY DEF Finalise, Goto, Leave
<1>3. StateOK(s) /\ CallOK(s, p) /\ s.call = "ask" /\ p \in Places
  <2>1. p \in Places /\ p \notin AskingNodes
    BY <1>2 DEF Places, AskingNodes
  <2>2. CASE s = InitialState
    BY <2>1, <2>2, InitialStateOK DEF InitialState
  <2>3. CASE s = st[w]
    BY <1>1, <2>1, <2>3 DEF CallOK, AskingNodes
  <2>4. QED
    BY <1>2, <2>1, <2>2, <2>3
<1>4. /\ pc' \in [Workers -> Places] /\ DOMAIN st' = Workers
      /\ st'[w] = s /\ pc'[w] = p
      /\ \A v \in Workers \ {w} : st'[v] = st[v] /\ pc'[v] = pc[v]
      /\ \A v \in Workers : StateOK(st'[v]) /\ CallOK(st'[v], pc'[v])
  BY <1>2, <1>3, PassMoves
<1>5. run' = [status |-> "completed", owner |-> None, expired |-> FALSE, ledger |-> st[w].ledger]
  BY DEF Finalise, TypeOK
<1>6. /\ itemLock' \in Workers \cup {None} /\ incident' \in IncidentStatus
      /\ verdict' = st[w].target
  BY ApplicableIsSafe DEF Finalise, Leave, TypeOK
<1>7. UNCHANGED <<dispatch, ckpt, steps, execs, hyps, resv, late, calls, lost, started, stalled>>
  BY DEF Finalise, rows
<1>8. st[w].ledger \in BudgetLedger
  BY <1>1 DEF StateOK
<1>9. TypeOK'
  <2>1. run' \in [status : {"none", "running", "completed", "dead_lettered"},
                  owner : Workers \cup {None, Dead}, expired : BOOLEAN, ledger : BudgetLedger]
    BY <1>5, <1>8
  <2>2. QED
    BY <1>4, <1>6, <1>7, <2>1 DEF TypeOK
<1>10. QED
  BY <1>1, <1>2, <1>3, <1>4, <1>5, <1>6, <1>7, <1>9

\* Finalising raises: the run stays as it is, without an owner.
LEMMA FinaliseRaisesType ==
    ASSUME TypeOK, NEW w \in Workers, FinaliseRaises(w)
    PROVE  /\ TypeOK'
           /\ pc[w] = "end" /\ pc'[w] = "failed" /\ UNCHANGED st
           /\ st[w].target \notin {"uncertain", "escalated"}
           /\ \A v \in Workers \ {w} : pc'[v] = pc[v]
           /\ run'.status = run.status
           /\ UNCHANGED <<dispatch, ckpt, hyps, resv, history>>
<1>1. pc[w] = "end" /\ st[w].target \notin {"uncertain", "escalated"}
  BY ApplicableIsSafe DEF FinaliseRaises
<1>2. StateOK(st[w]) /\ CallOK(st[w], "failed") /\ "failed" \in Places
  BY <1>1 DEF TypeOK, CallOK, AskingNodes, Places
<1>3. UNCHANGED st /\ pc' = [pc EXCEPT ![w] = "failed"]
  BY DEF FinaliseRaises, Goto
<1>4. /\ pc' \in [Workers -> Places] /\ DOMAIN st' = Workers
      /\ pc'[w] = "failed"
      /\ \A v \in Workers \ {w} : pc'[v] = pc[v]
      /\ \A v \in Workers : StateOK(st'[v]) /\ CallOK(st'[v], pc'[v])
  BY <1>2, <1>3, PassMoves
<1>5. UNCHANGED <<dispatch, incident, ckpt, rows, resv, itemLock, late, history>>
  BY DEF FinaliseRaises
<1>6. /\ run' \in [status : {"none", "running", "completed", "dead_lettered"},
                  owner : Workers \cup {None, Dead}, expired : BOOLEAN, ledger : BudgetLedger]
      /\ run'.status = run.status
  BY DEF FinaliseRaises, AbandonLease, TypeOK
<1>7. TypeOK'
  BY <1>4, <1>5, <1>6 DEF TypeOK, rows, history
<1>8. QED
  BY <1>1, <1>3, <1>4, <1>5, <1>6, <1>7 DEF rows

\* A process dies.
LEMMA CrashType ==
    ASSUME TypeOK, NEW w \in Workers, Crash(w)
    PROVE  /\ TypeOK'
           /\ pc'[w] = "idle" /\ st'[w].call = "ask"
           /\ \A v \in Workers \ {w} : st'[v] = st[v] /\ pc'[v] = pc[v]
           /\ run'.status = run.status
           /\ lost' = IF pc[w] \in Nodes THEN lost + 1 ELSE lost
           /\ UNCHANGED <<dispatch, ckpt, hyps, resv, calls, started, verdict>>
<1>1. st' = [st EXCEPT ![w] = InitialState] /\ pc' = [pc EXCEPT ![w] = "idle"]
  BY DEF Crash, Leave, Goto
<1>2. /\ pc' \in [Workers -> Places] /\ DOMAIN st' = Workers
      /\ st'[w] = InitialState /\ pc'[w] = "idle"
      /\ \A v \in Workers \ {w} : st'[v] = st[v] /\ pc'[v] = pc[v]
      /\ \A v \in Workers : StateOK(st'[v]) /\ CallOK(st'[v], pc'[v])
  <2>1. "idle" \in Places
    BY DEF Places
  <2>2. QED
    BY <1>1, <2>1, InitialStateOK, PassMoves
<1>3. /\ run' \in [status : {"none", "running", "completed", "dead_lettered"},
                  owner : Workers \cup {None, Dead}, expired : BOOLEAN, ledger : BudgetLedger]
      /\ run'.status = run.status
  BY DEF Crash, AbandonLease, TypeOK
<1>4. /\ itemLock' \in Workers \cup {None}
      /\ lost' = IF pc[w] \in Nodes THEN lost + 1 ELSE lost
      /\ lost' \in Nat
  BY DEF Crash, Leave, TypeOK
<1>5. UNCHANGED <<dispatch, incident, ckpt, rows, resv, late, calls, started, stalled, verdict>>
  BY DEF Crash
<1>6. TypeOK'
  BY <1>2, <1>3, <1>4, <1>5 DEF TypeOK, rows
<1>7. QED
  BY <1>2, <1>3, <1>4, <1>5, <1>6 DEF InitialState, rows

\* What happens around the passes: stalls, leases, time and people.
LEMMA OutsideType ==
    ASSUME TypeOK,
           \/ \E w \in Workers : Stall(w)
           \/ LeaseExpires \/ TimeUp
           \/ \E t \in IncidentStatus : HumanMoves(t)
    PROVE  /\ TypeOK'
           /\ run'.status = run.status /\ run'.ledger = run.ledger
           /\ UNCHANGED <<dispatch, ckpt, hyps, resv, pc, st, calls, lost, started, verdict>>
<1>1. /\ UNCHANGED <<dispatch, ckpt, rows, resv, pc, st, calls, lost, started, verdict>>
      /\ stalled' \in BOOLEAN
  BY DEF Stall, LeaseExpires, TimeUp, HumanMoves, history, TypeOK
<1>2. PICK expired \in BOOLEAN : run' = [run EXCEPT !.expired = expired] \/ run' = run
  BY DEF Stall, LeaseExpires, TimeUp, HumanMoves, TypeOK
<1>3. /\ incident' \in IncidentStatus /\ late' \in BOOLEAN /\ itemLock' \in Workers \cup {None}
  BY DEF Stall, LeaseExpires, TimeUp, HumanMoves, TypeOK
<1>4. /\ run' \in [status : {"none", "running", "completed", "dead_lettered"},
                  owner : Workers \cup {None, Dead}, expired : BOOLEAN, ledger : BudgetLedger]
      /\ run'.status = run.status /\ run'.ledger = run.ledger
  BY <1>2 DEF TypeOK
<1>5. TypeOK'
  BY <1>1, <1>3, <1>4 DEF TypeOK, rows
<1>6. QED
  BY <1>1, <1>4, <1>5 DEF rows

-----------------------------------------------------------------------------
(* Every step, by what it does to the pass that takes it.                  *)

\* A step outside the graph.
Dispatches(w) ==
    \/ Discover(w) \/ ClaimItem(w) \/ Dispatch(w) \/ StartRefused(w) \/ FollowLink(w)
    \/ DispatchFailed(w) \/ MarkCompleted(w) \/ ResumeRefused(w)

\* A step of a model call that does not take the node down.
AsksOn(w) ==
    Lookup(w) \/ (Reserve(w) /\ ~DeadLetter(w)) \/ CallProvider(w) \/ Settle(w) \/ Repair(w)

\* A node commits.
NodeCommits(w) ==
    \/ Coordinator(w) \/ PlannerRefused(w) \/ PlannerFails(w) \/ (Planner(w) /\ ~DeadLetter(w))
    \/ EvidenceRefused(w) \/ Evidence(w)
    \/ HypothesisSkipped(w) \/ (Hypothesise(w) /\ ~DeadLetter(w))
    \/ Terminator(w)

\* What happens around the passes.
Outside ==
    \/ \E w \in Workers : Stall(w)
    \/ LeaseExpires \/ TimeUp
    \/ \E t \in IncidentStatus : HumanMoves(t)

\* An exception takes down a node, and no other part of a pass.
TakenDown(w) == DeadLetter(w) /\ InNode(w)

\* The steps there are.
LEMMA StepKinds ==
    ASSUME TypeOK, Next
    PROVE  \/ \E w \in Workers :
                 \/ Dispatches(w) \/ Start(w) \/ Resume(w) \/ AsksOn(w) \/ NodeCommits(w)
                 \/ TakenDown(w) \/ Finalise(w) \/ FinaliseRaises(w) \/ Crash(w)
           \/ Outside
<1>1. \A w \in Workers : Reserve(w) \/ Planner(w) \/ Hypothesise(w) \/ NodeRaises(w) => InNode(w)
  <2> TAKE w \in Workers
  <2>1. Reserve(w) => pc[w] \in AskingNodes
    BY AsksInNode DEF Reserve
  <2>2. QED
    BY <2>1 DEF Planner, Hypothesise, NodeRaises, InNode, Nodes, AskingNodes
<1>2. CASE \E w \in Workers : Pass(w)
  BY <1>1, <1>2 DEF Pass, Dispatches, AsksOn, NodeCommits, TakenDown
<1>3. CASE \E w \in Workers : NodeRaises(w) \/ Crash(w) \/ Stall(w)
  BY <1>1, <1>3 DEF NodeRaises, TakenDown, Outside
<1>4. CASE LeaseExpires \/ TimeUp \/ \E t \in IncidentStatus : HumanMoves(t)
  BY <1>4 DEF Outside
<1>5. QED
  BY <1>2, <1>3, <1>4 DEF Next

\* What a node hands on is well formed.
Commits(w, s, next) ==
    /\ StateOK(s) /\ CommitNode(w, s, next) /\ next \in Nodes
    /\ steps' \in Seq(Step) /\ execs' \in [Menu -> {"none", "succeeded", "failed"}]
    /\ hyps' \in Seq(Hypothesis) /\ \A i \in DOMAIN hyps' : hyps'[i].id = i

\* The budget refused the planner.
MoveRefused(w, s, next) ==
    /\ pc[w] = "planner" /\ st[w].call \in {"ask", "exhausted"} /\ next = "terminator"
    /\ s.refusal = TRUE /\ s.ledger.tokens = st[w].ledger.tokens
    /\ s.unrecoverable = st[w].unrecoverable

\* A call was refused or failed, and the run's own ledger is taken over.
MoveFailed(w, s, next) ==
    /\ pc[w] \in AskingNodes /\ st[w].call # "call" /\ next = "terminator"
    /\ s.ledger = run.ledger

\* A call was answered, and is charged.
MoveAnswered(w, s, next) ==
    /\ pc[w] \in AskingNodes /\ st[w].call = "answer"
    /\ next \in {"evidence_collector", "hypothesis_engine", "terminator"}
    /\ s.ledger.tokens = st[w].ledger.tokens + st[w].spent + 1
    /\ s.unrecoverable = st[w].unrecoverable

\* A node that asked nothing.
MoveUnasked(w, s, next) ==
    /\ \/ pc[w] = "coordinator" /\ next = "planner"
       \/ pc[w] = "evidence_collector" /\ next = "terminator"
       \/ /\ pc[w] = "hypothesis_engine" /\ next = "terminator"
          /\ st[w].call = "ask" /\ EvidenceCount(st[w]) = 0
    /\ s.ledger.tokens = st[w].ledger.tokens /\ s.unrecoverable = st[w].unrecoverable

\* The terminator goes on, or ends with a status.
MoveJudged(w, s, next) ==
    /\ pc[w] = "terminator"
    /\ s.ledger = st[w].ledger /\ s.unrecoverable = st[w].unrecoverable
    /\ \/ next = "planner" /\ ~st[w].unrecoverable /\ ~st[w].refusal
       \/ /\ next = "end" /\ s.target \in {"failed", "uncertain", "escalated"}
          /\ st[w].unrecoverable <=> s.target = "failed"
          /\ s.target = "escalated" =>
                is_actionable(st[w].hyps, st[w].covered, st[w].degraded)

Moves(w, s, next) ==
    /\ Commits(w, s, next)
    /\ \/ MoveRefused(w, s, next) \/ MoveFailed(w, s, next) \/ MoveAnswered(w, s, next)
       \/ MoveUnasked(w, s, next) \/ MoveJudged(w, s, next)
    /\ \/ UNCHANGED hyps /\ s.hyps = st[w].hyps
       \/ /\ pc[w] = "hypothesis_engine"
          /\ \E accepted, tail, target : Concludes(w, s, accepted, tail, target)
    /\ next = "end" => pc[w] = "terminator"

\* Every node moves in one of these ways.
LEMMA NodeMoves ==
    ASSUME TypeOK, NEW w \in Workers, NodeCommits(w)
    PROVE  \E s, next : Moves(w, s, next)
<1>1. /\ steps \in Seq(Step) /\ execs \in [Menu -> {"none", "succeeded", "failed"}]
      /\ hyps \in Seq(Hypothesis) /\ \A i \in DOMAIN hyps : hyps[i].id = i
  BY DEF TypeOK
<1>2. {"planner", "evidence_collector", "hypothesis_engine", "terminator", "end"} \subseteq Nodes
  BY DEF Nodes
<1>3. ASSUME UNCHANGED rows, NEW s, NEW next \in Nodes, StateOK(s), CommitNode(w, s, next)
      PROVE  Commits(w, s, next) /\ UNCHANGED hyps
  BY <1>1, <1>3 DEF rows, Commits
<1>4. CASE Coordinator(w)
  <2>1. PICK s : /\ StateOK(s) /\ CommitNode(w, s, "planner")
                 /\ \A k \in DOMAIN InitialState \ {"gaps"} : s[k] = st[w][k]
    BY <1>4, CoordinatorCommits
  <2>2. s.ledger = st[w].ledger /\ s.unrecoverable = st[w].unrecoverable /\ s.hyps = st[w].hyps
    BY <2>1 DEF InitialState
  <2>3. Commits(w, s, "planner") /\ UNCHANGED hyps /\ pc[w] = "coordinator"
    BY <1>2, <1>3, <1>4, <2>1, CoordinatorCommits
  <2>4. Moves(w, s, "planner")
    BY <2>2, <2>3 DEF Moves, MoveUnasked
  <2>5. QED
    BY <2>4
<1>5. CASE PlannerRefused(w)
  <2>1. PICK s : /\ StateOK(s) /\ CommitNode(w, s, "terminator")
                 /\ s.refusal = TRUE /\ s.ledger.tokens = st[w].ledger.tokens
                 /\ s.unrecoverable = st[w].unrecoverable /\ s.hyps = st[w].hyps
    BY <1>5, PlannerRefusedCommits
  <2>2. /\ Commits(w, s, "terminator") /\ UNCHANGED hyps
        /\ pc[w] = "planner" /\ st[w].call \in {"ask", "exhausted"}
    BY <1>2, <1>3, <1>5, <2>1, PlannerRefusedCommits
  <2>3. Moves(w, s, "terminator")
    BY <2>1, <2>2 DEF Moves, MoveRefused
  <2>4. QED
    BY <2>3
<1>6. CASE PlannerFails(w)
  <2>1. PICK s : /\ StateOK(s) /\ CommitNode(w, s, "terminator")
                 /\ s.ledger = run.ledger /\ s.hyps = st[w].hyps
    BY <1>6, PlannerFailsCommits
  <2>2. /\ Commits(w, s, "terminator") /\ UNCHANGED hyps
        /\ pc[w] = "planner" /\ st[w].call # "call"
    BY <1>2, <1>3, <1>6, <2>1, PlannerFailsCommits
  <2>3. Moves(w, s, "terminator")
    BY <2>1, <2>2 DEF Moves, MoveFailed, AskingNodes
  <2>4. QED
    BY <2>3
<1>7. CASE Planner(w) /\ ~DeadLetter(w)
  <2>1. PICK s, next : /\ StateOK(s) /\ CommitNode(w, s, next)
                       /\ next \in {"evidence_collector", "hypothesis_engine", "terminator"}
                       /\ s.ledger.tokens = st[w].ledger.tokens + st[w].spent + 1
                       /\ s.unrecoverable = st[w].unrecoverable /\ s.hyps = st[w].hyps
    BY <1>7, PlannerCommits
  <2>2. /\ pc[w] = "planner" /\ st[w].call = "answer"
        /\ steps' \in Seq(Step) /\ UNCHANGED <<execs, hyps>>
    BY <1>7, PlannerCommits
  <2>3. Commits(w, s, next)
    BY <1>1, <1>2, <2>1, <2>2 DEF Commits
  <2>4. Moves(w, s, next)
    BY <2>1, <2>2, <2>3 DEF Moves, MoveAnswered, AskingNodes
  <2>5. QED
    BY <2>4
<1>8. CASE EvidenceRefused(w) \/ Evidence(w)
  <2>1. PICK s : /\ StateOK(s) /\ CommitNode(w, s, "terminator")
                 /\ s.ledger.tokens = st[w].ledger.tokens
                 /\ s.unrecoverable = st[w].unrecoverable /\ s.hyps = st[w].hyps
    BY <1>8, EvidenceCommits
  <2>2. /\ pc[w] = "evidence_collector" /\ steps' \in Seq(Step) /\ UNCHANGED hyps
        /\ execs' \in [Menu -> {"none", "succeeded", "failed"}]
    BY <1>8, EvidenceCommits
  <2>3. Commits(w, s, "terminator")
    BY <1>1, <1>2, <2>1, <2>2 DEF Commits
  <2>4. Moves(w, s, "terminator")
    BY <2>1, <2>2, <2>3 DEF Moves, MoveUnasked
  <2>5. QED
    BY <2>4
<1>9. CASE HypothesisSkipped(w)
  <2>1. PICK s : /\ StateOK(s) /\ CommitNode(w, s, "terminator")
                 /\ s.unrecoverable = st[w].unrecoverable /\ s.hyps = st[w].hyps
                 /\ \/ s.ledger = run.ledger
                    \/ /\ s.ledger = st[w].ledger
                       /\ st[w].call = "ask" /\ EvidenceCount(st[w]) = 0
    BY <1>9, HypothesisSkippedCommits
  <2>2. Commits(w, s, "terminator") /\ UNCHANGED hyps /\ pc[w] = "hypothesis_engine"
    BY <1>2, <1>3, <1>9, <2>1, HypothesisSkippedCommits
  <2>3. st[w].call # "call"
    BY <1>9 DEF HypothesisSkipped, BudgetRefusesCall, CallFailed
  <2>4. Moves(w, s, "terminator")
    BY <2>1, <2>2, <2>3 DEF Moves, MoveFailed, MoveUnasked, AskingNodes
  <2>5. QED
    BY <2>4
<1>10. CASE Hypothesise(w) /\ ~DeadLetter(w)
  <2>1. PICK s, accepted, tail, target : Concludes(w, s, accepted, tail, target)
    BY <1>10, HypothesiseCommits
  <2>2. /\ pc[w] = "hypothesis_engine" /\ st[w].call = "answer"
        /\ hyps' \in Seq(Hypothesis) /\ \A i \in DOMAIN hyps' : hyps'[i].id = i
        /\ UNCHANGED <<steps, execs>>
    BY <1>10, HypothesiseCommits
  <2>3. /\ StateOK(s) /\ CommitNode(w, s, "terminator")
        /\ s.ledger.tokens = st[w].ledger.tokens + st[w].spent + 1
        /\ s.unrecoverable = st[w].unrecoverable
    BY <2>1 DEF Concludes
  <2>4. Commits(w, s, "terminator")
    BY <1>1, <1>2, <2>2, <2>3 DEF Commits
  <2>5. MoveAnswered(w, s, "terminator")
    BY <2>2, <2>3 DEF MoveAnswered, AskingNodes
  <2>6. Moves(w, s, "terminator")
    BY <2>1, <2>2, <2>4, <2>5 DEF Moves
  <2>7. QED
    BY <2>6
<1>11. CASE Terminator(w)
  <2>1. PICK s, status :
           /\ StateOK(s) /\ CommitNode(w, s, IF status = "none" THEN "planner" ELSE "end")
           /\ s.ledger = st[w].ledger /\ s.unrecoverable = st[w].unrecoverable
           /\ s.hyps = st[w].hyps
           /\ status \in {"none", "failed", "uncertain", "escalated"}
           /\ status # "none" => s.target = status
           /\ st[w].unrecoverable <=> status = "failed"
           /\ status = "none" => ~st[w].refusal
           /\ status = "escalated" => is_actionable(st[w].hyps, st[w].covered, st[w].degraded)
    BY <1>11, TerminatorCommits
  <2> DEFINE next == IF status = "none" THEN "planner" ELSE "end"
  <2>2. next \in {"planner", "end"} /\ (next = "planner" <=> status = "none")
    OBVIOUS
  <2>3. CommitNode(w, s, next)
    BY <2>1
  <2> HIDE DEF next
  <2>4. Commits(w, s, next) /\ UNCHANGED hyps /\ pc[w] = "terminator"
    BY <1>2, <1>3, <1>11, <2>1, <2>2, <2>3, TerminatorCommits
  <2>5. MoveJudged(w, s, next)
    BY <2>1, <2>2, <2>4 DEF MoveJudged
  <2>6. Moves(w, s, next)
    BY <2>1, <2>4, <2>5 DEF Moves
  <2>7. QED
    BY <2>6
<1>12. QED
  BY <1>4, <1>5, <1>6, <1>7, <1>8, <1>9, <1>10, <1>11 DEF NodeCommits

\* Every node boundary is one.
LEMMA NodesCommit ==
    ASSUME TypeOK, NEW w \in Workers, NodeCommits(w)
    PROVE  InNode(w) /\ \E s, next : Commits(w, s, next)
<1>1. PICK s, next : Moves(w, s, next)
  BY NodeMoves
<1>2. InNode(w)
  BY <1>1 DEF Moves, MoveRefused, MoveFailed, MoveAnswered, MoveUnasked, MoveJudged, InNode, Nodes,
              AskingNodes
<1>3. QED
  BY <1>1, <1>2 DEF Moves

\* What such a boundary does.
LEMMA CommitDoes ==
    ASSUME TypeOK, NEW w \in Workers, NEW s, NEW next, Commits(w, s, next)
    PROVE  /\ TypeOK'
           /\ pc'[w] = next /\ st'[w].call = "ask" /\ st'[w].attempt = 1 /\ st'[w].spent = 0
           /\ st'[w].ledger = s.ledger /\ st'[w].hyps = s.hyps /\ st'[w].refusal = s.refusal
           /\ st'[w].unrecoverable = s.unrecoverable /\ st'[w].target = s.target
           /\ \A v \in Workers \ {w} : st'[v] = st[v] /\ pc'[v] = pc[v]
           /\ ckpt'.ledger = s.ledger
           /\ run'.ledger = s.ledger /\ run'.status = run.status
           /\ UNCHANGED <<dispatch, resv, calls, lost, started, verdict>>
<1>1. /\ TypeOK'
      /\ pc'[w] = next /\ st'[w].call = "ask" /\ st'[w].attempt = 1 /\ st'[w].spent = 0
      /\ \A k \in DOMAIN InitialState \ {"call", "attempt", "spent", "response"} :
            st'[w][k] = s[k]
      /\ \A v \in Workers \ {w} : st'[v] = st[v] /\ pc'[v] = pc[v]
      /\ ckpt'.ledger = s.ledger /\ run' = [run EXCEPT !.ledger = s.ledger, !.expired = FALSE]
      /\ UNCHANGED <<dispatch, resv, calls, lost, started, verdict>>
  BY CommitType DEF Commits
<1>2. /\ st'[w].ledger = s.ledger /\ st'[w].hyps = s.hyps /\ st'[w].refusal = s.refusal
      /\ st'[w].unrecoverable = s.unrecoverable /\ st'[w].target = s.target
  BY <1>1 DEF InitialState
<1>3. run'.ledger = s.ledger /\ run'.status = run.status
  BY <1>1 DEF TypeOK
<1>4. QED
  BY <1>1, <1>2, <1>3

\* A step of a model call: the pass keeps what it knows, and only the call moves.
LEMMA AskDoes ==
    ASSUME TypeOK, NEW w \in Workers, AsksOn(w)
    PROVE  /\ TypeOK'
           /\ pc[w] \in AskingNodes /\ UNCHANGED pc
           /\ \A k \in DOMAIN InitialState \ {"call", "attempt", "spent", "response"} :
                 st'[w][k] = st[w][k]
           /\ \A v \in Workers \ {w} : st'[v] = st[v]
           /\ run'.status = run.status
           /\ UNCHANGED <<dispatch, ckpt, hyps, lost, started, verdict>>
<1>1. CASE Lookup(w)
  BY <1>1, LookupType DEF history
<1>2. CASE Reserve(w) /\ ~DeadLetter(w)
  BY <1>2, ReserveType, ReserveForms DEF history
<1>3. CASE CallProvider(w)
  BY <1>3, CallProviderType
<1>4. CASE Settle(w)
  BY <1>4, SettleType DEF history
<1>5. CASE Repair(w)
  BY <1>5, RepairType DEF history
<1>6. QED
  BY <1>1, <1>2, <1>3, <1>4, <1>5 DEF AsksOn

\* Every step keeps the types.
LEMMA TypeStep ==
    ASSUME TypeOK, [Next]_vars
    PROVE  TypeOK'
<1>1. CASE UNCHANGED vars
  BY <1>1 DEF vars, TypeOK
<1>2. CASE Next
  <2>1. CASE Outside
    BY <2>1, OutsideType DEF Outside
  <2>2. ASSUME NEW w \in Workers,
               \/ Dispatches(w) \/ Start(w) \/ Resume(w) \/ AsksOn(w) \/ NodeCommits(w)
               \/ TakenDown(w) \/ Finalise(w) \/ FinaliseRaises(w) \/ Crash(w)
        PROVE  TypeOK'
    <3>1. CASE Dispatches(w)
      BY <3>1, DispatchType DEF Dispatches
    <3>2. CASE NodeCommits(w)
      BY <3>2, NodesCommit, CommitDoes
    <3>3. CASE \/ Start(w) \/ Resume(w) \/ AsksOn(w) \/ TakenDown(w)
               \/ Finalise(w) \/ FinaliseRaises(w) \/ Crash(w)
      BY <3>3, StartType, ResumeType, AskDoes, DeadLetterType, FinaliseType, FinaliseRaisesType,
         CrashType DEF TakenDown
    <3>4. QED
      BY <2>2, <3>1, <3>2, <3>3
  <2>3. QED
    BY <1>2, <2>1, <2>2, StepKinds
<1>3. QED
  BY <1>1, <1>2

(***************************************************************************)
(* Whatever workers, people and faults do to a request, its rows and the   *)
(* state of every pass stay well formed; no call is under way outside the  *)
(* nodes that ask the model, and the rows of hypotheses are numbered       *)
(* without a gap.                                                          *)
(***************************************************************************)
THEOREM TypeCorrect == Spec => []TypeOK
<1>1. Init => TypeOK
  BY TypeInit
<1>2. TypeOK /\ [Next]_vars => TypeOK'
  BY TypeStep
<1>3. QED
  BY <1>1, <1>2, PTL DEF Spec

-----------------------------------------------------------------------------
(* One run, and no call made twice.                                        *)

\* Whoever is in the graph or on the way to it follows a link.
LEMMA LinkedStep ==
    ASSUME TypeOK, LinkedOnce, [Next]_vars
    PROVE  LinkedOnce'
<1> DEFINE Near == Nodes \cup {"linked", "resuming"}
<1>1. CASE UNCHANGED vars
  BY <1>1 DEF vars, LinkedOnce
<1>2. CASE Outside
  BY <1>2, OutsideType DEF Outside, LinkedOnce, history
<1>3. ASSUME NEW w \in Workers, Dispatches(w)
      PROVE  LinkedOnce'
  <2>1. /\ dispatch'.linked = dispatch.linked /\ UNCHANGED <<run, calls, started>>
        /\ \A v \in Workers \ {w} : pc'[v] = pc[v]
        /\ pc \in [Workers -> Places]
    BY <1>3, DispatchType DEF Dispatches, history, TypeOK
  <2>2. ~dispatch.linked /\ pc[w] \notin Near => pc'[w] \notin Near
    <3>1. pc'[w] \notin Nodes
      BY <1>3, DispatchType DEF Dispatches
    <3>2. ~dispatch.linked /\ pc[w] \notin Near => pc'[w] \notin {"linked", "resuming"}
      BY <1>3, <2>1 DEF Dispatches, Discover, ClaimItem, Dispatch, StartRefused, FollowLink,
                        DispatchFailed, MarkCompleted, ResumeRefused, Leave, Goto
    <3>3. QED
      BY <3>1, <3>2
  <2>3. QED
    BY <2>1, <2>2 DEF LinkedOnce
<1>4. ASSUME NEW w \in Workers, Start(w)
      PROVE  LinkedOnce'
  <2>1. dispatch'.linked = TRUE /\ ~dispatch.linked /\ started' = started + 1
    BY <1>4 DEF Start, TypeOK
  <2>2. QED
    BY <2>1 DEF LinkedOnce
<1>5. ASSUME NEW w \in Workers, Resume(w)
      PROVE  LinkedOnce'
  BY <1>5 DEF Resume, LinkedOnce, history
<1>6. ASSUME NEW w \in Workers, AsksOn(w)
      PROVE  LinkedOnce'
  <2>1. dispatch.linked
    BY <1>6, AskDoes DEF LinkedOnce, AskingNodes, Nodes
  <2>2. UNCHANGED <<dispatch, started>>
    BY <1>6, AskDoes
  <2>3. QED
    BY <2>1, <2>2 DEF LinkedOnce
<1>7. ASSUME NEW w \in Workers, NodeCommits(w)
      PROVE  LinkedOnce'
  <2>1. dispatch.linked
    BY <1>7, NodesCommit DEF LinkedOnce, InNode
  <2>2. UNCHANGED <<dispatch, started>>
    BY <1>7, NodesCommit, CommitDoes
  <2>3. QED
    BY <2>1, <2>2 DEF LinkedOnce
<1>8. ASSUME NEW w \in Workers, TakenDown(w)
      PROVE  LinkedOnce'
  BY <1>8, DeadLetterType DEF TakenDown, InNode, LinkedOnce
<1>9. ASSUME NEW w \in Workers, Finalise(w) \/ FinaliseRaises(w)
      PROVE  LinkedOnce'
  <2>1. pc[w] \in Nodes /\ UNCHANGED <<dispatch, started>>
    BY <1>9, FinaliseType, FinaliseRaisesType DEF Nodes, history
  <2>2. QED
    BY <2>1 DEF LinkedOnce
<1>10. ASSUME NEW w \in Workers, Crash(w)
       PROVE  LinkedOnce'
  <2>1. pc'[w] = "idle" /\ \A v \in Workers \ {w} : pc'[v] = pc[v]
    BY <1>10, CrashType
  <2>2. run'.status = run.status /\ UNCHANGED <<dispatch, calls, started>>
    BY <1>10, CrashType
  <2>3. QED
    BY <2>1, <2>2 DEF LinkedOnce, Nodes
<1>11. QED
  BY <1>1, <1>2, <1>3, <1>4, <1>5, <1>6, <1>7, <1>8, <1>9, <1>10, StepKinds

(***************************************************************************)
(* However many workers find the request, and at whatever point they are   *)
(* lost, the dispatcher opens one run for it.                              *)
(***************************************************************************)
THEOREM OneRunPerRequestHolds == Spec => []OneRunPerRequest
<1>1. Init => LinkedOnce
  BY DEF Init, LinkedOnce, Nodes
<1>2. TypeOK /\ LinkedOnce /\ [Next]_vars => LinkedOnce'
  BY LinkedStep
<1>3. LinkedOnce => OneRunPerRequest
  BY DEF LinkedOnce, OneRunPerRequest
<1>4. QED
  BY <1>1, <1>2, <1>3, TypeCorrect, PTL DEF Spec

\* The keys that were called, and the passes that are about to call theirs.
CallsAreReserved ==
    CallHasReservation /\ CalledOnce

\* Passes that stop calling, or never called, take no key away from the others.
LEMMA FewerCallers ==
    ASSUME TypeOK, CallsAreReserved, NEW w \in Workers,
           st'[w].call # "call", \A v \in Workers \ {w} : st'[v] = st[v] /\ pc'[v] = pc[v],
           DOMAIN resv \subseteq DOMAIN resv', UNCHANGED calls
    PROVE  CallsAreReserved'
<1>1. CalledOnce'
  BY DEF CallsAreReserved, CalledOnce
<1>2. \A i \in DOMAIN calls' : calls'[i] \in DOMAIN resv'
  BY DEF CallsAreReserved, CallHasReservation
<1>3. \A v \in Workers : st'[v].call = "call" =>
          v # w /\ st[v].call = "call" /\ InvocationKey(v)' = InvocationKey(v)
  BY DEF InvocationKey
<1>4. CallHasReservation'
  BY <1>2, <1>3 DEF CallsAreReserved, CallHasReservation
<1>5. QED
  BY <1>1, <1>4 DEF CallsAreReserved

\* A reservation is the caller's own: its key was not called and nobody else has it.
LEMMA ReservationIsOwn ==
    ASSUME TypeOK, CallsAreReserved, NEW w \in Workers, Reserve(w), ~DeadLetter(w)
    PROVE  CallsAreReserved'
<1>1. /\ st'[w].call \in {"call", "exhausted"} /\ DOMAIN resv \subseteq DOMAIN resv'
      /\ \A k \in DOMAIN InitialState \ {"call", "response"} : st'[w][k] = st[w][k]
      /\ \A v \in Workers \ {w} : st'[v] = st[v]
      /\ UNCHANGED <<pc, calls>>
      /\ st'[w].call = "call" => InvocationKey(w) \in DOMAIN resv' \ DOMAIN resv
  BY ReserveType DEF history
<1>2. CASE st'[w].call = "exhausted"
  BY <1>1, <1>2, FewerCallers
<1>3. CASE st'[w].call = "call"
  <2> DEFINE key == InvocationKey(w)
  <2>1. /\ InvocationKey(w)' = key
        /\ \A v \in Workers \ {w} : InvocationKey(v)' = InvocationKey(v)
    <3>1. st'[w].iteration = st[w].iteration /\ st'[w].attempt = st[w].attempt
      BY <1>1 DEF InitialState
    <3>2. QED
      BY <1>1, <3>1 DEF InvocationKey
  <2>2. key \in DOMAIN resv' /\ key \notin DOMAIN resv
    BY <1>1, <1>3
  <2>3. \A i \in DOMAIN calls' : calls'[i] \in DOMAIN resv' /\ calls'[i] # key
    BY <1>1, <2>2 DEF CallsAreReserved, CallHasReservation
  <2>4. \A v \in Workers \ {w} : st'[v].call = "call" =>
            /\ st[v].call = "call" /\ InvocationKey(v) # key
            /\ InvocationKey(v) \in DOMAIN resv'
    BY <1>1, <2>2 DEF CallsAreReserved, CallHasReservation
  <2> HIDE DEF key
  <2>5. CallHasReservation'
    BY <1>1, <2>1, <2>2, <2>3, <2>4 DEF CallsAreReserved, CallHasReservation
  <2>6. CalledOnce'
    BY <1>1 DEF CallsAreReserved, CalledOnce
  <2>7. QED
    BY <2>5, <2>6 DEF CallsAreReserved
<1>4. QED
  BY <1>1, <1>2, <1>3

\* A call is made once, by the pass that reserved it.
LEMMA CallIsNew ==
    ASSUME TypeOK, CallsAreReserved, NEW w \in Workers, CallProvider(w)
    PROVE  CallsAreReserved'
<1> DEFINE key == InvocationKey(w)
<1>1. /\ st[w].call = "call" /\ st'[w].call # "call"
      /\ \A v \in Workers \ {w} : st'[v] = st[v]
      /\ calls' = Append(calls, key) /\ UNCHANGED <<pc, resv>>
  BY CallProviderType
<1>2. key \in DOMAIN resv /\ \A i \in DOMAIN calls : calls[i] # key
  BY <1>1 DEF CallsAreReserved, CallHasReservation
<1>3. \A v \in Workers : st'[v].call = "call" =>
          /\ v # w /\ st[v].call = "call" /\ InvocationKey(v)' = InvocationKey(v)
          /\ InvocationKey(v) # key
  BY <1>1 DEF InvocationKey, CallsAreReserved, CallHasReservation
<1> HIDE DEF key
<1>4. /\ Len(calls) \in Nat /\ DOMAIN calls = 1 .. Len(calls)
      /\ DOMAIN calls' = 1 .. (Len(calls) + 1)
      /\ \A i \in DOMAIN calls : calls'[i] = calls[i]
      /\ calls'[Len(calls) + 1] = key
  BY <1>1 DEF TypeOK
<1>5. \A i \in DOMAIN calls' : i \in DOMAIN calls \/ i = Len(calls) + 1
  BY <1>4
<1>6. CalledOnce'
  BY <1>2, <1>4, <1>5 DEF CallsAreReserved, CalledOnce
<1>7. \A i \in DOMAIN calls' : calls'[i] \in DOMAIN resv'
  BY <1>1, <1>2, <1>4, <1>5 DEF CallsAreReserved, CallHasReservation
<1>8. ASSUME NEW v \in Workers, st'[v].call = "call"
      PROVE  /\ InvocationKey(v)' \in DOMAIN resv'
             /\ \A i \in DOMAIN calls' : calls'[i] # InvocationKey(v)'
             /\ \A u \in Workers \ {v} : st'[u].call = "call" => InvocationKey(u)' # InvocationKey(v)'
  <2>1. /\ st[v].call = "call" /\ InvocationKey(v)' = InvocationKey(v) /\ InvocationKey(v) # key
    BY <1>3, <1>8
  <2>2. InvocationKey(v) \in DOMAIN resv /\ \A i \in DOMAIN calls : calls[i] # InvocationKey(v)
    BY <2>1 DEF CallsAreReserved, CallHasReservation
  <2>3. \A u \in Workers \ {v} : st'[u].call = "call" => InvocationKey(u)' # InvocationKey(v)'
    BY <1>3, <2>1 DEF CallsAreReserved, CallHasReservation
  <2>4. QED
    BY <1>1, <1>4, <1>5, <2>1, <2>2, <2>3
<1>9. CallHasReservation'
  BY <1>7, <1>8 DEF CallHasReservation
<1>10. QED
  BY <1>6, <1>9 DEF CallsAreReserved

\* Every other step leaves fewer callers, or the same.
LEMMA ReservedStep ==
    ASSUME TypeOK, CallsAreReserved, [Next]_vars
    PROVE  CallsAreReserved'
<1>1. CASE UNCHANGED vars
  BY <1>1 DEF vars, CallsAreReserved, CallHasReservation, CalledOnce, InvocationKey
<1>2. CASE Outside
  <2>1. UNCHANGED <<resv, pc, st, calls>>
    BY <1>2, OutsideType DEF Outside, history
  <2>2. QED
    BY <2>1 DEF CallsAreReserved, CallHasReservation, CalledOnce, InvocationKey
<1>3. ASSUME NEW w \in Workers, AsksOn(w)
      PROVE  CallsAreReserved'
  <2>1. CASE Lookup(w) \/ Settle(w) \/ Repair(w)
    <3>1. /\ st'[w].call # "call" /\ \A v \in Workers \ {w} : st'[v] = st[v]
          /\ DOMAIN resv \subseteq DOMAIN resv' /\ UNCHANGED <<pc, calls>>
      BY <2>1, LookupType, SettleType, RepairType DEF history
    <3>2. QED
      BY <3>1, FewerCallers
  <2>2. QED
    BY <1>3, <2>1, ReservationIsOwn, CallIsNew DEF AsksOn
<1>4. ASSUME NEW w \in Workers,
             \/ Dispatches(w) \/ Start(w) \/ Resume(w) \/ NodeCommits(w)
             \/ TakenDown(w) \/ Finalise(w) \/ FinaliseRaises(w) \/ Crash(w)
      PROVE  CallsAreReserved'
  <2>1. /\ st'[w].call = "ask"
        /\ \A v \in Workers \ {w} : st'[v] = st[v] /\ pc'[v] = pc[v]
        /\ UNCHANGED <<resv, calls>>
    <3>1. CASE Dispatches(w)
      BY <3>1, DispatchType DEF Dispatches, history
    <3>2. CASE Start(w)
      BY <3>2, StartType DEF Start
    <3>3. CASE Resume(w)
      BY <3>3, ResumeType, RehydrateOK DEF Resume, history
    <3>4. CASE NodeCommits(w)
      BY <3>4, NodesCommit, CommitDoes
    <3>5. CASE TakenDown(w)
      BY <3>5, DeadLetterType DEF TakenDown
    <3>6. CASE FinaliseRaises(w)
      <4>1. st[w].call = "ask"
        BY <3>6 DEF FinaliseRaises, TypeOK, CallOK, AskingNodes
      <4>2. QED
        BY <3>6, <4>1, FinaliseRaisesType DEF history
    <3>7. CASE Finalise(w) \/ Crash(w)
      BY <3>7, FinaliseType, CrashType
    <3>8. QED
      BY <1>4, <3>1, <3>2, <3>3, <3>4, <3>5, <3>6, <3>7
  <2>2. QED
    BY <2>1, FewerCallers
<1>5. QED
  BY <1>1, <1>2, <1>3, <1>4, StepKinds

(***************************************************************************)
(* No model call is paid for twice, whatever passes run at once and        *)
(* wherever they are lost: the key of a call is reserved by one of them,   *)
(* in a transaction of its own, before the provider is called.             *)
(***************************************************************************)
THEOREM CalledOnceHolds == Spec => []CalledOnce
<1>1. Init => CallsAreReserved
  BY DEF Init, InitialState, CallsAreReserved, CallHasReservation, CalledOnce
<1>2. TypeOK /\ CallsAreReserved /\ [Next]_vars => CallsAreReserved'
  BY ReservedStep
<1>3. CallsAreReserved => CalledOnce
  BY DEF CallsAreReserved
<1>4. QED
  BY <1>1, <1>2, <1>3, TypeCorrect, PTL DEF Spec

-----------------------------------------------------------------------------
(* A cause is named on grounds.                                            *)

\* A list of hypotheses that says what the rows say.
Believes(list) ==
    \A i \in DOMAIN list :
        /\ list[i].id \in DOMAIN hyps
        /\ IsLatest(list, i) /\ list[i].status # "superseded" => hyps[list[i].id] = list[i]

\* What is actionable in the eyes of such a pass is so by the rows.
LEMMA ActionableIsGrounded ==
    ASSUME NEW list, Believes(list), NEW covered, NEW degraded,
           is_actionable(list, covered, degraded)
    PROVE  Grounds
<1>1. PICK best \in Candidates(list) :
          /\ best.confidence >= MIN_ACTIONABLE_CONFIDENCE
          /\ best.support >= MIN_EVIDENCE_FOR_CONCLUSION
          /\ best.contra = 0
  BY DEF is_actionable, BestHypotheses
<1>2. PICK i \in DOMAIN list : /\ best = list[i] /\ IsLatest(list, i)
                               /\ list[i].status \in {"proposed", "accepted"}
  BY DEF Candidates
<1>3. list[i].id \in DOMAIN hyps /\ hyps[list[i].id] = best /\ best.status # "superseded"
  BY <1>2 DEF Believes
<1>4. QED
  BY <1>1, <1>3 DEF Grounds

\* A pass that knows the rows believes them, and one that knows nothing does.
LEMMA RowsAreBelieved ==
    ASSUME TypeOK
    PROVE  Believes(hyps) /\ Believes(<<>>)
BY DEF TypeOK, Believes

\* Two lists, one after the other.
LEMMA Joined ==
    ASSUME NEW S, NEW a \in Seq(S), NEW b \in Seq(S)
    PROVE  /\ a \o b \in Seq(S) /\ Len(a \o b) = Len(a) + Len(b)
           /\ DOMAIN (a \o b) = 1 .. (Len(a) + Len(b))
           /\ \A i \in 1 .. Len(a) : (a \o b)[i] = a[i]
           /\ \A i \in 1 .. Len(b) : (a \o b)[Len(a) + i] = b[i]
OBVIOUS

(***************************************************************************)
(* Accepted hypotheses are believed as they are recorded; an older entry   *)
(* is believed as before unless it is the one that was superseded, which   *)
(* the closing entry says of it.                                           *)
(***************************************************************************)
LEMMA ConcludingKeepsBeliefs ==
    ASSUME TypeOK, NEW w \in Workers, Believes(st[w].hyps),
           NEW s, NEW accepted, NEW tail, NEW target, Concludes(w, s, accepted, tail, target)
    PROVE  Believes(s.hyps)'
<1> DEFINE old == st[w].hyps
           new == old \o (accepted \o tail)
           all == hyps \o accepted
           n == Len(old)
           m == Len(accepted)
<1>1. /\ old \in Seq(Hypothesis) /\ hyps \in Seq(Hypothesis) /\ accepted \in Seq(Hypothesis)
      /\ \A i \in DOMAIN hyps : hyps[i].id = i
      /\ \A i \in DOMAIN accepted : accepted[i].id = Len(hyps) + i
  BY DEF TypeOK, StateOK, Concludes
<1>2. /\ tail \in Seq(Hypothesis)
      /\ \/ tail = <<>> /\ target = 0
         \/ /\ Len(tail) = 1 /\ tail[1].id = target /\ tail[1].status = "superseded"
            /\ \E i \in DOMAIN old : old[i].id = target
            /\ \A i \in DOMAIN accepted : accepted[i].id # target
  <2>1. CASE tail = <<>> /\ target = 0
    BY <2>1
  <2>2. CASE /\ \E h \in Hypothesis : tail = <<h>> /\ h.id = target /\ h.status = "superseded"
             /\ \E i \in DOMAIN st[w].hyps : st[w].hyps[i].id = target
             /\ \A i \in DOMAIN accepted : accepted[i].id # target
    BY <2>2
  <2>3. QED
    BY <2>1, <2>2 DEF Concludes
<1>3. hyps' = Superseded(all, target) /\ s.hyps = new
  BY DEF Concludes
<1>4. n \in Nat /\ m \in Nat /\ Len(tail) \in {0, 1} /\ Len(hyps) \in Nat
  BY <1>1, <1>2
<1>5. /\ DOMAIN new = 1 .. (n + m + Len(tail))
      /\ Len(new) = n + m + Len(tail)
      /\ \A i \in 1 .. n : new[i] = old[i]
      /\ \A i \in 1 .. m : new[n + i] = accepted[i]
      /\ Len(tail) = 1 => new[n + m + 1] = tail[1]
  <2> DEFINE rest == accepted \o tail
  <2>1. /\ rest \in Seq(Hypothesis) /\ Len(rest) = m + Len(tail)
        /\ \A i \in 1 .. m : rest[i] = accepted[i]
        /\ Len(tail) = 1 => rest[m + 1] = tail[1]
    BY <1>1, <1>2, <1>4, Joined
  <2> HIDE DEF rest, old
  <2>2. /\ DOMAIN (old \o rest) = 1 .. (n + Len(rest)) /\ Len(old \o rest) = n + Len(rest)
        /\ \A i \in 1 .. n : (old \o rest)[i] = old[i]
        /\ \A i \in 1 .. Len(rest) : (old \o rest)[n + i] = rest[i]
    <3>1. old \in Seq(Hypothesis) /\ rest \in Seq(Hypothesis)
      BY <1>1, <2>1
    <3>2. QED
      BY <3>1
  <2>3. new = old \o rest
    BY DEF rest, old
  <2> HIDE DEF new, n, m
  <2>4. n + Len(rest) = n + m + Len(tail) /\ \A i \in 1 .. m : i \in 1 .. Len(rest)
    BY <1>4, <2>1
  <2>5. Len(tail) = 1 => m + 1 \in 1 .. Len(rest) /\ n + (m + 1) = n + m + 1
    BY <1>4, <2>1
  <2>6. QED
    BY <2>1, <2>2, <2>3, <2>4, <2>5
<1>6. /\ all \in Seq(Hypothesis) /\ DOMAIN all = 1 .. (Len(hyps) + m)
      /\ \A i \in 1 .. Len(hyps) : all[i] = hyps[i]
      /\ \A i \in 1 .. m : all[Len(hyps) + i] = accepted[i]
  BY <1>1
<1>7. /\ DOMAIN hyps' = 1 .. (Len(hyps) + m)
      /\ \A i \in DOMAIN all : all[i].id # target => hyps'[i] = all[i]
  <2> HIDE DEF all
  <2>1. QED
    BY <1>3, <1>6, SupersededType
<1>8. \A i \in 1 .. n : old[i].id \in 1 .. Len(hyps)
  BY <1>1 DEF Believes
<1> HIDE DEF all, new, n, m
<1>9. ASSUME NEW i \in DOMAIN new
      PROVE  /\ new[i].id \in DOMAIN hyps'
             /\ IsLatest(new, i) /\ new[i].status # "superseded" => hyps'[new[i].id] = new[i]
  <2>1. CASE i \in 1 .. n
    <3>1. new[i] = old[i] /\ i \in DOMAIN old /\ DOMAIN old = 1 .. n /\ Len(old) = n
      BY <1>1, <1>5, <2>1 DEF n
    <3>2. old[i].id \in 1 .. Len(hyps) /\ old[i].id \in DOMAIN hyps'
      BY <1>4, <1>7, <1>8, <2>1
    <3>3. ASSUME IsLatest(new, i), new[i].status # "superseded"
          PROVE  hyps'[new[i].id] = new[i]
      <4>1. IsLatest(old, i)
        <5>1. ASSUME NEW j \in (i + 1) .. Len(old) PROVE old[j].id # old[i].id
          <6>1. j \in (i + 1) .. Len(new) /\ new[j] = old[j]
            BY <1>4, <1>5, <2>1, <3>1
          <6>2. QED
            BY <3>1, <3>3, <6>1 DEF IsLatest
        <5>2. QED
          BY <5>1 DEF IsLatest
      <4>2. hyps[old[i].id] = old[i]
        BY <3>1, <3>3, <4>1 DEF Believes
      <4>3. old[i].id # target
        <5>1. CASE tail = <<>> /\ target = 0
          BY <1>4, <3>2, <5>1
        <5>2. CASE Len(tail) = 1 /\ tail[1].id = target
          <6>1. n + m + 1 \in (i + 1) .. Len(new) /\ new[n + m + 1] = tail[1]
            BY <1>4, <1>5, <2>1, <5>2
          <6>2. QED
            BY <3>1, <3>3, <5>2, <6>1 DEF IsLatest
        <5>3. QED
          BY <1>2, <5>1, <5>2
      <4>4. old[i].id \in DOMAIN all /\ all[old[i].id] = old[i]
        BY <1>4, <1>6, <3>2, <4>2
      <4>5. QED
        BY <1>1, <1>7, <3>1, <3>2, <4>3, <4>4
    <3>4. QED
      BY <3>1, <3>2, <3>3
  <2>2. CASE i \in (n + 1) .. (n + m)
    <3>1. PICK j \in 1 .. m : i = n + j
      <4>1. i - n \in 1 .. m /\ i = n + (i - n)
        BY <1>4, <2>2
      <4>2. QED
        BY <4>1
    <3>2. new[i] = accepted[j] /\ accepted[j].id = Len(hyps) + j
      BY <1>1, <1>5, <3>1 DEF m
    <3>3. Len(hyps) + j \in DOMAIN all /\ all[Len(hyps) + j] = accepted[j]
      BY <1>4, <1>6, <3>1
    <3>4. accepted[j].id # target
      <4>1. j \in DOMAIN accepted
        BY <1>1, <3>1 DEF m
      <4>2. QED
        BY <1>2, <1>4, <3>2, <4>1
    <3>5. QED
      BY <1>4, <1>6, <1>7, <3>1, <3>2, <3>3, <3>4
  <2>3. CASE Len(tail) = 1 /\ i = n + m + 1
    <3>1. /\ new[i].id = target /\ new[i].status = "superseded"
          /\ \E k \in DOMAIN old : old[k].id = target
      <4>1. tail # <<>>
        BY <2>3
      <4>2. new[i] = tail[1]
        BY <1>5, <2>3
      <4>3. QED
        BY <1>2, <4>1, <4>2
    <3>2. target \in 1 .. Len(hyps)
      BY <1>1, <1>8, <3>1 DEF n
    <3>3. QED
      BY <1>4, <1>7, <3>1, <3>2
  <2>4. i \in 1 .. n \/ i \in (n + 1) .. (n + m) \/ (Len(tail) = 1 /\ i = n + m + 1)
    <3>1. i \in 1 .. (n + m + Len(tail))
      BY <1>5
    <3>2. CASE Len(tail) = 0
      <4>1. i \in 1 .. (n + m)
        BY <1>4, <3>1, <3>2
      <4>2. QED
        BY <1>4, <4>1
    <3>3. CASE Len(tail) = 1
      <4>1. i \in 1 .. (n + m + 1)
        BY <1>4, <3>1, <3>3
      <4>2. QED
        BY <1>4, <3>3, <4>1
    <3>4. QED
      BY <1>4, <3>2, <3>3
  <2>5. QED
    BY <2>1, <2>2, <2>3, <2>4
<1>10. QED
  BY <1>3, <1>9 DEF Believes

\* Whoever drives the run believes the rows, by either definition.
LEMMA BeliefsForm ==
    BeliefsAreRows <=> \A w \in Workers : pc[w] \in Nodes => Believes(st[w].hyps)
BY DEF BeliefsAreRows, Believes

\* The same of the next state.
LEMMA BeliefsFormNext ==
    BeliefsAreRows' <=> \A w \in Workers : pc'[w] \in Nodes => Believes(st[w].hyps)'
BY DEF BeliefsAreRows, Believes

\* As long as the rows stay, so does what is believed of them.
LEMMA SameRowsSameBeliefs ==
    ASSUME UNCHANGED hyps, NEW u, NEW v, st[u].hyps = st'[v].hyps, Believes(st[u].hyps)
    PROVE  Believes(st[v].hyps)'
BY DEF Believes

\* A pass in the graph believes the rows, as long as it is alone there.
LEMMA BeliefsStep ==
    ASSUME TypeOK, BeliefsAreRows, OneAtATime, [Next]_vars
    PROVE  BeliefsAreRows'
<1> SUFFICES ASSUME NEW v \in Workers, pc'[v] \in Nodes
             PROVE  Believes(st[v].hyps)'
  BY BeliefsFormNext
<1>1. pc[v] \in Nodes => Believes(st[v].hyps)
  BY BeliefsForm
<1>2. ASSUME UNCHANGED hyps, pc[v] \in Nodes, st'[v].hyps = st[v].hyps
      PROVE  Believes(st[v].hyps)'
  BY <1>1, <1>2, SameRowsSameBeliefs
<1>3. CASE UNCHANGED vars
  BY <1>2, <1>3 DEF vars
<1>4. CASE Outside
  BY <1>2, <1>4, OutsideType DEF Outside
<1>5. ASSUME NEW w \in Workers, Dispatches(w)
      PROVE  Believes(st[v].hyps)'
  <2>1. v # w /\ UNCHANGED hyps
    BY <1>5, DispatchType DEF Dispatches, rows
  <2>2. st'[v] = st[v] /\ pc'[v] = pc[v]
    BY <1>5, <2>1, DispatchType DEF Dispatches
  <2>3. QED
    BY <1>2, <2>1, <2>2
<1>6. ASSUME NEW w \in Workers, Start(w)
      PROVE  Believes(st[v].hyps)'
  <2>1. UNCHANGED hyps
    BY <1>6 DEF Start, rows
  <2>2. CASE v = w
    <3>1. st'[v].hyps = <<>>
      BY <1>6, <2>2, StartType
    <3>2. QED
      BY <3>1 DEF Believes
  <2>3. CASE v # w
    BY <1>2, <1>6, <2>1, <2>3, StartType
  <2>4. QED
    BY <2>2, <2>3
<1>7. ASSUME NEW w \in Workers, Resume(w)
      PROVE  Believes(st[v].hyps)'
  <2>1. UNCHANGED hyps
    BY <1>7 DEF Resume, rows
  <2>2. CASE v = w
    <3>1. st'[v].hyps = hyps
      BY <1>7, <2>2, ResumeType, RehydrateOK
    <3>2. Believes(hyps)
      BY RowsAreBelieved
    <3>3. QED
      BY <2>1, <3>1, <3>2 DEF Believes
  <2>3. CASE v # w
    BY <1>2, <1>7, <2>1, <2>3, ResumeType
  <2>4. QED
    BY <2>2, <2>3
<1>8. ASSUME NEW w \in Workers, AsksOn(w)
      PROVE  Believes(st[v].hyps)'
  <2>1. UNCHANGED <<hyps, pc>> /\ st'[w].hyps = st[w].hyps
    BY <1>8, AskDoes DEF InitialState
  <2>2. v # w => st'[v] = st[v]
    BY <1>8, AskDoes
  <2>3. QED
    BY <1>2, <2>1, <2>2
<1>9. ASSUME NEW w \in Workers, NodeCommits(w)
      PROVE  Believes(st[v].hyps)'
  <2>1. v = w /\ pc[w] \in Nodes
    <3>1. pc[w] \in Nodes
      BY <1>9, NodesCommit DEF InNode
    <3>2. v # w => pc[v] \in Nodes
      BY <1>9, NodesCommit, CommitDoes
    <3>3. QED
      BY <3>1, <3>2 DEF OneAtATime
  <2>2. PICK s, next : Moves(w, s, next)
    BY <1>9, NodeMoves
  <2>3. st'[w].hyps = s.hyps
    BY <2>2, CommitDoes DEF Moves
  <2>4. CASE UNCHANGED hyps /\ s.hyps = st[w].hyps
    BY <1>2, <2>1, <2>3, <2>4
  <2>5. CASE \E accepted, tail, target : Concludes(w, s, accepted, tail, target)
    <3>1. Believes(s.hyps)'
      BY <1>1, <2>1, <2>5, ConcludingKeepsBeliefs
    <3>2. QED
      BY <2>1, <2>3, <3>1 DEF Believes
  <2>6. QED
    BY <2>2, <2>4, <2>5 DEF Moves
<1>10. ASSUME NEW w \in Workers,
              TakenDown(w) \/ Finalise(w) \/ FinaliseRaises(w) \/ Crash(w)
       PROVE  Believes(st[v].hyps)'
  <2>1. pc'[w] \notin Nodes /\ UNCHANGED hyps
    BY <1>10, DeadLetterType, FinaliseType, FinaliseRaisesType, CrashType DEF TakenDown, Nodes
  <2>2. \A u \in Workers \ {w} : st'[u] = st[u] /\ pc'[u] = pc[u]
    BY <1>10, DeadLetterType, FinaliseType, FinaliseRaisesType, CrashType DEF TakenDown
  <2>3. QED
    BY <1>2, <2>1, <2>2
<1>11. QED
  BY <1>3, <1>4, <1>5, <1>6, <1>7, <1>8, <1>9, <1>10, StepKinds

\* What entitles the run to its end.
LEMMA EndStep ==
    ASSUME TypeOK, LinkedOnce, BeliefsAreRows, EndIsEarned, OneAtATime, [Next]_vars
    PROVE  EndIsEarned'
<1>1. ASSUME UNCHANGED <<hyps, verdict>>, run'.status = run.status,
             \A v \in Workers : pc'[v] \in Nodes => pc[v] \in Nodes,
             \A v \in Workers : pc'[v] = "end" => pc[v] = "end" /\ st'[v].target = st[v].target
      PROVE  EndIsEarned'
  <2>1. Grounds' <=> Grounds
    BY <1>1 DEF Grounds
  <2>2. QED
    BY <1>1, <2>1 DEF EndIsEarned
<1>2. ASSUME NEW w \in Workers, pc[w] \in Nodes
      PROVE  /\ run.status # "completed" /\ verdict = "none"
             /\ \A v \in Workers \ {w} : pc[v] \notin Nodes
  BY <1>2 DEF EndIsEarned, OneAtATime
<1>3. CASE UNCHANGED vars
  BY <1>1, <1>3 DEF vars
<1>4. CASE Outside
  BY <1>1, <1>4, OutsideType DEF Outside, history
<1>5. ASSUME NEW w \in Workers, Dispatches(w)
      PROVE  EndIsEarned'
  <2>1. /\ UNCHANGED <<hyps, verdict, run>> /\ pc'[w] \notin Nodes
        /\ \A v \in Workers \ {w} : st'[v] = st[v] /\ pc'[v] = pc[v]
    BY <1>5, DispatchType DEF Dispatches, rows, history
  <2>2. QED
    BY <1>1, <2>1 DEF Nodes
<1>6. ASSUME NEW w \in Workers, Start(w)
      PROVE  EndIsEarned'
  <2>1. ~dispatch.linked /\ run'.status = "running" /\ UNCHANGED <<hyps, verdict>>
    BY <1>6 DEF Start, rows
  <2>2. run.status = "none" /\ \A v \in Workers : pc[v] \notin Nodes
    BY <2>1 DEF LinkedOnce
  <2>3. verdict' = "none"
    BY <2>1, <2>2 DEF EndIsEarned
  <2>4. \A v \in Workers : pc'[v] # "end"
    BY <1>6, <2>2, StartType DEF Nodes
  <2>5. QED
    BY <2>1, <2>3, <2>4 DEF EndIsEarned
<1>7. ASSUME NEW w \in Workers, Resume(w)
      PROVE  EndIsEarned'
  <2>1. /\ run.status # "completed" /\ run'.status = "running"
        /\ UNCHANGED <<hyps, verdict>>
    BY <1>7 DEF Resume, rows, history, TypeOK
  <2>2. verdict' = "none"
    BY <2>1 DEF EndIsEarned
  <2>3. /\ pc'[w] = "coordinator"
        /\ \A v \in Workers \ {w} : st'[v] = st[v] /\ pc'[v] = pc[v]
    BY <1>7, ResumeType
  <2>4. \A v \in Workers : pc'[v] = "end" => pc[v] = "end" /\ st'[v] = st[v]
    BY <2>3
  <2>5. Grounds' <=> Grounds
    BY <2>1 DEF Grounds
  <2>6. QED
    BY <2>1, <2>2, <2>4, <2>5 DEF EndIsEarned
<1>8. ASSUME NEW w \in Workers, AsksOn(w)
      PROVE  EndIsEarned'
  <2>1. /\ pc[w] \in AskingNodes /\ run'.status = run.status /\ UNCHANGED <<hyps, verdict, pc>>
        /\ \A v \in Workers \ {w} : st'[v] = st[v]
    BY <1>8, AskDoes
  <2>2. QED
    BY <1>1, <2>1 DEF AskingNodes
<1>9. ASSUME NEW w \in Workers, NodeCommits(w)
      PROVE  EndIsEarned'
  <2>1. PICK s, next : Moves(w, s, next)
    BY <1>9, NodeMoves
  <2>2. /\ pc'[w] = next /\ st'[w].target = s.target
        /\ \A v \in Workers \ {w} : pc'[v] = pc[v]
        /\ run'.status = run.status /\ UNCHANGED verdict
    BY <2>1, CommitDoes DEF Moves
  <2>3. pc[w] \in Nodes
    BY <1>9, NodesCommit DEF InNode
  <2>4. run'.status # "completed" /\ verdict' = "none" /\ \A v \in Workers \ {w} : pc'[v] # "end"
    BY <1>2, <2>2, <2>3 DEF Nodes
  <2>5. ASSUME next = "end"
        PROVE  /\ s.target \in {"failed", "uncertain", "escalated"}
               /\ s.target = "escalated" => Grounds'
    <3>1. MoveJudged(w, s, next) /\ UNCHANGED hyps
      BY <2>1, <2>5 DEF Moves, MoveRefused, MoveFailed, MoveAnswered, MoveUnasked
    <3>2. Believes(st[w].hyps)
      BY <2>3, BeliefsForm
    <3>3. s.target = "escalated" => Grounds
      BY <2>5, <3>1, <3>2, ActionableIsGrounded DEF MoveJudged
    <3>4. QED
      BY <2>5, <3>1, <3>3 DEF MoveJudged, Grounds
  <2>6. QED
    BY <2>2, <2>4, <2>5 DEF EndIsEarned
<1>10. ASSUME NEW w \in Workers, TakenDown(w)
       PROVE  EndIsEarned'
  <2>1. /\ pc'[w] = "failed" /\ \A v \in Workers \ {w} : pc'[v] = pc[v]
        /\ run'.status = "dead_lettered" /\ UNCHANGED verdict
    BY <1>10, DeadLetterType DEF TakenDown
  <2>2. verdict' = "none" /\ \A v \in Workers : pc'[v] # "end"
    BY <1>2, <1>10, <2>1 DEF TakenDown, InNode, Nodes
  <2>3. QED
    BY <2>1, <2>2 DEF EndIsEarned
<1>11. ASSUME NEW w \in Workers, Finalise(w)
       PROVE  EndIsEarned'
  <2>1. /\ pc[w] = "end" /\ pc'[w] \notin Nodes /\ \A v \in Workers \ {w} : pc'[v] = pc[v]
        /\ run'.status = "completed" /\ verdict' = st[w].target /\ UNCHANGED hyps
    BY <1>11, FinaliseType DEF Nodes
  <2>2. \A v \in Workers : pc'[v] \notin Nodes
    BY <1>2, <2>1 DEF Nodes
  <2>3. verdict' = "escalated" => Grounds'
    BY <2>1 DEF EndIsEarned, Grounds
  <2>4. QED
    BY <2>1, <2>2, <2>3 DEF EndIsEarned, Nodes
<1>12. ASSUME NEW w \in Workers, FinaliseRaises(w) \/ Crash(w)
       PROVE  EndIsEarned'
  <2>1. /\ pc'[w] \notin Nodes /\ run'.status = run.status /\ UNCHANGED <<hyps, verdict>>
        /\ \A v \in Workers \ {w} : st'[v] = st[v] /\ pc'[v] = pc[v]
    BY <1>12, FinaliseRaisesType, CrashType DEF Nodes, history
  <2>2. QED
    BY <1>1, <2>1 DEF Nodes
<1>13. QED
  BY <1>3, <1>4, <1>5, <1>6, <1>7, <1>8, <1>9, <1>10, <1>11, <1>12, StepKinds

-----------------------------------------------------------------------------
(* The calls are accounted for.                                            *)

\* The numbers that are compared.
LEMMA LedgerNumbers ==
    ASSUME TypeOK
    PROVE  /\ Len(calls) \in Nat /\ lost \in Nat /\ Policy.tokens \in Nat
           /\ ckpt.ledger.tokens \in Nat /\ run.ledger.tokens \in Nat
           /\ \A w \in Workers : /\ st[w].ledger.tokens \in Nat /\ st[w].spent \in {0, 1, 2}
                                 /\ st[w].call # "schema" => st[w].spent = st[w].attempt - 1
                                 /\ st[w].call = "schema" => st[w].spent = 2
                                 /\ st[w].attempt \in {1, 2}
<1>1. Len(calls) \in Nat /\ lost \in Nat
  BY DEF TypeOK
<1>2. Policy.tokens \in Nat
  BY PolicyAssumption DEF NoCharge
<1>3. ckpt.ledger.tokens \in Nat /\ run.ledger.tokens \in Nat
  BY DEF TypeOK, BudgetLedger
<1>4. \A w \in Workers : st[w].ledger.tokens \in Nat
  BY DEF TypeOK, StateOK, BudgetLedger
<1>5. \A w \in Workers : /\ st[w].call # "schema" => st[w].spent = st[w].attempt - 1
                         /\ st[w].call = "schema" => st[w].spent = 2
                         /\ st[w].attempt \in {1, 2}
  BY DEF TypeOK, CallOK
<1>6. QED
  BY <1>1, <1>2, <1>3, <1>4, <1>5

\* A node boundary keeps the account of the pass that crosses it.
LEMMA CommitAccounted ==
    ASSUME TypeOK, NEW w \in Workers, pc[w] \in Nodes, Accounted(w), WithinBudget,
           NEW s, NEW next, Moves(w, s, next)
    PROVE  Accounted(w)' /\ WithinBudget'
<1> DEFINE kept == ckpt.ledger.tokens
           spent == st[w].spent
           used == run.ledger.tokens
<1>1. /\ TypeOK'
      /\ pc'[w] = next /\ st'[w].call = "ask" /\ st'[w].attempt = 1 /\ st'[w].spent = 0
      /\ st'[w].ledger = s.ledger /\ st'[w].refusal = s.refusal
      /\ st'[w].unrecoverable = s.unrecoverable /\ st'[w].target = s.target
      /\ ckpt'.ledger = s.ledger /\ run'.ledger = s.ledger
      /\ UNCHANGED <<calls, lost>>
  BY CommitDoes DEF Moves
<1>2. WithinBudget'
  BY <1>1 DEF WithinBudget
<1>3. /\ Len(calls) \in Nat /\ lost \in Nat /\ kept \in Nat /\ used \in Nat
      /\ st[w].ledger = ckpt.ledger /\ spent \in {0, 1, 2}
      /\ st[w].call # "schema" => spent = st[w].attempt - 1
      /\ st[w].attempt \in {1, 2}
  BY LedgerNumbers DEF Accounted
<1>4. s.ledger.tokens \in Nat
  BY <1>1, LedgerNumbers DEF Moves, Commits, StateOK, BudgetLedger
<1>5. next \in Nodes
  BY DEF Moves, Commits
<1>6. ASSUME PaidBy(s.ledger.tokens), next # "terminator" /\ next # "end" => ~s.unrecoverable
      PROVE  Accounted(w)'
  <2>1. PaidBy(ckpt.ledger.tokens)' /\ PaidBy(run.ledger.tokens)'
    BY <1>1, <1>6 DEF PaidBy
  <2>2. Pending(st[w])' = 0
    BY <1>1 DEF Pending
  <2>3. run'.ledger.tokens <= ckpt'.ledger.tokens + 0 + 0 /\ run'.ledger.tokens - 0 = run'.ledger.tokens
    BY <1>1, <1>4
  <2>4. QED
    BY <1>1, <1>5, <1>6, <2>1, <2>2, <2>3 DEF Accounted, AskingNodes
<1>7. CASE MoveRefused(w, s, next)
  <2>1. pc[w] \in AskingNodes /\ Pending(st[w]) = 0 /\ st[w].call # "call"
    BY <1>7 DEF MoveRefused, Pending, AskingNodes
  <2>2. /\ ~st[w].unrecoverable /\ used <= kept + spent + 0 /\ PaidBy(used - 0)
    BY <2>1 DEF Accounted
  <2>3. spent <= 1 /\ s.ledger.tokens = kept
    BY <1>3, <1>7 DEF MoveRefused
  <2>4. Len(calls) <= s.ledger.tokens + 1 + 2 * lost
    BY <1>3, <2>2, <2>3 DEF PaidBy
  <2>5. PaidBy(ckpt.ledger.tokens + 1)'
    BY <1>1, <2>4 DEF PaidBy
  <2>6. QED
    BY <1>1, <1>2, <1>7, <2>2, <2>5 DEF Accounted, MoveRefused, AskingNodes
<1>8. CASE MoveFailed(w, s, next)
  <2>1. PaidBy(used - 0)
    BY <1>8 DEF MoveFailed, Accounted
  <2>2. PaidBy(s.ledger.tokens)
    BY <1>3, <1>8, <2>1 DEF MoveFailed, PaidBy
  <2>3. QED
    BY <1>2, <1>6, <1>8, <2>2 DEF MoveFailed
<1>9. CASE MoveAnswered(w, s, next)
  <2>1. /\ ~st[w].unrecoverable /\ used <= kept + spent + 1 /\ PaidBy(used - 0)
    BY <1>9 DEF MoveAnswered, Accounted, Pending
  <2>2. PaidBy(s.ledger.tokens)
    BY <1>3, <1>9, <2>1 DEF MoveAnswered, PaidBy
  <2>3. QED
    BY <1>2, <1>6, <1>9, <2>1, <2>2 DEF MoveAnswered
<1>10. CASE MoveUnasked(w, s, next)
  <2>1. PaidBy(kept) /\ ~st[w].unrecoverable
    <3>1. CASE pc[w] \in {"coordinator", "evidence_collector"}
      BY <3>1 DEF Accounted
    <3>2. CASE pc[w] = "hypothesis_engine" /\ st[w].call = "ask" /\ EvidenceCount(st[w]) = 0
      <4>1. st[w].attempt # 2
        BY <3>2 DEF Accounted
      <4>2. ~st[w].unrecoverable /\ used <= kept + spent + 0 /\ PaidBy(used - 0)
        BY <3>2 DEF Accounted, AskingNodes, Pending
      <4>3. spent = 0
        BY <1>3, <3>2, <4>1
      <4>4. QED
        BY <1>3, <4>2, <4>3 DEF PaidBy
    <3>3. QED
      BY <1>10, <3>1, <3>2 DEF MoveUnasked
  <2>2. PaidBy(s.ledger.tokens)
    BY <1>3, <1>10, <2>1 DEF MoveUnasked
  <2>3. QED
    BY <1>2, <1>6, <1>10, <2>1, <2>2 DEF MoveUnasked
<1>11. CASE MoveJudged(w, s, next)
  <2>1. PaidBy(kept) \/ (PaidBy(kept + 1) /\ st[w].refusal /\ ~st[w].unrecoverable)
    BY <1>11 DEF MoveJudged, Accounted
  <2>2. CASE PaidBy(kept)
    <3>1. PaidBy(s.ledger.tokens)
      BY <1>3, <1>11, <2>2 DEF MoveJudged
    <3>2. QED
      BY <1>2, <1>6, <1>11, <3>1 DEF MoveJudged
  <2>3. CASE PaidBy(kept + 1) /\ st[w].refusal /\ ~st[w].unrecoverable
    <3>1. next = "end" /\ s.target # "failed"
      BY <1>11, <2>3 DEF MoveJudged
    <3>2. PaidBy(ckpt.ledger.tokens + 1)'
      BY <1>1, <1>3, <1>11, <2>3 DEF MoveJudged, PaidBy
    <3>3. QED
      BY <1>1, <1>2, <3>1, <3>2 DEF Accounted, AskingNodes
  <2>4. QED
    BY <2>1, <2>2, <2>3
<1>12. QED
  BY <1>7, <1>8, <1>9, <1>10, <1>11 DEF Moves

\* A model call keeps the account of the pass that makes it.
LEMMA AskAccounted ==
    ASSUME TypeOK, NEW w \in Workers, Accounted(w), WithinBudget, AsksOn(w)
    PROVE  Accounted(w)' /\ WithinBudget'
<1> DEFINE kept == ckpt.ledger.tokens
           used == run.ledger.tokens
           making == IF st[w].call = "call" THEN 1 ELSE 0
           Asked(s) == pc[w] = "hypothesis_engine" /\ (s.call # "ask" \/ s.attempt = 2) =>
                           EvidenceCount(s) > 0
<1>1. /\ TypeOK'
      /\ pc[w] \in AskingNodes /\ UNCHANGED <<pc, ckpt, lost>>
      /\ \A k \in DOMAIN InitialState \ {"call", "attempt", "spent", "response"} :
            st'[w][k] = st[w][k]
  BY AskDoes
<1>2. /\ st'[w].ledger = st[w].ledger /\ st'[w].unrecoverable = st[w].unrecoverable
      /\ st'[w].steps = st[w].steps
  BY <1>1 DEF InitialState
<1>3. /\ st[w].ledger = ckpt.ledger /\ ~st[w].unrecoverable
      /\ used <= kept + st[w].spent + Pending(st[w])
      /\ PaidBy(used - making)
      /\ st[w].call = "call" => used < Policy.tokens
      /\ Asked(st[w])
  BY <1>1 DEF Accounted
<1>4. /\ Len(calls) \in Nat /\ lost \in Nat /\ kept \in Nat /\ used \in Nat
      /\ st[w].spent \in {0, 1, 2} /\ Policy.tokens \in Nat
  BY LedgerNumbers
<1>5. Len(calls') \in Nat /\ run'.ledger.tokens \in Nat
  BY <1>1 DEF TypeOK, BudgetLedger
<1>6. EvidenceCount(st[w])' = EvidenceCount(st[w])
  BY <1>2 DEF EvidenceCount
<1>7. ASSUME run'.ledger.tokens <= kept + st'[w].spent + Pending(st'[w]),
             Len(calls') <= run'.ledger.tokens - (IF st'[w].call = "call" THEN 1 ELSE 0) + 2 * lost,
             st'[w].call = "call" => run'.ledger.tokens < Policy.tokens,
             Asked(st'[w])
      PROVE  Accounted(w)'
  <2>1. Pending(st[w])' = Pending(st'[w])
    BY DEF Pending
  <2>2. PaidBy(run.ledger.tokens - (IF st[w].call = "call" THEN 1 ELSE 0))'
    BY <1>1, <1>7 DEF PaidBy
  <2>3. pc'[w] \in AskingNodes /\ pc'[w] = pc[w]
    BY <1>1
  <2>4. EvidenceCount(st'[w]) = EvidenceCount(st[w])'
    BY DEF EvidenceCount
  <2>5. QED
    BY <1>1, <1>2, <1>3, <1>7, <2>1, <2>2, <2>3, <2>4 DEF Accounted, AskingNodes
<1>8. CASE Lookup(w)
  <2>1. /\ st[w].call = "ask" /\ st'[w].call \in {"reserve", "answer", "permanent"}
        /\ UNCHANGED <<run, calls>> /\ st'[w].spent = st[w].spent
    BY <1>8, LookupType DEF history, InitialState
  <2>2. Pending(st[w]) = 0 /\ Pending(st'[w]) \in {0, 1}
    BY <2>1 DEF Pending
  <2>3. Asked(st'[w])
    <3>1. pc[w] = "hypothesis_engine" => EvidenceCount(st[w]) > 0
      BY <1>8 DEF Lookup, AsksModel
    <3>2. QED
      BY <1>2, <3>1 DEF EvidenceCount
  <2>4. /\ run'.ledger.tokens <= kept + st'[w].spent + Pending(st'[w])
        /\ Len(calls') <= run'.ledger.tokens - 0 + 2 * lost
    BY <1>3, <1>4, <2>1, <2>2 DEF PaidBy
  <2>5. Accounted(w)'
    BY <1>7, <2>1, <2>3, <2>4
  <2>6. QED
    BY <1>1, <2>1, <2>5 DEF WithinBudget
<1>9. CASE Reserve(w) /\ ~DeadLetter(w)
  <2>1. /\ st[w].call = "reserve" /\ st'[w].call \in {"call", "exhausted"}
        /\ st'[w].spent = st[w].spent /\ st'[w].attempt = st[w].attempt /\ UNCHANGED calls
        /\ st'[w].call = "call" =>
              run'.ledger.tokens = used + 1 /\ run'.ledger.tokens < Policy.tokens
        /\ st'[w].call = "exhausted" => UNCHANGED run
    BY <1>9, ReserveType DEF history, InitialState, Reserve
  <2>2. /\ Pending(st[w]) = 0
        /\ Pending(st'[w]) = IF st'[w].call = "call" THEN 1 ELSE 0
    BY <2>1 DEF Pending
  <2>3. Asked(st'[w])
    BY <1>2, <1>3, <2>1 DEF EvidenceCount
  <2>4. /\ run'.ledger.tokens <= kept + st'[w].spent + Pending(st'[w])
        /\ Len(calls') <= run'.ledger.tokens - (IF st'[w].call = "call" THEN 1 ELSE 0) + 2 * lost
    <3>1. used <= kept + st[w].spent /\ Len(calls) <= used + 2 * lost
      BY <1>3, <1>4, <2>1, <2>2 DEF PaidBy
    <3>2. CASE st'[w].call = "call"
      <4>1. /\ run'.ledger.tokens = used + 1 /\ Pending(st'[w]) = 1 /\ st'[w].spent = st[w].spent
            /\ calls' = calls
        BY <2>1, <2>2, <3>2
      <4>2. used + 1 <= kept + st[w].spent + 1
        BY <1>4, <3>1
      <4>3. Len(calls) <= (used + 1) - 1 + 2 * lost
        BY <1>4, <3>1
      <4>4. QED
        BY <3>2, <4>1, <4>2, <4>3
    <3>3. CASE st'[w].call = "exhausted"
      <4>1. /\ run'.ledger.tokens = used /\ Pending(st'[w]) = 0 /\ st'[w].spent = st[w].spent
            /\ calls' = calls
        BY <2>1, <2>2, <3>3
      <4>2. used <= kept + st[w].spent + 0 /\ Len(calls) <= used - 0 + 2 * lost
        BY <1>4, <3>1
      <4>3. QED
        BY <3>3, <4>1, <4>2
    <3>4. QED
      BY <2>1, <3>2, <3>3
  <2>5. Accounted(w)'
    BY <1>7, <2>1, <2>3, <2>4
  <2>6. QED
    BY <1>1, <2>1, <2>5 DEF WithinBudget
<1>10. CASE CallProvider(w)
  <2>1. /\ st[w].call = "call" /\ st'[w].call \in {"settle", "transient", "permanent"}
        /\ st'[w].spent = st[w].spent /\ st'[w].attempt = st[w].attempt
        /\ UNCHANGED run /\ calls' = Append(calls, InvocationKey(w))
    BY <1>10, CallProviderType DEF InitialState
  <2>2. Pending(st[w]) = 1 /\ Pending(st'[w]) = 1
    BY <2>1 DEF Pending
  <2>3. Len(calls') = Len(calls) + 1
    BY <2>1 DEF TypeOK
  <2>4. Asked(st'[w])
    BY <1>2, <1>3, <2>1 DEF EvidenceCount
  <2>5. /\ run'.ledger.tokens <= kept + st'[w].spent + Pending(st'[w])
        /\ Len(calls') <= run'.ledger.tokens - 0 + 2 * lost
    BY <1>3, <1>4, <2>1, <2>2, <2>3 DEF PaidBy
  <2>6. Accounted(w)'
    BY <1>7, <2>1, <2>4, <2>5
  <2>7. WithinBudget'
    <3>1. used <= Policy.tokens - 1
      BY <1>3, <1>4, <2>1
    <3>2. Len(calls') <= (Policy.tokens - 1) + 2 * lost
      BY <1>4, <1>5, <2>1, <2>5, <3>1
    <3>3. QED
      BY <1>1, <3>2 DEF WithinBudget
  <2>8. QED
    BY <2>6, <2>7
<1>11. CASE Settle(w)
  <2>1. /\ st[w].call = "settle" /\ st'[w].call = "answer"
        /\ st'[w].spent = st[w].spent /\ st'[w].attempt = st[w].attempt
        /\ UNCHANGED <<run, calls>>
    BY <1>11, SettleType DEF history, InitialState
  <2>2. Pending(st[w]) = 1 /\ Pending(st'[w]) = 1
    BY <2>1 DEF Pending
  <2>3. Asked(st'[w])
    BY <1>2, <1>3, <2>1 DEF EvidenceCount
  <2>4. /\ run'.ledger.tokens <= kept + st'[w].spent + Pending(st'[w])
        /\ Len(calls') <= run'.ledger.tokens - 0 + 2 * lost
    BY <1>3, <1>4, <2>1, <2>2 DEF PaidBy
  <2>5. Accounted(w)'
    BY <1>7, <2>1, <2>3, <2>4
  <2>6. QED
    BY <1>1, <2>1, <2>5 DEF WithinBudget
<1>12. CASE Repair(w)
  <2>1. /\ st[w].call = "answer" /\ st'[w].call \in {"ask", "schema"}
        /\ st'[w].spent = st[w].spent + 1 /\ UNCHANGED <<run, calls>>
    BY <1>12, RepairType DEF history
  <2>2. Pending(st[w]) = 1 /\ Pending(st'[w]) = 0
    BY <2>1 DEF Pending
  <2>3. Asked(st'[w])
    BY <1>2, <1>3, <2>1 DEF EvidenceCount
  <2>4. /\ run'.ledger.tokens <= kept + st'[w].spent + Pending(st'[w])
        /\ Len(calls') <= run'.ledger.tokens - 0 + 2 * lost
    BY <1>3, <1>4, <2>1, <2>2 DEF PaidBy
  <2>5. Accounted(w)'
    BY <1>7, <2>1, <2>3, <2>4
  <2>6. QED
    BY <1>1, <2>1, <2>5 DEF WithinBudget
<1>13. QED
  BY <1>8, <1>9, <1>10, <1>11, <1>12 DEF AsksOn

\* Losing a pass in the graph makes the ledger forget two calls at most.
LEMMA LostIsPaid ==
    ASSUME TypeOK, NEW w \in Workers, pc[w] \in Nodes, Accounted(w)
    PROVE  Len(calls) <= ckpt.ledger.tokens + 2 * (lost + 1)
<1> DEFINE kept == ckpt.ledger.tokens
           used == run.ledger.tokens
<1>1. /\ Len(calls) \in Nat /\ lost \in Nat /\ kept \in Nat /\ used \in Nat
      /\ st[w].spent \in {0, 1, 2}
      /\ st[w].call # "schema" => st[w].spent = st[w].attempt - 1
      /\ st[w].attempt \in {1, 2}
  BY LedgerNumbers
<1>2. CASE pc[w] \in AskingNodes
  <2>1. /\ used <= kept + st[w].spent + Pending(st[w])
        /\ PaidBy(used - (IF st[w].call = "call" THEN 1 ELSE 0))
    BY <1>2 DEF Accounted
  <2>2. Pending(st[w]) \in {0, 1} /\ (st[w].call = "schema" => Pending(st[w]) = 0)
    BY DEF Pending
  <2>3. st[w].spent + Pending(st[w]) <= 2
    BY <1>1, <2>2
  <2>4. Len(calls) <= used + 2 * lost
    BY <1>1, <2>1 DEF PaidBy
  <2>5. Pending(st[w]) \in Nat
    BY <2>2
  <2>6. used <= kept + 2
    BY <1>1, <2>1, <2>3, <2>5
  <2>7. QED
    BY <1>1, <2>4, <2>6
<1>3. CASE pc[w] \in {"coordinator", "evidence_collector"}
  BY <1>1, <1>3 DEF Accounted, PaidBy
<1>4. CASE pc[w] \in {"terminator", "end"}
  BY <1>1, <1>4 DEF Accounted, PaidBy
<1>5. QED
  BY <1>2, <1>3, <1>4 DEF Nodes, AskingNodes

\* An account is the pass's own, the ledgers' and the calls'.
LEMMA SameAccount ==
    ASSUME NEW v \in Workers, Accounted(v), st'[v] = st[v], pc'[v] = pc[v],
           UNCHANGED <<ckpt, calls, lost>>, run'.ledger = run.ledger
    PROVE  Accounted(v)'
<1>1. /\ Pending(st[v])' = Pending(st[v]) /\ EvidenceCount(st[v])' = EvidenceCount(st[v])
      /\ \A n : PaidBy(n)' <=> PaidBy(n)
  BY DEF Pending, EvidenceCount, PaidBy
<1>2. QED
  BY <1>1 DEF Accounted, PaidBy

\* Every step keeps the account, as long as one pass at a time is in the graph.
LEMMA AccountStep ==
    ASSUME TypeOK, LinkedOnce, EndIsEarned, CallsAreAccounted, OneAtATime, OneAtATime', [Next]_vars
    PROVE  CallsAreAccounted'
<1> DEFINE Idle == \A v \in Workers : pc[v] \notin Nodes
<1>1. ASSUME NEW w \in Workers, pc[w] \in Nodes
      PROVE  Accounted(w) /\ WithinBudget /\ \A v \in Workers \ {w} : pc[v] \notin Nodes
  BY <1>1 DEF CallsAreAccounted, OneAtATime
<1>2. ASSUME UNCHANGED <<ckpt, calls, lost>>, run'.ledger = run.ledger, run'.status = run.status,
             NEW U \in SUBSET Workers, \A v \in Workers \ U : st'[v] = st[v] /\ pc'[v] = pc[v],
             \A v \in U : pc[v] \notin Nodes /\ pc'[v] \notin Nodes
      PROVE  CallsAreAccounted'
  <2>1. \A v \in Workers : pc'[v] \in Nodes <=> pc[v] \in Nodes
    BY <1>2
  <2>2. \A v \in Workers : pc'[v] \in Nodes => Accounted(v)'
    <3> SUFFICES ASSUME NEW v \in Workers, pc'[v] \in Nodes PROVE Accounted(v)'
      OBVIOUS
    <3>1. Accounted(v) /\ st'[v] = st[v] /\ pc'[v] = pc[v]
      BY <1>2 DEF CallsAreAccounted
    <3>2. QED
      BY <1>2, <3>1, SameAccount
  <2>3. Idle' => PaidBy(ckpt.ledger.tokens)' \/ run'.status = "completed"
    BY <1>2, <2>1 DEF CallsAreAccounted, PaidBy
  <2>4. WithinBudget'
    BY <1>2 DEF CallsAreAccounted, WithinBudget
  <2>5. QED
    BY <2>2, <2>3, <2>4 DEF CallsAreAccounted
<1>3. ASSUME NEW w \in Workers, pc[w] \in Nodes, pc'[w] \notin Nodes,
             \A v \in Workers \ {w} : pc'[v] = pc[v], UNCHANGED <<ckpt, calls>>,
             \/ lost' = lost + 1
             \/ lost' = lost /\ (run'.status = "completed" \/ PaidBy(ckpt.ledger.tokens))
      PROVE  CallsAreAccounted'
  <2>1. Idle'
    BY <1>1, <1>3
  <2>2. Len(calls) \in Nat /\ lost \in Nat /\ ckpt.ledger.tokens \in Nat /\ Policy.tokens \in Nat
    BY LedgerNumbers
  <2>3. WithinBudget'
    BY <1>1, <1>3, <2>2 DEF WithinBudget
  <2>4. PaidBy(ckpt.ledger.tokens)' \/ run'.status = "completed"
    <3>1. CASE lost' = lost + 1
      BY <1>1, <1>3, <3>1, LostIsPaid DEF PaidBy
    <3>2. CASE lost' = lost
      BY <1>3, <2>2, <3>2 DEF PaidBy
    <3>3. QED
      BY <1>3, <3>1, <3>2
  <2>5. QED
    BY <2>1, <2>3, <2>4 DEF CallsAreAccounted
<1>4. ASSUME run'.status = run.status, run'.ledger = run.ledger, UNCHANGED <<ckpt, pc, st, calls, lost>>
      PROVE  CallsAreAccounted'
  <2>1. /\ {} \in SUBSET Workers /\ \A v \in {} : pc[v] \notin Nodes /\ pc'[v] \notin Nodes
        /\ \A v \in Workers \ {} : st'[v] = st[v] /\ pc'[v] = pc[v]
    BY <1>4
  <2> DEFINE U == {}
  <2>2. /\ U \in SUBSET Workers /\ \A v \in U : pc[v] \notin Nodes /\ pc'[v] \notin Nodes
        /\ \A v \in Workers \ U : st'[v] = st[v] /\ pc'[v] = pc[v]
    BY <2>1
  <2>3. UNCHANGED <<ckpt, calls, lost>>
    BY <1>4
  <2> HIDE DEF U
  <2>4. QED
    BY <1>2, <1>4, <2>2, <2>3
<1>5. CASE Outside \/ UNCHANGED vars
  <2>1. /\ run'.status = run.status /\ run'.ledger = run.ledger
        /\ UNCHANGED <<ckpt, pc, st, calls, lost>>
    BY <1>5, OutsideType DEF Outside, history, vars
  <2>2. QED
    BY <1>4, <2>1
<1>6. ASSUME NEW w \in Workers, Dispatches(w)
      PROVE  CallsAreAccounted'
  <2>1. /\ pc[w] \notin Nodes /\ pc'[w] \notin Nodes
        /\ \A v \in Workers \ {w} : st'[v] = st[v] /\ pc'[v] = pc[v]
        /\ UNCHANGED <<run, ckpt, calls, lost>>
    BY <1>6, DispatchType DEF Dispatches, history
  <2>2. {w} \in SUBSET Workers /\ \A v \in {w} : pc[v] \notin Nodes /\ pc'[v] \notin Nodes
    BY <2>1
  <2>3. QED
    BY <1>2, <2>1, <2>2
<1>7. ASSUME NEW w \in Workers, Start(w)
      PROVE  CallsAreAccounted'
  <2>1. /\ ~dispatch.linked /\ UNCHANGED <<calls, lost>>
        /\ pc'[w] = "coordinator" /\ ckpt'.ledger = NoCharge /\ st'[w].ledger = NoCharge
        /\ st'[w].unrecoverable = FALSE
        /\ \A v \in Workers \ {w} : pc'[v] = pc[v]
    BY <1>7, StartType DEF Start
  <2>2. calls = <<>> /\ \A v \in Workers : pc[v] \notin Nodes
    BY <2>1 DEF LinkedOnce
  <2>3. lost \in Nat /\ Len(calls) = 0 /\ NoCharge.tokens = 0
    BY <2>2, LedgerNumbers DEF NoCharge
  <2>4. PaidBy(ckpt.ledger.tokens)'
    BY <2>1, <2>3 DEF PaidBy
  <2>5. Accounted(w)'
    BY <2>1, <2>4 DEF Accounted, AskingNodes
  <2>6. WithinBudget'
    BY <2>1 DEF CallsAreAccounted, WithinBudget
  <2>7. \A v \in Workers : pc'[v] \in Nodes => v = w
    BY <2>1, <2>2
  <2>8. QED
    BY <2>1, <2>4, <2>5, <2>6, <2>7 DEF CallsAreAccounted
<1>8. ASSUME NEW w \in Workers, Resume(w)
      PROVE  CallsAreAccounted'
  <2>1. /\ run.status # "completed" /\ UNCHANGED <<ckpt, calls, lost>>
        /\ pc[w] \notin Nodes /\ pc'[w] = "coordinator"
        /\ st'[w].ledger = ckpt.ledger /\ st'[w].unrecoverable = FALSE
        /\ \A v \in Workers \ {w} : pc'[v] = pc[v]
    BY <1>8, ResumeType, RehydrateOK DEF Resume, history
  <2>2. \A v \in Workers : pc'[v] \in Nodes => v = w
    BY <2>1 DEF OneAtATime, Nodes
  <2>3. PaidBy(ckpt.ledger.tokens)
    BY <2>1, <2>2 DEF CallsAreAccounted
  <2>4. PaidBy(ckpt.ledger.tokens)'
    BY <2>1, <2>3 DEF PaidBy
  <2>5. Accounted(w)'
    BY <2>1, <2>4 DEF Accounted, AskingNodes
  <2>6. WithinBudget'
    BY <2>1 DEF CallsAreAccounted, WithinBudget
  <2>7. QED
    BY <2>2, <2>4, <2>5, <2>6 DEF CallsAreAccounted
<1>9. ASSUME NEW w \in Workers, AsksOn(w) \/ NodeCommits(w)
      PROVE  CallsAreAccounted'
  <2>1. pc[w] \in Nodes /\ pc'[w] \in Nodes /\ \A v \in Workers \ {w} : pc'[v] = pc[v]
    <3>1. CASE AsksOn(w)
      BY <3>1, AskDoes DEF AskingNodes, Nodes
    <3>2. CASE NodeCommits(w)
      <4>1. PICK s, next : Commits(w, s, next)
        BY <3>2, NodesCommit
      <4>2. pc'[w] \in Nodes /\ \A v \in Workers \ {w} : pc'[v] = pc[v]
        BY <4>1, CommitDoes DEF Commits
      <4>3. QED
        BY <3>2, <4>2, NodesCommit DEF InNode
    <3>3. QED
      BY <1>9, <3>1, <3>2
  <2>2. Accounted(w)' /\ WithinBudget'
    <3>1. Accounted(w) /\ WithinBudget
      BY <1>1, <2>1
    <3>2. QED
      BY <1>9, <2>1, <3>1, AskAccounted, NodeMoves, CommitAccounted
  <2>3. \A v \in Workers : pc'[v] \in Nodes => v = w
    BY <1>1, <2>1
  <2>4. QED
    BY <2>1, <2>2, <2>3 DEF CallsAreAccounted
<1>10. ASSUME NEW w \in Workers, TakenDown(w)
       PROVE  CallsAreAccounted'
  <2>1. /\ pc[w] \in Nodes /\ pc'[w] \notin Nodes /\ \A v \in Workers \ {w} : pc'[v] = pc[v]
        /\ lost' = lost + 1 /\ UNCHANGED <<ckpt, calls>>
    BY <1>10, DeadLetterType DEF TakenDown, InNode, Nodes
  <2>2. QED
    BY <1>3, <2>1
<1>11. ASSUME NEW w \in Workers, Finalise(w)
       PROVE  CallsAreAccounted'
  <2>1. /\ pc[w] \in Nodes /\ pc'[w] \notin Nodes /\ \A v \in Workers \ {w} : pc'[v] = pc[v]
        /\ run'.status = "completed" /\ UNCHANGED <<ckpt, calls, lost>>
    BY <1>11, FinaliseType DEF Nodes
  <2>2. QED
    BY <1>3, <2>1
<1>12. ASSUME NEW w \in Workers, FinaliseRaises(w)
       PROVE  CallsAreAccounted'
  <2>1. /\ pc[w] = "end" /\ pc[w] \in Nodes /\ pc'[w] \notin Nodes
        /\ \A v \in Workers \ {w} : pc'[v] = pc[v]
        /\ UNCHANGED <<ckpt, calls, lost>> /\ st[w].target \notin {"uncertain", "escalated"}
    BY <1>12, FinaliseRaisesType DEF Nodes, history
  <2>2. st[w].target = "failed"
    BY <2>1 DEF EndIsEarned
  <2>3. PaidBy(ckpt.ledger.tokens)
    BY <1>1, <2>1, <2>2 DEF Accounted
  <2>4. QED
    BY <1>3, <2>1, <2>3
<1>13. ASSUME NEW w \in Workers, Crash(w)
       PROVE  CallsAreAccounted'
  <2>1. /\ pc'[w] \notin Nodes /\ UNCHANGED <<ckpt, calls>>
        /\ \A v \in Workers \ {w} : st'[v] = st[v] /\ pc'[v] = pc[v]
        /\ lost' = (IF pc[w] \in Nodes THEN lost + 1 ELSE lost)
        /\ run'.status = run.status
    BY <1>13, CrashType DEF Nodes
  <2>2. run'.ledger = run.ledger
    BY <1>13 DEF Crash, AbandonLease, TypeOK
  <2>3. CASE pc[w] \in Nodes
    BY <1>3, <2>1, <2>3
  <2>4. CASE pc[w] \notin Nodes
    <3>1. {w} \in SUBSET Workers /\ \A v \in {w} : pc[v] \notin Nodes /\ pc'[v] \notin Nodes
      BY <2>1, <2>4
    <3>2. QED
      BY <1>2, <2>1, <2>2, <2>4, <3>1
  <2>5. QED
    BY <2>3, <2>4
<1>14. QED
  BY <1>4, <1>5, <1>6, <1>7, <1>8, <1>9, <1>10, <1>11, <1>12, <1>13, StepKinds

-----------------------------------------------------------------------------
(* One pass at a time: what the item's lock is for.                        *)

\* No session that holds the item's lock is lost in this step.
NoStall == \A w \in Workers : ~Stall(w)

\* A pass keeps the lock it works under, lets go of it as it leaves, or takes a free one.
LEMMA LockMoves ==
    ASSUME AtWorkUnderLock, NEW w \in Workers, \A v \in Workers \ {w} : pc'[v] = pc[v],
           \/ itemLock' = itemLock /\ (pc[w] \notin {"idle", "found"} \/ pc'[w] \in {"idle", "found"})
           \/ itemLock' = (IF itemLock = w THEN None ELSE itemLock) /\ pc'[w] = "idle"
           \/ itemLock = None /\ itemLock' = w
    PROVE  AtWorkUnderLock'
<1> SUFFICES ASSUME NEW v \in Workers, pc'[v] \notin {"idle", "found"}
             PROVE  itemLock' = v
  BY DEF AtWorkUnderLock
<1>1. CASE v = w
  BY <1>1 DEF AtWorkUnderLock
<1>2. CASE v # w
  <2>1. itemLock = v
    BY <1>2 DEF AtWorkUnderLock
  <2>2. QED
    BY <1>2, <2>1, OwnersAssumption
<1>3. QED
  BY <1>1, <1>2

\* Every step that is not such a loss leaves whoever is at work under the lock.
LEMMA LockStep ==
    ASSUME TypeOK, AtWorkUnderLock, [Next]_vars, [NoStall]_vars
    PROVE  AtWorkUnderLock'
<1>1. CASE UNCHANGED vars
  BY <1>1 DEF vars, AtWorkUnderLock
<1>2. CASE Outside /\ NoStall
  <2>1. UNCHANGED <<pc, itemLock>>
    BY <1>2 DEF Outside, NoStall, LeaseExpires, TimeUp, HumanMoves
  <2>2. QED
    BY <2>1 DEF AtWorkUnderLock
<1>3. ASSUME NEW w \in Workers, Dispatches(w)
      PROVE  AtWorkUnderLock'
  <2>1. DOMAIN pc = Workers /\ \A v \in Workers \ {w} : pc'[v] = pc[v]
    BY <1>3, DispatchType DEF Dispatches, TypeOK
  <2>2. CASE Discover(w) \/ ClaimItem(w)
    BY <2>1, <2>2, LockMoves DEF Discover, ClaimItem, Goto
  <2>3. CASE ~(Discover(w) \/ ClaimItem(w))
    <3>1. pc[w] \notin {"idle", "found"}
      BY <1>3, <2>3 DEF Dispatches, Dispatch, StartRefused, FollowLink, DispatchFailed, MarkCompleted,
                        ResumeRefused
    <3>2. UNCHANGED itemLock \/ Leave(w)
      BY <1>3, <2>3 DEF Dispatches, Dispatch, StartRefused, FollowLink, DispatchFailed, MarkCompleted,
                        ResumeRefused
    <3>3. QED
      BY <2>1, <3>1, <3>2, LockMoves DEF Leave, Goto
  <2>4. QED
    BY <2>2, <2>3
<1>4. ASSUME NEW w \in Workers, Start(w) \/ Resume(w)
      PROVE  AtWorkUnderLock'
  <2>1. pc[w] \notin {"idle", "found"} /\ UNCHANGED itemLock /\ \A v \in Workers \ {w} : pc'[v] = pc[v]
    BY <1>4 DEF Start, Resume, Goto, TypeOK
  <2>2. QED
    BY <2>1, LockMoves
<1>5. ASSUME NEW w \in Workers, AsksOn(w)
      PROVE  AtWorkUnderLock'
  <2>1. UNCHANGED pc
    BY <1>5, AskDoes
  <2>2. UNCHANGED itemLock
    BY <1>5 DEF AsksOn, Lookup, Reserve, Reserved, CallProvider, Settle, Repair, DeadLetter
  <2>3. QED
    BY <2>1, <2>2 DEF AtWorkUnderLock
<1>6. ASSUME NEW w \in Workers, NodeCommits(w)
      PROVE  AtWorkUnderLock'
  <2>1. PICK s, next : Commits(w, s, next)
    BY <1>6, NodesCommit
  <2>2. UNCHANGED itemLock
    BY <2>1 DEF Commits, CommitNode
  <2>3. pc[w] \notin {"idle", "found"} /\ \A v \in Workers \ {w} : pc'[v] = pc[v]
    BY <1>6, <2>1, NodesCommit, CommitDoes DEF InNode, Nodes
  <2>4. QED
    BY <2>2, <2>3, LockMoves
<1>7. ASSUME NEW w \in Workers, TakenDown(w) \/ Finalise(w) \/ FinaliseRaises(w)
      PROVE  AtWorkUnderLock'
  <2>1. pc[w] \notin {"idle", "found"} /\ \A v \in Workers \ {w} : pc'[v] = pc[v]
    BY <1>7, DeadLetterType, FinaliseType, FinaliseRaisesType DEF TakenDown, InNode, Nodes
  <2>2. UNCHANGED itemLock \/ Leave(w)
    BY <1>7 DEF TakenDown, DeadLetter, Finalise, FinaliseRaises
  <2>3. QED
    BY <2>1, <2>2, LockMoves DEF Leave, Goto, TypeOK
<1>8. ASSUME NEW w \in Workers, Crash(w)
      PROVE  AtWorkUnderLock'
  <2>1. /\ itemLock' = (IF itemLock = w THEN None ELSE itemLock)
        /\ pc'[w] = "idle" /\ \A v \in Workers \ {w} : pc'[v] = pc[v]
    BY <1>8, CrashType DEF Crash, Leave
  <2>2. QED
    BY <2>1, LockMoves
<1>9. QED
  BY <1>1, <1>2, <1>3, <1>4, <1>5, <1>6, <1>7, <1>8, StepKinds

\* A lost lock is remembered, so a step before which none is counts none itself.
LEMMA LossIsRemembered ==
    ASSUME TypeOK, [Next]_vars, ~stalled'
    PROVE  ~stalled /\ [NoStall]_vars
<1>1. CASE UNCHANGED vars
  BY <1>1 DEF vars
<1>2. CASE Outside
  <2>1. NoStall
    BY Zenon DEF NoStall, Stall
  <2>2. UNCHANGED history
    BY <1>2, <2>1, Zenon DEF Outside, NoStall, LeaseExpires, TimeUp, HumanMoves
  <2>3. QED
    BY <2>1, <2>2 DEF history
<1>3. ASSUME NEW w \in Workers, Dispatches(w) \/ Start(w) \/ Resume(w)
      PROVE  UNCHANGED stalled
  BY <1>3 DEF Dispatches, Discover, ClaimItem, Dispatch, StartRefused, FollowLink, DispatchFailed,
              MarkCompleted, ResumeRefused, Start, Resume, history
<1>4. ASSUME NEW w \in Workers, AsksOn(w)
      PROVE  UNCHANGED stalled
  BY <1>4 DEF AsksOn, Lookup, Reserve, CallProvider, Settle, Repair, DeadLetter, history
<1>5. ASSUME NEW w \in Workers, NodeCommits(w)
      PROVE  UNCHANGED stalled
  BY <1>5, NodesCommit DEF Commits, CommitNode, history
<1>6. ASSUME NEW w \in Workers, TakenDown(w) \/ Finalise(w) \/ FinaliseRaises(w) \/ Crash(w)
      PROVE  UNCHANGED stalled
  BY <1>6 DEF TakenDown, DeadLetter, Finalise, FinaliseRaises, Crash, history
<1>7. CASE /\ UNCHANGED stalled
           /\ \E w \in Workers : \/ Dispatches(w) \/ Start(w) \/ Resume(w) \/ AsksOn(w) \/ NodeCommits(w)
                                 \/ TakenDown(w) \/ Finalise(w) \/ FinaliseRaises(w) \/ Crash(w)
  <2>1. NoStall
    BY <1>7 DEF NoStall, Stall, TypeOK
  <2>2. QED
    BY <1>7, <2>1
<1>8. QED
  BY <1>1, <1>2, <1>3, <1>4, <1>5, <1>6, <1>7, StepKinds

-----------------------------------------------------------------------------
(* What holds as long as no lock is lost.                                  *)

(***************************************************************************)
(* The lock keeps the passes apart, and passes that are kept apart believe *)
(* the rows, end on grounds and account for their calls.                   *)
(***************************************************************************)
Sound ==
    ~stalled => AtWorkUnderLock /\ BeliefsAreRows /\ EndIsEarned /\ CallsAreAccounted

LEMMA Soundness == Spec => []Sound
<1>1. Init => LinkedOnce /\ Sound
  <2>1. ASSUME Init PROVE CallsAreAccounted
    <3>1. Len(calls) = 0 /\ lost = 0 /\ run.ledger = NoCharge /\ \A w \in Workers : pc[w] \notin Nodes
      BY <2>1 DEF Init, Nodes
    <3>2. ckpt.ledger.tokens \in Nat /\ Policy.tokens \in Nat \ {0}
      BY <2>1, TypeInit, LedgerNumbers, PolicyAssumption DEF NoCharge
    <3>3. QED
      BY <3>1, <3>2 DEF CallsAreAccounted, PaidBy, WithinBudget
  <2>2. ASSUME Init PROVE LinkedOnce
    BY <2>2 DEF Init, LinkedOnce, Nodes
  <2>3. ASSUME Init PROVE BeliefsAreRows
    BY <2>3 DEF Init, BeliefsAreRows, Nodes
  <2>4. ASSUME Init PROVE EndIsEarned
    BY <2>4 DEF Init, EndIsEarned
  <2>5. ASSUME Init PROVE AtWorkUnderLock
    BY <2>5 DEF Init, AtWorkUnderLock
  <2>6. QED
    BY <2>1, <2>2, <2>3, <2>4, <2>5 DEF Sound
<1>2. AtWorkUnderLock => OneAtATime
  BY DEF AtWorkUnderLock, OneAtATime, Nodes
<1>3. AtWorkUnderLock' => OneAtATime'
  BY DEF AtWorkUnderLock, OneAtATime, Nodes
<1>4. ASSUME TypeOK, LinkedOnce, Sound, [Next]_vars PROVE LinkedOnce' /\ Sound'
  <2>1. LinkedOnce'
    BY <1>4, LinkedStep
  <2>2. ASSUME ~stalled'
        PROVE  AtWorkUnderLock' /\ BeliefsAreRows' /\ EndIsEarned' /\ CallsAreAccounted'
    <3>1. ~stalled /\ [NoStall]_vars
      BY <1>4, <2>2, LossIsRemembered
    <3>2. AtWorkUnderLock /\ BeliefsAreRows /\ EndIsEarned /\ CallsAreAccounted
      BY <1>4, <3>1 DEF Sound
    <3>3. AtWorkUnderLock'
      BY <1>4, <3>1, <3>2, LockStep
    <3>4. QED
      BY <1>2, <1>3, <1>4, <3>2, <3>3, BeliefsStep, EndStep, AccountStep
  <2>3. QED
    BY <2>1, <2>2 DEF Sound
<1>5. QED
  BY <1>1, <1>4, TypeCorrect, PTL DEF Spec

(***************************************************************************)
(* Unless the session that holds the item's lock is lost under a pass, one *)
(* pass at a time is in the graph: the lock alone does it, whatever the    *)
(* leases say, through crashes, dead letters and resumptions.              *)
(***************************************************************************)
THEOREM LockExcludes == Spec => [](~stalled => OneAtATime)
<1>1. Sound => (~stalled => OneAtATime)
  BY DEF Sound, AtWorkUnderLock, OneAtATime, Nodes
<1>2. QED
  BY <1>1, Soundness, PTL

(***************************************************************************)
(* Unless a pass lost its item lock, and whatever the model answers, a run *)
(* is completed with an escalation only if a hypothesis row carries it:    *)
(* confident, supported by two records, not contradicted, not superseded.  *)
(***************************************************************************)
THEOREM EscalationHasGrounds == Spec => []EscalatedOnGrounds
<1>1. Sound => EscalatedOnGrounds
  BY DEF Sound, EndIsEarned, EscalatedOnGrounds
<1>2. QED
  BY <1>1, Soundness, PTL

(***************************************************************************)
(* Unless a pass lost its item lock, the model calls of a run stay below   *)
(* its budget, up to two for each pass that ended inside the graph.        *)
(***************************************************************************)
THEOREM OverspendIsBounded == Spec => []OverspendBounded
<1>1. Sound => OverspendBounded
  BY DEF Sound, CallsAreAccounted, OverspendBounded
<1>2. QED
  BY <1>1, Soundness, PTL

=============================================================================
