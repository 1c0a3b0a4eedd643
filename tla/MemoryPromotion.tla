-------------------------- MODULE MemoryPromotion --------------------------
(***************************************************************************)
(* Organisational memory (asic/memory): proposals to remember something    *)
(* about the incident, and the human decisions on them.  A request names   *)
(* the incident, or only evidence or citations; a verified outcome names   *)
(* the verification of its action too.  Requests of one category that name *)
(* the same are identical and share a proposal key.  A refused request     *)
(* leaves a decision row that nothing reads back and is not modelled.      *)
(* Transactions run READ COMMITTED, so a proposal and an approval are      *)
(* split where they read.                                                  *)
(***************************************************************************)
EXTENDS IncidentRecord

CONSTANTS
    Humans,         \* users of the tenant
    Agent,          \* a proposing agent node
    MaxPromotions   \* bound on the promotions of the incident

ASSUME MemoryAssumption ==
    /\ Agent \notin Humans
    /\ "records" \notin Humans \cup {Agent}
    /\ MaxPromotions \in Nat

VARIABLES
    promotions,   \* memory_promotion rows
    entries       \* memory_entry rows

memory == <<promotions, entries>>

MemoryCategory ==
    {"working_state", "incident_history", "model_inference",
     "verified_outcome", "operational_knowledge"}

Proposers == Humans \cup {Agent}

\* evaluate, on the references as they resolve now: only an incident that the request
\* names is asked whether it has ended.
evaluate(category, incident) ==
    \/ category = "verified_outcome" /\ incident /\ trusted
    \/ category = "operational_knowledge" /\ (incident => Status \in TERMINAL_STATES)

origin_provenance(category, by) ==
    IF category = "verified_outcome" THEN "verified_fact"
    ELSE IF by = Agent THEN "model_claim" ELSE "retrieved"

\* The open proposals with the same key.
Open(category, incident) ==
    {p \in DOMAIN promotions :
        /\ promotions[p].category = category /\ promotions[p].incident = incident
        /\ promotions[p].status = "proposed"}

Proposing(s, pc) == task[s].kind = "propose" /\ task[s].pc = pc

\* The transaction-level advisory lock of a proposal key.
KeyHeld(category, incident) ==
    \E s \in Sessions :
        Proposing(s, "locked") /\ task[s].category = category /\ task[s].incident = incident

\* The FOR UPDATE lock of a promotion row.
RowHeld(p) == \E s \in Sessions : task[s].kind = "decide" /\ task[s].promotion = p

MemoryInit ==
    /\ promotions = << >>
    /\ entries = << >>

Propose(s) ==
    /\ task[s] = Idle
    /\ \E category \in MemoryCategory, incident \in BOOLEAN, by \in Proposers :
         /\ evaluate(category, incident)
         /\ task' = [task EXCEPT ![s] = [kind |-> "propose", pc |-> "evaluated", by |-> by,
                                         category |-> category, incident |-> incident]]
    /\ UNCHANGED <<record, memory>>

\* Under the lock an open proposal with the same key answers the request.
ProposeLocks(s) ==
    /\ Proposing(s, "evaluated")
    /\ ~KeyHeld(task[s].category, task[s].incident)
    /\ task' = [task EXCEPT ![s] = IF Open(task[s].category, task[s].incident) # {}
                                   THEN Idle ELSE [@ EXCEPT !.pc = "locked"]]
    /\ UNCHANGED <<record, memory>>

Promotion(category, incident, by) ==
    [category |-> category, incident |-> incident, by |-> by, status |-> "proposed",
     origin |-> origin_provenance(category, by)]

ProposeInserts(s) ==
    /\ Proposing(s, "locked")
    /\ Len(promotions) < MaxPromotions
    /\ promotions' = 
          Append(promotions, Promotion(task[s].category, task[s].incident, task[s].by))
    /\ task' = [task EXCEPT ![s] = Idle]
    /\ UNCHANGED <<record, entries>>

\* The row is locked, still open, and the human is another one than the
\* proposer.  Whether the human holds the permission through a current role is
\* asked anew each time; roles may change at any time, so any human may try.
MayDecide(p, h) ==
    /\ ~RowHeld(p)
    /\ promotions[p].status = "proposed"
    /\ h # promotions[p].by

Decline(s) ==
    /\ task[s] = Idle
    /\ \E p \in DOMAIN promotions, h \in Humans :
         /\ MayDecide(p, h)
         /\ promotions' = [promotions EXCEPT ![p].status = "rejected"]
    /\ UNCHANGED <<record, task, entries>>

\* Mutant: what the proposal was accepted on is taken to hold still.
StillAllowedAsProposed(p) == TRUE

\* The references are resolved and judged again at the time of the decision.
StillAllowed(p) ==
    /\ evaluate(promotions[p].category, promotions[p].incident)
    /\ origin_provenance(promotions[p].category, promotions[p].by) = promotions[p].origin

\* A proposal that no longer satisfies the policy stays open.
Approve(s) ==
    /\ task[s] = Idle
    /\ \E p \in DOMAIN promotions, h \in Humans :
         /\ MayDecide(p, h)
         /\ StillAllowed(p)
         /\ task' = [task EXCEPT ![s] = [kind |-> "decide", promotion |-> p,
                                         approver |-> h, events |-> Len(log)]]
    /\ UNCHANGED <<record, memory>>

\* `events' is how much of the log the approver had before the eyes.
MemoryEntry(decision, provenance, words) ==
    [promotion |-> decision.promotion, approver |-> decision.approver,
     events |-> decision.events, provenance |-> provenance, words |-> words]

\* A verified outcome is stated from the records, anything else in the words of
\* its proposer.
_entry(decision) ==
    LET p == promotions[decision.promotion]
    IN  MemoryEntry(decision, p.origin,
                    IF p.category = "verified_outcome" THEN "records" ELSE p.by)

\* The entry and the decision are written together.
ApproveWrites(s) ==
    /\ task[s].kind = "decide"
    /\ LET p == task[s].promotion
       IN  /\ promotions' = [promotions EXCEPT ![p].status = "approved"]
           /\ entries' = Append(entries, _entry(task[s]))
    /\ task' = [task EXCEPT ![s] = Idle]
    /\ UNCHANGED record

\* What a prompt may be shown, as a set of entries: as many as the limit allows, and
\* another only when every verified fact is among them.  Between equals the row's random
\* id decides.
memory_blocks(limit) ==
    LET VerifiedFact(i) == entries[i].provenance = "verified_fact"
    IN  {shown \in SUBSET DOMAIN entries :
            /\ Cardinality(shown) = IF Len(entries) < limit THEN Len(entries) ELSE limit
            /\ \A i \in shown, j \in DOMAIN entries \ shown : VerifiedFact(j) => VerifiedFact(i)}

MemoryDies(s) ==
    /\ task[s].kind \in {"propose", "decide"}
    /\ task' = [task EXCEPT ![s] = Idle]
    /\ UNCHANGED <<record, memory>>

MemoryNext ==
    \E s \in Sessions :
        \/ Propose(s)
        \/ ProposeLocks(s)
        \/ ProposeInserts(s)
        \/ Decline(s)
        \/ Approve(s)
        \/ ApproveWrites(s)
        \/ MemoryDies(s)

-----------------------------------------------------------------------------
\* The records supported an entry when its approver looked, not just when it was
\* proposed: its action's verification could be trusted, or the incident it names had
\* ended.  An entry that names no incident rests on no such check, whatever the incident's
\* status; like any that is not verified it is a claim in its proposer's words.  It is the
\* one entry of a proposal that somebody other than its proposer approved, and what counts
\* as a verified fact is in nobody's own words.
Earned(i) ==
    LET e == entries[i]
        p == promotions[e.promotion]
    IN  /\ p.status = "approved" /\ e.approver # p.by
        /\ \A j \in DOMAIN entries \ {i} : entries[j].promotion # e.promotion
        /\ IF e.provenance = "verified_fact"
           THEN p.incident /\ trusted /\ e.words \notin Proposers
           ELSE e.words = p.by /\ (p.incident => StatusAt(e.events) \in TERMINAL_STATES)

\* Whatever the limit, every memory a prompt is shown was earned (decide, _entry,
\* memory_blocks), although the incident may have been reopened between the proposal
\* and the decision and several people decide at once.
EntryIsEarned ==
    \A limit \in 1..20 : \A shown \in memory_blocks(limit) : \A i \in shown : Earned(i)
=============================================================================
