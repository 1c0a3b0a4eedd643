----------------------------- MODULE Aftermath -----------------------------
(***************************************************************************)
(* What happens around the end of an incident: its records still change    *)
(* while workers draft its postmortem and people promote what was learnt   *)
(* to memory.  A session does one of these at a time.                      *)
(***************************************************************************)
EXTENDS PostmortemAuthor, MemoryPromotion

vars == <<record, task, postmortem, memory>>

Init == RecordInit /\ PostmortemInit /\ MemoryInit

Next ==
    \/ RecordNext /\ UNCHANGED <<postmortem, memory>>
    \/ PostmortemNext /\ UNCHANGED memory
    \/ MemoryNext /\ UNCHANGED postmortem

Spec == Init /\ [][Next]_vars

-----------------------------------------------------------------------------
(* What makes the properties inductive.                                    *)

StateChange == [to : IncidentStatus, actor : {"system", "human"}]
RecordSet == [events : Nat, evidence : Nat, verified : BOOLEAN]
Row == [category : MemoryCategory, incident : BOOLEAN, by : Proposers,
        status : {"proposed", "approved", "rejected"},
        origin : {"verified_fact", "model_claim", "retrieved"}]
Entry == [promotion : Nat, approver : Humans, events : Nat,
          provenance : {"verified_fact", "model_claim", "retrieved"},
          words : Proposers \cup {"records"}]
Task ==
    {Idle}
        \cup [kind : {"author"}, pc : {"claimed"}]
        \cup [kind : {"author"}, pc : {"drafted", "writing"}, fp : RecordSet, kept : SUBSET Claims]
        \cup [kind : {"propose"}, pc : {"evaluated", "locked"}, category : MemoryCategory,
              incident : BOOLEAN, by : Proposers]
        \cup [kind : {"decide"}, promotion : Nat, approver : Humans, events : Nat]

TypeOK ==
    /\ log \in Seq(StateChange) /\ log # << >>
    /\ evidence \in Nat
    /\ verdict \in {"none", "verified", "trusted"}
    /\ rowLock \in Sessions \cup {NoOne}
    /\ task \in [Sessions -> Task]
    /\ claim \in Sessions \cup {NoOne}
    /\ IsFiniteSet(drafts)
    /\ promotions \in Seq(Row)
    /\ entries \in Seq(Entry)

\* What a draft cites belongs to its record set, before it is written and after.
KeptIsSound(kept, fp) ==
    \A c \in kept : c.cites \ Flagged # {} /\ c.cites \subseteq Records(fp)

\* A session that is about to write its draft holds the incident row: what it found under
\* the lock still stands, whatever evidence has come since.
WriterHasTheRow ==
    \A s \in Sessions :
        /\ Author(s, "drafted") \/ Author(s, "writing") => KeptIsSound(task[s].kept, task[s].fp)
        /\ Author(s, "writing") =>
               /\ rowLock = s /\ Status = "resolved"
               /\ task[s].fp.events = Len(log)
               /\ Existing(task[s].fp) = {}

\* A draft is of a log that has only grown since, and says what its record set said.
DraftsStand ==
    \A d \in drafts :
        /\ d.fp \in RecordSet /\ d.fp.events \in 1..Len(log) /\ d.version \in Nat
        /\ StatusAt(d.fp.events) = "resolved"
        /\ d.basis = resolution_basis(d.fp) /\ d.uncertain = assemble(d.fp)
        /\ KeptIsSound(d.kept, d.fp)

\* A promotion's label is its category's.  Who decides on one decides alone, on one that is
\* open, is not its proposer, and has seen records that support it.
DecisionIsSound ==
    /\ \A p \in DOMAIN promotions :
           promotions[p].origin = origin_provenance(promotions[p].category, promotions[p].by)
    /\ \A s \in Sessions : task[s].kind = "decide" =>
           LET p == task[s].promotion
           IN  /\ p \in DOMAIN promotions /\ promotions[p].status = "proposed"
               /\ task[s].approver # promotions[p].by
               /\ task[s].events \in 1..Len(log)
               /\ IF promotions[p].category = "verified_outcome"
                  THEN promotions[p].incident /\ trusted
                  ELSE promotions[p].incident => StatusAt(task[s].events) \in TERMINAL_STATES
               /\ \A q \in Sessions \ {s} : task[q].kind = "decide" => task[q].promotion # p

\* Every entry was earned, also those a prompt has no room for.
EntriesStand ==
    \A i \in DOMAIN entries :
        /\ entries[i].promotion \in DOMAIN promotions /\ entries[i].events \in 1..Len(log)
        /\ Earned(i)
=============================================================================
