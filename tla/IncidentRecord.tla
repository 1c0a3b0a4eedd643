-------------------------- MODULE IncidentRecord --------------------------
(***************************************************************************)
(* What one incident leaves on record around its end: its state changes in *)
(* the event log, the evidence rows, and the verdict of G10 on the action  *)
(* taken for it.  The postmortem author and the organisational memory both *)
(* build on these records while responders and the control plane still     *)
(* change them.                                                            *)
(*                                                                         *)
(* The log keeps the state changes only: incident.status is the last of    *)
(* them (IncidentLog shows that it is).  A state change locks the incident *)
(* row for its transaction; the evidence of a stalled investigation pass   *)
(* is written without it.                                                  *)
(***************************************************************************)
EXTENDS Integers, Sequences, FiniteSets, IncidentState

CONSTANTS
    Sessions,     \* database sessions at work on this incident at the same time
    NoOne,        \* nobody holds the incident row
    MaxEvents,    \* bound on the log
    MaxEvidence   \* bound on the evidence rows

ASSUME RecordAssumption ==
    /\ NoOne \notin Sessions
    /\ MaxEvents \in Nat /\ MaxEvidence \in Nat

VARIABLES
    log,        \* incident_event rows of type incident_state_changed: target and actor
    evidence,   \* number of evidence rows
    verdict,    \* the verification of the action: none, verified, or verified and trusted
    rowLock,    \* the session that holds the incident row FOR UPDATE
    task        \* what each session is doing: an authoring, a proposal, a decision

record == <<log, evidence, verdict, rowLock>>

\* A verdict whose recorded lineage does not reproduce it is a verdict all the
\* same (VerificationLineage shows when that happens).
verified == verdict # "none"
trusted == verdict = "trusted"

Idle == [kind |-> "idle"]

StatusAt(n) == log[n].to

Status == StatusAt(Len(log))

\* The actor of the last move to resolved among the first n state changes.
ResolverAt(n) ==
    LET moves == {k \in 1..n : log[k].to = "resolved"}
    IN  log[CHOOSE k \in moves : \A j \in moves : j =< k].actor

RecordInit ==
    /\ log = <<[to |-> "verifying", actor |-> "system"]>>
    /\ evidence = 0
    /\ verdict = "none"
    /\ rowLock = NoOne
    /\ task = [s \in Sessions |-> Idle]

Appends(to, actor) ==
    /\ rowLock = NoOne
    /\ Len(log) < MaxEvents
    /\ assert_transition_allowed(Status, to, actor, TRUE, TRUE)
    /\ log' = Append(log, [to |-> to, actor |-> actor])
    /\ UNCHANGED <<evidence, rowLock, task>>

\* A responder resolves, reopens or escalates with a written justification.
HumanMoves ==
    /\ \E to \in IncidentStatus : Appends(to, "human")
    /\ UNCHANGED verdict

SystemMoves ==
    /\ \E to \in IncidentStatus \ {"resolved"} : Appends(to, "system")
    /\ UNCHANGED verdict

\* G10 writes its verdict and resolves the incident in one transaction; nothing
\* else resolves it for the system.  A request to remember names the first one.
RecordVerdict ==
    /\ Status = "verifying"
    /\ Appends("resolved", "system")
    /\ verdict' \in IF verified THEN {verdict} ELSE {"verified", "trusted"}

GatherEvidence ==
    /\ evidence < MaxEvidence
    /\ evidence' = evidence + 1
    /\ UNCHANGED <<log, verdict, rowLock, task>>

RecordNext == HumanMoves \/ SystemMoves \/ RecordVerdict \/ GatherEvidence
=============================================================================
