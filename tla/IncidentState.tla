--------------------------- MODULE IncidentState ---------------------------
(***************************************************************************)
(* The incident state machine: the statuses an incident can have and the   *)
(* closed table of transitions between them.  Every writer of              *)
(* incident.status goes through assert_transition_allowed, so the table is *)
(* the whole of what an incident may do.                                   *)
(***************************************************************************)
EXTENDS FiniteSets

IncidentStatus ==
    {"detected", "acknowledged", "investigating", "awaiting_approval",
     "remediating", "verifying", "uncertain", "escalated", "resolved",
     "failed"}

TERMINAL_STATES == {"resolved", "failed", "escalated", "uncertain"}

ActorType == {"system", "human", "agent_node"}

SystemOnly == {"system", "agent_node"}
HumanOnly == {"human"}
SystemOrHuman == SystemOnly \cup HumanOnly

(***************************************************************************)
(* One edge: who may cause it, whether a termination reason must be given  *)
(* and whether the acting human must justify it in writing.                *)
(***************************************************************************)
Edge(source, target, actors, reason, justification) ==
    [source |-> source, target |-> target, actors |-> actors,
     reason |-> reason, justification |-> justification]

TRANSITIONS ==
    {Edge("detected", "acknowledged", SystemOrHuman, FALSE, FALSE),
     Edge("detected", "investigating", SystemOnly, FALSE, FALSE),
     Edge("acknowledged", "investigating", SystemOnly, FALSE, FALSE),
     Edge("acknowledged", "resolved", HumanOnly, TRUE, TRUE),
     Edge("investigating", "awaiting_approval", SystemOnly, FALSE, FALSE),
     Edge("investigating", "remediating", SystemOnly, FALSE, FALSE),
     Edge("investigating", "uncertain", SystemOnly, TRUE, FALSE),
     Edge("investigating", "resolved", HumanOnly, TRUE, TRUE),
     Edge("awaiting_approval", "remediating", HumanOnly, FALSE, FALSE),
     Edge("awaiting_approval", "investigating", SystemOnly, FALSE, FALSE),
     Edge("remediating", "verifying", SystemOnly, FALSE, FALSE),
     Edge("remediating", "investigating", SystemOnly, FALSE, FALSE),
     Edge("verifying", "resolved", SystemOnly, TRUE, FALSE),
     Edge("verifying", "investigating", SystemOnly, FALSE, FALSE),
     Edge("uncertain", "escalated", SystemOrHuman, TRUE, FALSE),
     Edge("uncertain", "investigating", HumanOnly, FALSE, TRUE),
     Edge("uncertain", "resolved", HumanOnly, TRUE, TRUE),
     Edge("escalated", "investigating", HumanOnly, FALSE, TRUE),
     Edge("escalated", "resolved", HumanOnly, TRUE, TRUE),
     Edge("escalated", "failed", HumanOnly, TRUE, TRUE),
     Edge("resolved", "investigating", HumanOnly, FALSE, TRUE)}
    \cup {Edge(s, "escalated", SystemOrHuman, TRUE, FALSE) :
            s \in IncidentStatus \ TERMINAL_STATES}
    \cup {Edge(s, "failed", SystemOnly, TRUE, FALSE) :
            s \in IncidentStatus \ TERMINAL_STATES}

(***************************************************************************)
(* assert_transition_allowed: no-ops are refused, the edge must exist, the *)
(* actor must be permitted, and what the edge requires must be supplied.   *)
(***************************************************************************)
assert_transition_allowed(source, target, actor, reason, justification) ==
    /\ source # target
    /\ \E t \in TRANSITIONS :
          /\ t.source = source
          /\ t.target = target
          /\ actor \in t.actors
          /\ t.reason => reason
          /\ t.justification => justification

\* A transition some actor can make with everything supplied.
Permitted(source, target) ==
    \E actor \in ActorType :
        assert_transition_allowed(source, target, actor, TRUE, TRUE)
=============================================================================
