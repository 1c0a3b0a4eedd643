--------------------------- MODULE RetentionRules ---------------------------
(***************************************************************************)
(* What may ever be deleted, and when.  Every table belongs to a class;    *)
(* a class has platform bounds that a tenant's policy may move within, and *)
(* only the operational cache is ever offered for deletion.  A policy is a *)
(* function from the classes the tenant names to [days, hold].             *)
(***************************************************************************)
EXTENDS Integers, FiniteSets

RetentionClass ==
    {"protected_evidence", "incident_record", "execution_trace", "evaluation_history",
     "knowledge_content", "operational_memory", "identity_and_config",
     "operational_cache", "global_catalogue"}

Unset == -1
_MAX_DAYS == 36500

Bounds(default, minimum, maximum, eligible) ==
    [default_days |-> default, minimum_days |-> minimum, maximum_days |-> maximum,
     time_eligible |-> eligible]

\* Unset: no time-based value.
CLASS_POLICIES ==
    [c \in RetentionClass |->
        CASE c = "protected_evidence" -> Bounds(Unset, 2555, Unset, FALSE)
          [] c \in {"incident_record", "evaluation_history"} -> Bounds(Unset, 365, Unset, TRUE)
          [] c = "execution_trace" -> Bounds(Unset, 90, Unset, TRUE)
          [] c = "operational_cache" -> Bounds(30, 1, 365, TRUE)
          [] OTHER -> Bounds(Unset, Unset, Unset, FALSE)]

\* The classes a tenant's policy may name.
POLICY_CLASSES ==
    {c \in RetentionClass :
        CLASS_POLICIES[c].time_eligible \/ CLASS_POLICIES[c].minimum_days # Unset}

\* Absent days keep the class default.
WithinBounds(c, days) ==
    LET limits == CLASS_POLICIES[c]
        floor == IF limits.minimum_days = Unset THEN 1 ELSE limits.minimum_days
        ceiling == IF limits.maximum_days = Unset THEN _MAX_DAYS ELSE limits.maximum_days
    IN floor <= days /\ days <= ceiling

\* validate_retention_policy raises unless every entry is a class a tenant may
\* set and its days, where it gives any, lie within the platform's bounds.
IsValidPolicy(policy) ==
    /\ DOMAIN policy \subseteq POLICY_CLASSES
    /\ \A c \in DOMAIN policy :
            \/ policy[c].days = CLASS_POLICIES[c].default_days
            \/ WithinBounds(c, policy[c].days)

Resolved(policy, c) ==
    IF c \in DOMAIN policy THEN policy[c]
                           ELSE [days |-> CLASS_POLICIES[c].default_days, hold |-> FALSE]

\* What the planner answers for a class of which `counted` rows are past the cutoff.
PlannedAction(policy, c, counted) ==
    LET setting == Resolved(policy, c)
    IN IF c \in {"global_catalogue", "protected_evidence"} THEN "retain"
       ELSE IF setting.hold THEN "held"
       ELSE IF ~CLASS_POLICIES[c].time_eligible \/ setting.days = Unset THEN "retain"
       ELSE IF c # "operational_cache" THEN "owner_lifecycle"
       ELSE IF counted > 0 THEN "preview_eligible" ELSE "retain"

\* Rows are past their time when they were created before the cutoff.
PastCutoff(rows, policy, now) ==
    {row \in rows : row.day < now - Resolved(policy, "operational_cache").days}

\* The batch a run deletes: the oldest rows past the cutoff, at most `limit`.
Batches(rows, limit) ==
    {b \in SUBSET rows :
        /\ Cardinality(b) = IF Cardinality(rows) < limit THEN Cardinality(rows) ELSE limit
        /\ \A x \in b, y \in rows \ b : x.day <= y.day}
=============================================================================
