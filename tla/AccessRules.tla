---------------------------- MODULE AccessRules ----------------------------
(***************************************************************************)
(* Who may do what over the HTTP API.  A role assignment names a role and  *)
(* either one environment or every environment; the permissions of the     *)
(* roles a user holds are read from the database on every request.         *)
(***************************************************************************)
EXTENDS Naturals

CONSTANTS None

\* The platform's roles and the permissions each one carries.
GRANTS ==
    [viewer           |-> {"incident.read"},
     responder        |-> {"incident.read", "incident.control"},
     sre_approver     |-> {"incident.read", "incident.control", "remediation.approve"},
     senior_approver  |-> {"incident.read", "incident.control", "remediation.approve"},
     platform_admin   |-> {"incident.read", "incident.control", "remediation.approve",
                           "administration.read", "audit.read"},
     security_auditor |-> {"incident.read", "audit.read"},
     system_operator  |-> {"incident.read", "ingestion.write", "evaluation.read"}]

\* One row of user_role_assignment: environment None is every environment
\* of the tenant, expires None is an assignment without an end.
Assignment(user, role, environment, expires) ==
    [user |-> user, role |-> role, environment |-> environment, expires |-> expires]

\* The grants a user holds at a moment, as authenticate loads them.
GrantsOf(user, assignments, now) ==
    LET held == {a \in assignments :
                    /\ a.user = user
                    /\ a.expires = None \/ a.expires > now}
    IN UNION {{[permission |-> p, environment |-> a.environment] : p \in GRANTS[a.role]} :
                a \in held}

allows_environment(grants, permission, environment) ==
    \E g \in grants :
        g.permission = permission /\ g.environment \in {None, environment}

allows_tenant_wide(grants, permission) ==
    [permission |-> permission, environment |-> None] \in grants

allows_any_environment(grants, permission) ==
    \E g \in grants : g.permission = permission

\* A refused read leaves an audit row only where it asked for configuration,
\* evaluation history, the audit stream or approvals; a refused change always does.
_AUDITED_READ_PERMISSIONS ==
    {"administration.read", "audit.read", "evaluation.read", "remediation.approve"}

IsAudited(reads, permission) ==
    ~reads \/ permission \in _AUDITED_READ_PERMISSIONS
============================================================================
