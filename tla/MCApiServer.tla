---------------------------- MODULE MCApiServer ----------------------------
(***************************************************************************)
(* Two or three requests on two threads, two connections or one: a         *)
(* responder's change, its retry under the same key, another's change, an  *)
(* approver's decision, alerts and reads.                                  *)
(***************************************************************************)
EXTENDS ApiServer, TLC

CONSTANTS r1, r2, r3

MCRequests == {r1, r2, r3}

Call(op, user, key, body) == [op |-> op, user |-> user, key |-> key, body |-> body]

MCAssignments ==
    {Assignment("ann", "responder", "prod", None),
     Assignment("bob", "sre_approver", None, 1),
     Assignment("src", "system_operator", "prod", None)}

Together(first, retry, third) == (r1 :> first) @@ (r2 :> retry) @@ (r3 :> third)

Remediate(user, key) == Call("request_remediation", user, key, "h1")

Control(user, key, to) == Call("control", user, key, to)

Annotate(user, key, text) == Call("annotate", user, key, text)

Pair(first, second) == (r1 :> first) @@ (r2 :> second)

\* A change and its retry, and two responders' changes.
Repeated ==
    {Pair(Remediate("ann", "k1"), Remediate("ann", "k1")),
     Pair(Remediate("ann", "k1"), Remediate("bob", "k2")),
     Pair(Remediate("ann", "k1"), Control("bob", "k2", "escalated")),
     Pair(Annotate("ann", "k1", "note"), Annotate("ann", "k1", "note")),
     Pair(Annotate("ann", "k1", "note"), Annotate("ann", "k1", "other note"))}

\* A key used again for something else, and an approval that is decided twice.
Mixed ==
    {Pair(Control("ann", "k1", "resolved"), Remediate("ann", "k1")),
     Pair(Call("decide_approval", "bob", "k2", "yes"), Call("decide_approval", "bob", "k3", "no"))}

Page(op, user) == Call(op, user, "k5", "page")

Reading ==
    {Together(Call("ingest_alert", "src", "k3", "a1"), Page("audit", "ann"), Page("suite_runs", "src")),
     Together(Call("ingest_alert", "src", "k3", "a1"), Call("ingest_alert", "ann", "k4", "a2"),
              Page("approvals", "bob")),
     Together(Page("list_incidents", "ann"), Page("incident_read", "ann"),
              Page("administration", "bob"))}

\* Races need two transactions at once, standstills a pool that is used up.
MCSetups == {[call |-> c, connections |-> 2] : c \in Repeated \cup Mixed}
                \cup {[call |-> c, connections |-> 1] : c \in Reading}

Entry(days, hold) == "operational_cache" :> [days |-> days, hold |-> hold]
MCPolicies == {Entry(1, FALSE), Entry(1, TRUE), Entry(0, FALSE)}
============================================================================
