--------------------------- MODULE WriteContract ---------------------------
(***************************************************************************)
(* What the remediation pipeline promises about one external write, with   *)
(* no workers, leases, nodes or transactions: the right to cause an effect *)
(* is taken once, by this action or by another; this action takes it only  *)
(* with an authority that is never withdrawn afterwards; only its holder   *)
(* sends the write, once; it takes effect at most once and only after it   *)
(* was sent; and success is reported only once it is attested.             *)
(***************************************************************************)
EXTENDS Naturals

VARIABLES
    granted,    \* policy or a human has authorized the write
    holder,     \* who has the right to cause the effect: "none", "own" or "other"
    sent,       \* how many times the adapter was called
    applied,    \* how many effects of this action the target has seen
    attested,   \* there is a reason to believe the target is as wanted
    reported    \* the write is on record as executed

vars == <<granted, holder, sent, applied, attested, reported>>

Init ==
    /\ granted = FALSE /\ holder = "none"
    /\ sent = 0 /\ applied = 0
    /\ attested = FALSE /\ reported = FALSE

Grant ==
    /\ ~granted
    /\ granted' = TRUE
    /\ UNCHANGED <<holder, sent, applied, attested, reported>>

Take ==
    /\ holder = "none"
    /\ holder' \in {"other"} \cup (IF granted THEN {"own"} ELSE {})
    /\ UNCHANGED <<granted, sent, applied, attested, reported>>

\* The effect may show before the caller has its answer.
Send ==
    /\ holder = "own" /\ sent = 0
    /\ sent' = 1
    /\ applied' \in {0, 1}
    /\ attested' = (attested \/ applied' = 1)
    /\ UNCHANGED <<granted, holder, reported>>

\* A call the sender gave up on.
Apply ==
    /\ sent = 1 /\ applied = 0
    /\ applied' = 1
    /\ attested' = TRUE
    /\ UNCHANGED <<granted, holder, sent, reported>>

\* The other holder reports, or the target is read back: only once someone may have written.
\* What is attested may be put on record in the same step.
Attest ==
    /\ holder # "none"
    /\ attested' = TRUE
    /\ reported' \in {reported, TRUE}
    /\ UNCHANGED <<granted, holder, sent, applied>>

Next == Grant \/ Take \/ Send \/ Apply \/ Attest

Spec == Init /\ [][Next]_vars
=============================================================================
