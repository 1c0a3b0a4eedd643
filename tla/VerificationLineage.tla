------------------------ MODULE VerificationLineage ------------------------
(***************************************************************************)
(* How G10 measures one action, and how the measurement is audited.        *)
(*                                                                         *)
(* RemediationRun treats a baseline as taken or not and a verdict as a     *)
(* choice.  Here time passes, the metric changes, reads take a while, and  *)
(* the verdict is computed: G10 reads a baseline before the write, G9      *)
(* checks its age when it is about to write, G10 reads again after the     *)
(* settling period and compares.  The governed memory later reconstructs   *)
(* the whole lineage from the stored rows (asic/remediation/trust.py)      *)
(* before it believes the verdict.                                         *)
(*                                                                         *)
(* One clock is assumed, and a metric backend whose newest sample is never *)
(* replaced by an older one.  Rows are append-only and joined by foreign keys, *)
(* so that a row names the read it came from, and that its digest matches, *)
(* hold by construction and are left out.                                  *)
(***************************************************************************)
EXTENDS Integers

CONSTANTS
    Threshold,         \* of the profile; a value below it is healthy
    Window,            \* window_seconds of the profile
    MaxBaselineAge,    \* max_baseline_age_seconds of the profile
    Settling,          \* settling_seconds of the tool
    Approved,          \* profile version -> the measurement sources it approves
    Sources,           \* the sources a deployment may answer from
    Values,            \* values of the metric
    MaxTime,           \* bound on the clock
    None

ASSUME LineageAssumption ==
    /\ Threshold \in Int /\ Values \subseteq Int
    /\ Window \in Nat /\ MaxBaselineAge \in Nat /\ Settling \in Nat /\ MaxTime \in Nat
    /\ DOMAIN Approved \subseteq Nat /\ 1 \in DOMAIN Approved
    /\ \A v \in DOMAIN Approved : Approved[v] \subseteq Sources

VARIABLES
    now,            \* the clock
    sample,         \* the newest sample of the metric in the backend: time and value
    current,        \* the profile version a new proposal selects
    pc,             \* where the run is
    action,         \* the remediation_action row
    read,           \* the read under way: when it was asked for, and the answer to come
    baseline,       \* the remediation_baseline row
    verification    \* the verification row

vars == <<now, sample, current, pc, action, read, baseline, verification>>

Versions == DOMAIN Approved

Init ==
    /\ now = 0
    /\ sample \in [at : {0}, value : Values]
    /\ current = 1
    /\ pc = "proposing"
    /\ action = None /\ read = None /\ baseline = None /\ verification = None

\* Time passes; the backend may gain a sample, or there is a gap.
Tick ==
    /\ now < MaxTime
    /\ pc # "done"
    /\ now' = now + 1
    /\ sample' \in {sample} \cup [at : {now + 1}, value : Values]
    /\ UNCHANGED <<current, pc, action, read, baseline, verification>>

\* A release registers the next profile version.
Upgrade ==
    /\ current + 1 \in Versions
    /\ current' = current + 1
    /\ UNCHANGED <<now, sample, pc, action, read, baseline, verification>>

\* The registered version that equals the frozen criteria.
profile_for_criteria(criteria) == CHOOSE v \in Versions : v = criteria

\* The criteria are frozen when the action is proposed, from the current profile.
Propose ==
    /\ pc = "proposing"
    /\ action' = [criteria |-> current, executed_at |-> None, status |-> "approved"]
    /\ pc' = "measuring"
    /\ UNCHANGED <<now, sample, current, read, baseline, verification>>

-----------------------------------------------------------------------------
\* A read asks for the window that ends now.  The last sample the backend has by
\* then counts, and the answer takes its time.
Ask == read' = [started |-> now, sample |-> sample]

\* Mutant: a sample from before the window will do.
ObserveUnchecked == {read.sample}

\* Stale evidence is no evidence.
_observe == {s \in {read.sample} : s.at >= read.started - Window}

BaselineRow(s, source) ==
    [sample |-> s, source |-> source, started |-> read.started, completed |-> now,
     captured_at |-> now, profile |-> profile_for_criteria(action.criteria)]

trusted_baseline_record(dispatch_at, as_of) ==
    LET profile == profile_for_criteria(action.criteria) IN
    /\ baseline.profile = profile
    /\ baseline.source \in Approved[profile]
    /\ baseline.started =< baseline.completed /\ baseline.completed =< baseline.captured_at
    /\ baseline.sample.at =< baseline.captured_at
    /\ baseline.captured_at =< dispatch_at /\ dispatch_at =< as_of
    /\ dispatch_at - baseline.sample.at =< MaxBaselineAge

BaselineAsks ==
    /\ pc = "measuring"
    /\ read = None
    /\ Ask
    /\ UNCHANGED <<now, sample, current, pc, action, baseline, verification>>

BaselineCaptured ==
    /\ pc = "measuring"
    /\ read # None
    /\ \E s \in _observe, source \in Sources : baseline' = BaselineRow(s, source)
    /\ read' = None
    /\ pc' = "executing"
    /\ UNCHANGED <<now, sample, current, action, verification>>

\* The read failed, or brought nothing usable.
BaselineUnavailable ==
    /\ pc = "measuring"
    /\ read # None
    /\ read' = None
    /\ pc' = "done"
    /\ UNCHANGED <<now, sample, current, action, baseline, verification>>

\* G9 looks at the baseline once more before it commits itself to the write.
ExecutorChecks ==
    /\ pc = "executing"
    /\ IF trusted_baseline_record(now, now)
       THEN pc' = "dispatching" /\ UNCHANGED action
       ELSE pc' = "done" /\ action' = [action EXCEPT !.status = "failed_clean"]
    /\ UNCHANGED <<now, sample, current, read, baseline, verification>>

\* executed_at is the time the write is known to have succeeded: at once, or
\* after an interrupted dispatch has been reconciled.
RouteSuccess ==
    /\ pc = "dispatching"
    /\ action' = [action EXCEPT !.status = "succeeded", !.executed_at = now]
    /\ pc' = "settling"
    /\ UNCHANGED <<now, sample, current, read, baseline, verification>>

-----------------------------------------------------------------------------
Healthy(s) == s.value < Threshold

\* Every registered profile wants a decrease and requires the improvement.
Improved(s) == s.value < baseline.sample.value

Verification(verdict, s, source) ==
    [verdict |-> verdict, sample |-> s, source |-> source,
     started |-> read.started, completed |-> now,
     window_start |-> now - Window, window_end |-> now, verified_at |-> now]

Judge(v) ==
    /\ verification' = v
    /\ action' = [action EXCEPT !.status = v.verdict]
    /\ read' = None
    /\ pc' = "done"
    /\ UNCHANGED <<now, sample, current, baseline>>

\* Mutant: the baseline is not looked at again.
BaselineStands_Assumed == TRUE

\* With executed_at the baseline may have become too old since G9 looked.
BaselineStands == trusted_baseline_record(action.executed_at, now)

Settled == now >= action.executed_at + Settling

VerifierAsks ==
    /\ pc = "settling"
    /\ Settled
    /\ BaselineStands
    /\ Ask
    /\ pc' = "verifying"
    /\ UNCHANGED <<now, sample, current, action, baseline, verification>>

\* The sample is judged; that its source is an approved one is not asked here.
_evaluate ==
    /\ pc = "verifying"
    /\ \E s \in _observe, source \in Sources :
         Judge(Verification(IF Healthy(s) /\ Improved(s) THEN "verified" ELSE "not_verified",
                            s, source))

\* The baseline does not stand, or the read failed or brought nothing usable.
Inconclusive ==
    /\ \/ pc = "settling" /\ Settled /\ ~BaselineStands
       \/ pc = "verifying"
    /\ Judge([verdict |-> "inconclusive", verified_at |-> now])

\* The pass dies during a read: the node's transaction is lost and it runs again.
Crash ==
    /\ read # None
    /\ read' = None
    /\ pc' = IF pc = "verifying" THEN "settling" ELSE pc
    /\ UNCHANGED <<now, sample, current, action, baseline, verification>>

Next ==
    \/ Tick
    \/ Upgrade
    \/ Propose
    \/ BaselineAsks
    \/ BaselineCaptured
    \/ BaselineUnavailable
    \/ ExecutorChecks
    \/ RouteSuccess
    \/ VerifierAsks
    \/ _evaluate
    \/ Inconclusive
    \/ Crash

Spec == Init /\ [][Next]_vars

-----------------------------------------------------------------------------
Verified == verification # None /\ verification.verdict = "verified"

\* The lineage columns of a verification are there all together or not at all.
HasLineage(v) == {"sample", "source", "started", "completed"} \subseteq DOMAIN v

\* The audit of the memory: the verdict is reproduced from the stored rows.
trusted_verified_outcome ==
    LET v == verification
        profile == profile_for_criteria(action.criteria)
    IN  /\ Verified /\ HasLineage(v)
        /\ action.status = "verified"
        /\ action.criteria = profile
        /\ trusted_baseline_record(action.executed_at, v.verified_at)
        /\ v.source \in Approved[profile]
        /\ action.executed_at =< v.started /\ v.started =< v.completed
        /\ v.completed =< v.verified_at
        /\ v.window_start =< v.sample.at /\ v.sample.at =< v.window_end
        /\ v.window_end =< v.verified_at
        /\ v.verified_at - v.sample.at =< Window
        /\ Healthy(v.sample) /\ Improved(v.sample)

-----------------------------------------------------------------------------
Sample == [at : Nat, value : Values]

Action ==
    [criteria : Versions, executed_at : Nat \cup {None},
     status : {"approved", "failed_clean", "succeeded", "verified", "not_verified",
               "inconclusive"}]

Read == [started : Nat, sample : Sample]

Baseline ==
    [sample : Sample, source : Sources, started : Nat, completed : Nat, captured_at : Nat,
     profile : Versions]

Judgement ==
    [verdict : {"verified", "not_verified"}, sample : Sample, source : Sources,
     started : Nat, completed : Nat, window_start : Int, window_end : Nat, verified_at : Nat]

TypeOK ==
    /\ now \in Nat
    /\ sample \in Sample
    /\ current \in Versions
    /\ pc \in {"proposing", "measuring", "executing", "dispatching", "settling", "verifying",
               "done"}
    /\ pc # "proposing" => action \in Action
    /\ pc \in {"executing", "dispatching", "settling", "verifying"} => baseline \in Baseline
    /\ pc \in {"settling", "verifying"} => action.executed_at \in Nat
    /\ read = None \/ read \in Read
    /\ pc = "verifying" => read \in Read
    /\ pc \in {"executing", "dispatching", "done"} => read = None
    /\ pc # "done" => verification = None

\* A sample is no younger than the clock, and a read asked for one it had.
ReadsThePast ==
    /\ sample.at =< now
    /\ read # None \/ pc = "verifying" =>
         read.sample.at =< read.started /\ read.started =< now

Newer(s, t) == s.at > t.at \/ s = t

\* What is read later is newer, or the same sample again.
SamplesInOrder ==
    /\ read # None \/ pc = "verifying" => Newer(sample, read.sample)
    /\ pc \in {"executing", "dispatching", "settling", "verifying"} =>
         Newer(sample, baseline.sample)
    /\ pc = "verifying" => Newer(read.sample, baseline.sample)

\* The baseline on which a write is known to have succeeded still stands while the
\* verifier reads, and the verifier asked after the settling period.
ReadsAfterSettling ==
    /\ pc \in {"settling", "verifying"} => action.executed_at =< now
    /\ pc = "verifying" =>
         BaselineStands /\ read.started >= action.executed_at + Settling

\* What the rows of a verified action say of each other.
RowsAgree ==
    Verified =>
        /\ verification \in Judgement /\ baseline \in Baseline /\ action \in Action
        /\ action.executed_at \in Nat /\ action.status = "verified"
        /\ trusted_baseline_record(action.executed_at, verification.verified_at)
        /\ Healthy(verification.sample) /\ Improved(verification.sample)
        /\ verification.started >= action.executed_at + Settling
        /\ verification.sample.at >= verification.started - Window
        /\ verification.sample.at =< verification.started
        /\ baseline.sample.at < verification.sample.at
        /\ verification.started =< verification.completed
        /\ verification.completed = verification.verified_at
        /\ verification.window_end = verification.verified_at
        /\ verification.window_start = verification.verified_at - Window

\* A verdict "verified" rests on two different measurements of the metric, the second
\* taken after the first.  The first was captured before the write was known to be done
\* and was then of at most the permitted age; the second is healthy and lower, was read
\* only after the settling period had passed, and was at most a window old when it was
\* asked for.  That it was taken after the write is not claimed, because the code
\* does not see to it: the window of every registered profile is longer than any settling
\* period, and _observe compares the sample with the window alone (verifier.py:480).
VerifiedRestsOnMeasurement ==
    Verified =>
        LET b == baseline.sample
            o == verification.sample
        IN  /\ o.value < Threshold /\ o.value < b.value
            /\ b.at =< action.executed_at /\ action.executed_at - b.at =< MaxBaselineAge
            /\ baseline.captured_at =< action.executed_at /\ b.at < o.at
            /\ verification.started >= action.executed_at + Settling
            /\ verification.started - o.at \in 0..Window

\* The verifier and the audit judge alike: a verdict "verified" that the audit
\* does not reproduce has a sample older than the window the row records (the
\* read took time) or from a source the frozen profile does not approve, and
\* no other reason.
RefusedOnlyForAgeOrSource ==
    Verified /\ ~trusted_verified_outcome =>
        \/ verification.sample.at < verification.window_start
        \/ verification.source \notin Approved[action.criteria]

=============================================================================
