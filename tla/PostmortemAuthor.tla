------------------------- MODULE PostmortemAuthor -------------------------
(***************************************************************************)
(* The postmortem author (asic/postmortem) as the worker runs it.  A       *)
(* worker finds a resolved incident without a draft, claims it, loads the  *)
(* records, drafts sections outside any transaction and persists the draft *)
(* under the incident row, where it looks at the records again.            *)
(*                                                                         *)
(* A record set is identified by its fingerprint: the state changes, the   *)
(* evidence rows and the verdict it holds.  Logs only grow, so the number  *)
(* of state changes stands for them.  load_sources reads with several      *)
(* statements and without a lock the first time; it is one step here       *)
(* because a fingerprint torn by a state change mixes a status with a log  *)
(* that does not end in it, equals no later fingerprint, and is refused    *)
(* when the draft is persisted.  The draft's own event is not a source.    *)
(***************************************************************************)
EXTENDS IncidentRecord

CONSTANTS
    Claims,     \* what the model may write: the records cited, whether the figures in
                \* it stand in them, and whether it names a cause
    Flagged     \* records flagged as a possible prompt injection

VARIABLES
    claim,      \* the session-level advisory lock of the worker item
    drafts      \* the postmortem rows of the incident

postmortem == <<claim, drafts>>

Fingerprint == [events |-> Len(log), evidence |-> evidence, verified |-> verified]

\* What the investigation left, by handle.
Observations(fp) ==
    {<<"event", n>> : n \in 1..fp.events} \cup {<<"evidence", n>> : n \in 1..fp.evidence}

\* The action, its policy decision and its execution; the verification once
\* there is one.
_remediation_path(fp) ==
    {<<"action", 1>>, <<"policy_decision", 1>>, <<"tool_execution", 1>>}
        \cup {h \in {<<"verification", 1>>} : fp.verified}

\* The hypothesis whose remediation was verified, or else the one a remediation
\* was started against.  This incident has one action, so it is the same one, and
\* what became of it in the meantime does not matter.
_root_cause(fp) == <<"hypothesis", 1>>

\* The records a fingerprint stands for.
Records(fp) == Observations(fp) \cup _remediation_path(fp) \cup {_root_cause(fp)}

\* Discovery: created_at is not before terminated_at exactly when no state
\* change came after the draft.
Undrafted ==
    /\ Status = "resolved"
    /\ ~ \E d \in drafts : d.fp.events = Len(log)

Existing(fp) == {d \in drafts : d.fp = fp}

\* Mutant: an action that was once verified makes every later resolution verified.
BasisFromVerdictAlone(fp) ==
    IF fp.verified THEN "independently_verified" ELSE "human_declared"

resolution_basis(fp) ==
    IF fp.verified /\ ResolverAt(fp.events) \in SystemOnly
    THEN "independently_verified" ELSE "human_declared"

\* An uncertainty: the reason and the record it is about.
Uncertainty(reason, handle) == [reason |-> reason, handle |-> handle]

\* What the closing sections leave open: the resolution if a responder merely
\* declared it, and every flagged record.
ClosingUncertainties(fp) ==
    {Uncertainty("injection_flagged", h) : h \in Records(fp) \cap Flagged}
        \cup {u \in {Uncertainty("human_declared", <<"event", fp.events>>)} :
                resolution_basis(fp) = "human_declared"}

\* The uncertainties of the sections built from the records: the leading
\* hypothesis remains one unless its remediation was verified.
assemble(fp) ==
    {u \in {Uncertainty("not_verified", _root_cause(fp))} : ~fp.verified}
        \cup ClosingUncertainties(fp)

PostmortemInit ==
    /\ claim = NoOne
    /\ drafts = {}

Author(s, pc) == task[s].kind = "author" /\ task[s].pc = pc

\* The session leaves its item: the claim is released and, if it holds the
\* incident row, the transaction ends.
Leaves(s) ==
    /\ task' = [task EXCEPT ![s] = Idle]
    /\ claim' = IF claim = s THEN NoOne ELSE claim
    /\ rowLock' = IF rowLock = s THEN NoOne ELSE rowLock

Discover(s) ==
    /\ task[s] = Idle
    /\ claim = NoOne
    /\ Undrafted
    /\ claim' = s
    /\ task' = [task EXCEPT ![s] = [kind |-> "author", pc |-> "claimed"]]
    /\ UNCHANGED <<log, evidence, verdict, rowLock, drafts>>

\* A cause may be named only next to the leading hypothesis.
_causal_claim_supported(c, fp) == c.causal => _root_cause(fp) \in c.cites

\* The first rule a claim breaks removes it: no citation, an unknown one, only
\* flagged records, or a cause or a figure the cited records do not support.
check_claim(c, fp) ==
    /\ c.cites # {}
    /\ c.cites \subseteq Records(fp)
    /\ ~(c.cites \subseteq Flagged)
    /\ _causal_claim_supported(c, fp)
    /\ c.figuresRecorded

\* An answer is a set of claims; what cannot be parsed is an empty one.
validate_model_output(answer, fp) == {c \in answer : check_claim(c, fp)}

\* The model answers with claims, or with nothing usable, or not at all: the
\* draft goes on with what is left.
Generate(fp) ==
    {validate_model_output(answer, fp) : answer \in {{}} \cup {{c} : c \in Claims}}

DraftSections(s) ==
    /\ Author(s, "claimed")
    /\ Status = "resolved"
    /\ Existing(Fingerprint) = {}
    /\ \E kept \in Generate(Fingerprint) :
         task' = [task EXCEPT ![s] = [kind |-> "author", pc |-> "drafted",
                                      fp |-> Fingerprint, kept |-> kept]]
    /\ UNCHANGED <<log, evidence, verdict, rowLock, claim, drafts>>

\* not_eligible or existing
DraftNothing(s) ==
    /\ Author(s, "claimed")
    /\ Status # "resolved" \/ Existing(Fingerprint) # {}
    /\ Leaves(s)
    /\ UNCHANGED <<log, evidence, verdict, drafts>>

\* Mutant: a draft another worker wrote meanwhile is not looked for.
WritableAgain(s) ==
    /\ Status = "resolved"
    /\ Fingerprint = task[s].fp

Writable(s) ==
    /\ Status = "resolved"
    /\ Fingerprint = task[s].fp
    /\ Existing(Fingerprint) = {}

\* Mutant: the records are looked at again without locking the incident row.
PersistReadsUnlocked(s) ==
    /\ Author(s, "drafted")
    /\ Writable(s)
    /\ task' = [task EXCEPT ![s].pc = "writing"]
    /\ UNCHANGED <<log, evidence, verdict, rowLock, claim, drafts>>

PersistLocks(s) ==
    /\ Author(s, "drafted")
    /\ rowLock = NoOne
    /\ Writable(s)
    /\ rowLock' = s
    /\ task' = [task EXCEPT ![s].pc = "writing"]
    /\ UNCHANGED <<log, evidence, verdict, claim, drafts>>

\* not_eligible, sources_changed or existing: discovery finds the incident again
PersistNothing(s) ==
    /\ Author(s, "drafted")
    /\ rowLock = NoOne
    /\ ~Writable(s)
    /\ Leaves(s)
    /\ UNCHANGED <<log, evidence, verdict, drafts>>

\* The row: only a human can make it more than a draft.
Postmortem(fp, kept) ==
    [fp |-> fp, version |-> Cardinality(drafts) + 1, basis |-> resolution_basis(fp),
     uncertain |-> assemble(fp), kept |-> kept]

PersistWrites(s) ==
    /\ Author(s, "writing")
    /\ drafts' = drafts \cup {Postmortem(task[s].fp, task[s].kept)}
    /\ Leaves(s)
    /\ UNCHANGED <<log, evidence, verdict>>

\* The worker dies, or its transaction fails.
AuthorDies(s) ==
    /\ task[s].kind = "author"
    /\ Leaves(s)
    /\ UNCHANGED <<log, evidence, verdict, drafts>>

\* The connection that holds the claim is lost while the item goes on.
ClaimLost ==
    /\ claim # NoOne
    /\ claim' = NoOne
    /\ UNCHANGED <<log, evidence, verdict, rowLock, task, drafts>>

PostmortemNext ==
    \/ ClaimLost
    \/ \E s \in Sessions :
         \/ Discover(s)
         \/ DraftSections(s)
         \/ DraftNothing(s)
         \/ PersistLocks(s)
         \/ PersistNothing(s)
         \/ PersistWrites(s)
         \/ AuthorDies(s)

-----------------------------------------------------------------------------
\* One draft per record set, numbered without a gap, however many workers draft
\* the same incident: the unique key on the fingerprint is never needed.
OneDraftPerRecordSet ==
    /\ \A d, e \in drafts : d.fp = e.fp => d = e
    /\ {d.version : d \in drafts} = 1..Cardinality(drafts)

\* A draft is written only for an incident that is resolved at that moment and
\* from a log that misses no state change, although the model took its time and
\* a responder may have reopened the incident meanwhile.
DraftMissesNothing ==
    [][\A d \in drafts' \ drafts : Status = "resolved" /\ d.fp.events = Len(log)]_<<log, drafts>>

\* A draft says "independently verified" only if the control plane, and not a
\* responder, closed the incident the last time before the draft, on a verdict,
\* and lists a responder's word among its uncertainties; and what the model
\* contributed cites an unflagged record, only records of its record set, and a
\* verification only if there was one by then.
DraftIsTrue ==
    \A d \in drafts :
        /\ ResolverAt(d.fp.events) = "human" =>
             \E u \in d.uncertain :
                 u.reason = "human_declared" /\ StatusAt(u.handle[2]) = "resolved"
        /\ d.basis = "independently_verified" =>
             d.fp.verified /\ ResolverAt(d.fp.events) = "system"
        /\ \A c \in d.kept : c.cites \ Flagged # {} /\ c.cites \subseteq Records(d.fp)
=============================================================================
