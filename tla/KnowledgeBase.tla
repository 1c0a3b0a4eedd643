--------------------------- MODULE KnowledgeBase ---------------------------
(***************************************************************************)
(* The governed knowledge base: one source document of one tenant, its     *)
(* immutable versions, the importers that write them, the humans that      *)
(* withdraw them or change who may read them, and the investigations that  *)
(* search them, record what they found and show it to a model              *)
(* (asic/knowledge, asic/orchestration/knowledge_context.py).              *)
(*                                                                         *)
(* Sources are independent of each other (the advisory lock, the version   *)
(* numbers and the one-current index are all per source), so one is        *)
(* enough.  The tables of a source are `source' and `versions'; version    *)
(* numbers are positions in `versions' because nothing is ever deleted.    *)
(* Transactions run READ COMMITTED: what a transaction read may change     *)
(* before it writes, unless a lock says otherwise, so an import and a      *)
(* status change are each split where they read.                           *)
(***************************************************************************)
EXTENDS Integers, Sequences, FiniteSets

CONSTANTS
    Importers,    \* concurrent ingest() calls
    Managers,     \* humans with knowledge.lifecycle.manage
    Searchers,    \* investigations with a knowledge.search call
    Bodies,       \* document bodies a provider may deliver
    Canonical,    \* what canonicalize and chunk_document make of a body, or Refused
    Refused,      \* a body that is refused: too large, not UTF-8, empty, too many chunks
    Labels,       \* ACL labels
    ModelOf,      \* the embedding model an importer or a searcher is deployed with
    Interval,     \* review_interval_days of the source, in ticks
    Nobody,       \* nobody holds the source lock
    Never,        \* a NULL timestamp
    MaxVersions,  \* bound on the versions of the source
    MaxTime       \* bound on the clock

ASSUME ConstantsAssumption ==
    /\ Canonical \in [Bodies -> Bodies \cup {Refused}]
    /\ Refused \notin Bodies
    /\ Nobody \notin Importers
    /\ Never \notin Int
    /\ Interval \in Nat /\ MaxVersions \in Nat /\ MaxTime \in Nat

VARIABLES
    now,         \* the clock every service reads
    source,      \* the knowledge_source row: its status and its ACL labels
    versions,    \* the knowledge_document rows of the source, by version number
    lock,        \* the transaction-level advisory lock of the source
    import,      \* the ingest() call of each importer
    manage,      \* the status or access change of each manager
    clearances,  \* the clearances the tenant's grant gives an investigation
    search       \* the retrieval of each searcher: found, recorded as evidence, shown

knowledgeVars == <<now, source, versions, lock, import, manage, clearances, search>>

Policies == SUBSET Labels
Statuses == {"absent", "active", "revoked", "deleted"}

Source == [status : Statuses, acl : Policies]

\* One lock per source; only imports hold it across more than one step.
SourceLock == Importers \cup {Nobody}

NoImport == [pc |-> "idle"]
NoManage == [pc |-> "idle"]
NoSearch == [pc |-> "idle"]

Numbers == 1..Len(versions)

Current == {n \in Numbers : versions[n].life = "current"}

SameContent(v, i, content) == v.content = content /\ v.model = ModelOf[i]

(***************************************************************************)
(* What a principal may read.  `Access' is current_access: it looks at the *)
(* source and the version as they stand now.  `EligibleAt' is the          *)
(* disposition of the retrieval query for a moment in time.                *)
(***************************************************************************)
Authorized(acl, cleared) == acl = {} \/ acl \cap cleared # {}

Access(n, cleared) ==
    /\ source.status = "active"
    /\ versions[n].life # "revoked"
    /\ Authorized(source.acl, cleared)

InForce(v, t) ==
    /\ v.life # "revoked"
    /\ v.eff =< t
    /\ v.sup = Never \/ v.sup > t

Eligible(t, model, cleared) ==
    {n \in Numbers :
        /\ Access(n, cleared)
        /\ InForce(versions[n], t)
        /\ versions[n].fresh = Never \/ versions[n].fresh > t
        /\ versions[n].model = model}

-----------------------------------------------------------------------------
KnowledgeInit ==
    /\ now = 0
    /\ source = [status |-> "absent", acl |-> {}]
    /\ versions = << >>
    /\ lock = Nobody
    /\ import = [i \in Importers |-> NoImport]
    /\ manage = [m \in Managers |-> NoManage]
    /\ clearances = Labels
    /\ search = [s \in Searchers |-> NoSearch]

Tick ==
    /\ now < MaxTime
    /\ now' = now + 1
    /\ UNCHANGED <<source, versions, lock, import, manage, clearances, search>>

(***************************************************************************)
(* ingest().  The body is canonicalized and chunked, compared with the     *)
(* current version without a lock, embedded outside any transaction, and   *)
(* committed under the source lock, where everything is looked at again.   *)
(* A body that is refused and one that is unchanged on the fast path leave *)
(* a receipt and nothing else.  Receipts are append-only and no code reads *)
(* them back, so they are not part of the state.                           *)
(***************************************************************************)
canonicalize(body) == Canonical[body]

\* The canonical text has something to chunk and does not make too many chunks.
Chunkable(content) == content # Refused

SourceDocument(content, acl) == [pc |-> "embedding", content |-> content, acl |-> acl]

Unchanged(i, content, acl) ==
    /\ source.status = "active"
    /\ source.acl = acl
    /\ \E n \in Current : SameContent(versions[n], i, content)

Ingest(i) ==
    /\ import[i].pc = "idle"
    /\ \E body \in Bodies, acl \in Policies :
         LET content == canonicalize(body) IN
         /\ Chunkable(content)
         /\ ~Unchanged(i, content, acl)
         /\ import' = [import EXCEPT ![i] = SourceDocument(content, acl)]
    /\ UNCHANGED <<now, source, versions, lock, manage, clearances, search>>

EmbedFails(i) ==
    /\ import[i].pc = "embedding"
    /\ import' = [import EXCEPT ![i] = NoImport]
    /\ UNCHANGED <<now, source, versions, lock, manage, clearances, search>>

\* Mutant: the source's status and policy, read before the embedding, are not read again.
RefusalTrustingFastPath(i) == FALSE

\* The policy an import brings must be the one in force: an import neither
\* revives a withdrawn source nor changes who may read it.
Refusal(i) ==
    \/ source.status \in {"revoked", "deleted"}
    \/ source.status = "active" /\ source.acl # import[i].acl

\* A policy that names a service or an environment the tenant does not have is
\* refused too (_missing_scope): the catalogue may lose the entry at any time.
CommitRefused(i) ==
    /\ import[i].pc = "embedding"
    /\ lock = Nobody
    /\ import' = [import EXCEPT ![i] = NoImport]
    /\ UNCHANGED <<now, source, versions, lock, manage, clearances, search>>

CommitUnchanged(i) ==
    /\ import[i].pc = "embedding"
    /\ lock = Nobody
    /\ ~Refusal(i)
    /\ \E n \in Current : SameContent(versions[n], i, import[i].content)
    /\ import' = [import EXCEPT ![i] = NoImport]
    /\ UNCHANGED <<now, source, versions, lock, manage, clearances, search>>

Writing(i) ==
    import' = [import EXCEPT ![i] = [pc |-> "writing", content |-> @.content, acl |-> @.acl,
                                     current |-> Current, stamp |-> now]]

\* The lock is taken, then the current version and the clock are read; the rows
\* are written later, and until then only revoke_version can get in between.
CommitReads(i) ==
    /\ import[i].pc = "embedding"
    /\ lock = Nobody
    /\ ~Refusal(i)
    /\ ~ \E n \in Current : SameContent(versions[n], i, import[i].content)
    /\ Len(versions) < MaxVersions
    /\ lock' = i
    /\ Writing(i)
    /\ UNCHANGED <<now, source, versions, manage, clearances, search>>

\* A document that claims to be updated in the future gains nothing by it.
FreshUntil(updated, stamp) ==
    IF Interval = 0 THEN Never
    ELSE (IF updated < stamp THEN updated ELSE stamp) + Interval

NewVersion(i, updated) ==
    [content |-> import[i].content, model |-> ModelOf[i],
     life |-> "current", eff |-> import[i].stamp, sup |-> Never,
     fresh |-> FreshUntil(updated, import[i].stamp)]

\* Mutant: the version that is replaced is not given an end.
SupersededWithoutEnd(v, stamp) == [v EXCEPT !.life = "superseded"]

Superseded(v, stamp) == [v EXCEPT !.life = "superseded", !.sup = stamp]

\* The update names the row by its key, so it overwrites whatever the version's
\* lifecycle has become since it was read.  `updated' is the provider's own
\* date of the document: long ago, or claimed to be in the future.
CommitWrites(i) ==
    /\ import[i].pc = "writing"
    /\ \E updated \in {0, MaxTime} :
         versions' = Append([n \in Numbers |-> IF n \in import[i].current
                                                THEN Superseded(versions[n], import[i].stamp)
                                                ELSE versions[n]],
                             NewVersion(i, updated))
    /\ source' = IF source.status = "absent" THEN [status |-> "active", acl |-> import[i].acl]
                                             ELSE source
    /\ lock' = Nobody
    /\ import' = [import EXCEPT ![i] = NoImport]
    /\ UNCHANGED <<now, manage, clearances, search>>

\* The process dies, or the database refuses: the transaction rolls back.
ImportDies(i) ==
    /\ import[i].pc # "idle"
    /\ lock' = IF lock = i THEN Nobody ELSE lock
    /\ import' = [import EXCEPT ![i] = NoImport]
    /\ UNCHANGED <<now, source, versions, manage, clearances, search>>

(***************************************************************************)
(* Withdrawal and access.  revoke_source, delete_source and                *)
(* update_source_access load the source row before they wait for its lock, *)
(* and the unit of work writes a column only when it differs from what was *)
(* loaded.  revoke_version takes no lock.                                  *)
(***************************************************************************)
ManageLoads(m) ==
    /\ manage[m].pc = "idle"
    /\ source.status # "absent"
    /\ \E change \in [status : {"revoked", "deleted"}] \cup [acl : Policies] :
         manage' = [manage EXCEPT ![m] = [pc |-> "loaded", change |-> change,
             seen |-> IF "acl" \in DOMAIN change THEN source.acl ELSE source.status]]
    /\ UNCHANGED <<now, source, versions, lock, import, clearances, search>>

With(m) ==
    LET change == manage[m].change
        seen   == manage[m].seen
    IN  IF "status" \in DOMAIN change
        THEN IF seen \in {"deleted", change.status}
             THEN source
             ELSE [source EXCEPT !.status = change.status]
        ELSE IF seen = change.acl THEN source ELSE [source EXCEPT !.acl = change.acl]

ManageWrites(m) ==
    /\ manage[m].pc = "loaded"
    /\ lock = Nobody
    /\ source' = With(m)
    /\ manage' = [manage EXCEPT ![m] = NoManage]
    /\ UNCHANGED <<now, versions, lock, import, clearances, search>>

RevokeVersion(m) ==
    /\ manage[m].pc = "idle"
    /\ \E n \in Numbers :
         /\ versions[n].life # "revoked"
         /\ versions' = [versions EXCEPT ![n].life = "revoked"]
    /\ UNCHANGED <<now, source, lock, import, manage, clearances, search>>

\* An administrator changes the clearances in the tenant's grant of knowledge.search.
Regrant ==
    /\ clearances' \in Policies \ {clearances}
    /\ UNCHANGED <<now, source, versions, lock, import, manage, search>>

(***************************************************************************)
(* An investigation searches through the broker, verifies the manifest it  *)
(* got against what it may read now, records it with its evidence, and     *)
(* renders the evidence into every later prompt.  The clearances and the   *)
(* rows are read by two statements of one transaction: a grant that        *)
(* changes between them might as well change after the second.             *)
(***************************************************************************)
investigation_principal == clearances

\* The retrieval as the broker's result manifest names it: the versions found and
\* the access they were found with.
Retrieval(results) ==
    [pc |-> "found", results |-> results, cleared |-> investigation_principal]

\* Scores, fusion, the similarity floor and the limits may leave any of them out.
Ranked(found) == SUBSET found

Retrieve(s) == Ranked(Eligible(now, ModelOf[s], investigation_principal))

Search(s) ==
    /\ search[s].pc \in {"idle", "recorded"}
    /\ \E results \in Retrieve(s) :
         search' = [search EXCEPT ![s] = Retrieval(results)]
    /\ UNCHANGED <<now, source, versions, lock, import, manage, clearances>>

ManifestValid(s) ==
    /\ search[s].cleared = investigation_principal
    /\ \A n \in search[s].results : Access(n, investigation_principal)

VerifyManifest(s) ==
    /\ search[s].pc = "found"
    /\ search' = [search EXCEPT ![s] = IF ManifestValid(s)
                                       THEN [pc |-> "recorded", results |-> @.results, shown |-> {}]
                                       ELSE NoSearch]
    /\ UNCHANGED <<now, source, versions, lock, import, manage, clearances>>

\* Mutant: the prompt shows what was recorded.
ReadableAsRecorded(s) == search[s].results

Readable(s) == {n \in search[s].results : Access(n, investigation_principal)}

Render(s) ==
    /\ search[s].pc = "recorded"
    /\ search' = [search EXCEPT ![s].shown = Readable(s)]
    /\ UNCHANGED <<now, source, versions, lock, import, manage, clearances>>

\* A recorded retrieval is replayed, or one of its citations resolved, for a
\* caller with clearances of its own: the versions are the recorded ones, the
\* text is handed back only as far as that caller may read it now.
Replay(s) ==
    /\ search[s].pc = "recorded"
    /\ \E cleared \in Policies :
         search' = [search EXCEPT ![s].shown = {n \in search[s].results : Access(n, cleared)}]
    /\ UNCHANGED <<now, source, versions, lock, import, manage, clearances>>

-----------------------------------------------------------------------------
KnowledgeNext ==
    \/ Tick
    \/ Regrant
    \/ \E i \in Importers :
         \/ Ingest(i)
         \/ EmbedFails(i)
         \/ CommitRefused(i)
         \/ CommitUnchanged(i)
         \/ CommitReads(i)
         \/ CommitWrites(i)
         \/ ImportDies(i)
    \/ \E m \in Managers :
         \/ ManageLoads(m)
         \/ ManageWrites(m)
         \/ RevokeVersion(m)
    \/ \E s \in Searchers :
         \/ Search(s)
         \/ VerifyManifest(s)
         \/ Render(s)
         \/ Replay(s)

KnowledgeSpec == KnowledgeInit /\ [][KnowledgeNext]_knowledgeVars

-----------------------------------------------------------------------------
Times == 0..MaxTime

Version ==
    [content : Bodies, model : {ModelOf[i] : i \in Importers},
     life : {"current", "superseded", "revoked"},
     eff : Times, sup : Times \cup {Never}, fresh : Nat \cup {Never}]

Importing ==
    [pc : {"idle"}] \cup [pc : {"embedding"}, content : Bodies, acl : Policies]
    \cup [pc : {"writing"}, content : Bodies, acl : Policies, current : SUBSET Nat, stamp : Times]

Managing ==
    [pc : {"idle"}]
    \cup [pc : {"loaded"}, change : [status : {"revoked", "deleted"}], seen : Statuses]
    \cup [pc : {"loaded"}, change : [acl : Policies], seen : Policies]

Searching ==
    [pc : {"idle"}] \cup [pc : {"found"}, results : SUBSET Nat, cleared : Policies]
    \cup [pc : {"recorded"}, results : SUBSET Nat, shown : SUBSET Nat]

KnowledgeTypeOK ==
    /\ now \in Times
    /\ source \in Source
    /\ versions \in Seq(Version)
    /\ lock \in SourceLock
    /\ import \in [Importers -> Importing]
    /\ manage \in [Managers -> Managing]
    /\ clearances \in Policies
    /\ search \in [Searchers -> Searching]

\* Replay at a time is well defined: at no moment of the past are two versions
\* of the source in force, whatever was imported, replaced or withdrawn since.
OneVersionPerMoment ==
    \A t \in 0..now : Cardinality({n \in Numbers : InForce(versions[n], t)}) =< 1

\* A version is added only while the source is active and only under the access
\* policy in force at that moment, although the importer decided to embed it
\* long before and the source may have been withdrawn or restricted since.
AddedUnderStandingPolicy ==
    [][Len(versions') > Len(versions) =>
         /\ source'.status = "active"
         /\ \E i \in Importers : import[i].pc = "writing" /\ import[i].acl = source'.acl]_knowledgeVars

\* Once a source is withdrawn its text is out of every prompt for good: no
\* import, no access change and no second withdrawal makes it readable again,
\* and a prompt built from evidence recorded before the withdrawal carries none
\* of it.
WithdrawnIsNotShown ==
    [][source.status \in {"revoked", "deleted"} =>
         /\ source'.status \in {"revoked", "deleted"}
         /\ \A s \in Searchers :
              search'[s].pc = "recorded" /\ search'[s] # search[s] => search'[s].shown = {}]_knowledgeVars

-----------------------------------------------------------------------------
(* What makes them inductive.                                              *)

\* A version is closed before its successor takes effect, unless it was revoked, and
\* only an open version is current.
Succession ==
    /\ \A m, n \in Numbers : n < m =>
          \/ versions[n].life = "revoked"
          \/ versions[n].sup # Never /\ versions[n].sup =< versions[m].eff
    /\ \A n \in Numbers :
          /\ versions[n].life = "current" => versions[n].sup = Never
          /\ versions[n].life = "superseded" => versions[n].sup # Never
          /\ versions[n].sup # Never => versions[n].sup =< now

\* An importer that is about to write holds the lock; what it read under it still covers
\* every version that is open, and the source is still as it found it.
WriterIsCurrent ==
    \A i \in Importers : import[i].pc = "writing" =>
        /\ lock = i
        /\ import[i].stamp =< now
        /\ import[i].current \subseteq {Len(versions)}
        /\ \A n \in Numbers \ import[i].current :
              \/ versions[n].life = "revoked"
              \/ versions[n].sup # Never /\ versions[n].sup =< import[i].stamp
        /\ \/ source.status = "absent"
           \/ source.status = "active" /\ source.acl = import[i].acl
=============================================================================
