-------------------------- MODULE Knowledge_proofs --------------------------
(***************************************************************************)
(* What the system keeps for later and may show to a model again: governed *)
(* documents (KnowledgeBase), and the postmortems and memories an incident *)
(* leaves behind (Aftermath).                                              *)
(*                                                                         *)
(* Documents: for any importers, managers and searchers, any documents,    *)
(* labels and embedding models, and any bounds on versions and time.       *)
(*                                                                         *)
(* Drafts and memories: for any sessions, people and records.  The         *)
(* argument: logs only grow, so what a draft or an entry said of a part of *)
(* the log stays true of it; a draft is written under the incident row, so *)
(* nothing it rests on moves between the second look and the write; and a  *)
(* promotion is decided on once, under its own row.                        *)
(***************************************************************************)
EXTENDS KnowledgeBase, Aftermath, FiniteSetTheorems, TLAPS

-----------------------------------------------------------------------------
(* Documents: types.                                                       *)

(***************************************************************************)
(* The version an importer writes is a version, open and current, that     *)
(* takes effect when its writer read the clock.                            *)
(***************************************************************************)
LEMMA NewVersionType ==
    ASSUME NEW i \in Importers, import[i] \in Importing, import[i].pc = "writing",
           NEW updated \in {0, MaxTime}
    PROVE  /\ NewVersion(i, updated) \in Version
           /\ NewVersion(i, updated).life = "current"
           /\ NewVersion(i, updated).sup = Never
           /\ NewVersion(i, updated).eff = import[i].stamp
  <1> USE ConstantsAssumption
  <1>1. import[i].content \in Bodies /\ import[i].stamp \in Times
    BY DEF Importing
  <1>2. FreshUntil(updated, import[i].stamp) \in Nat \cup {Never}
    BY <1>1 DEF FreshUntil, Times
  <1> QED
    BY <1>1, <1>2 DEF NewVersion, Version

(***************************************************************************)
(* Closing a version leaves it a version, with everything else as it was.  *)
(***************************************************************************)
LEMMA SupersededType ==
    ASSUME NEW v \in Version, NEW stamp \in Times
    PROVE  /\ Superseded(v, stamp) \in Version
           /\ Superseded(v, stamp).life = "superseded"
           /\ Superseded(v, stamp).sup = stamp
           /\ Superseded(v, stamp).eff = v.eff
  BY DEF Superseded, Version

(***************************************************************************)
(* What a committing import does to the versions: the current ones it read *)
(* are closed at its stamp, the others stay, and one is added.             *)
(***************************************************************************)
LEMMA CommitWritesFrame ==
    ASSUME KnowledgeTypeOK, NEW i \in Importers, CommitWrites(i)
    PROVE  /\ versions' \in Seq(Version)
           /\ Len(versions') = Len(versions) + 1
           /\ \A n \in Numbers :
                versions'[n] = IF n \in import[i].current
                               THEN Superseded(versions[n], import[i].stamp)
                               ELSE versions[n]
           /\ \E updated \in {0, MaxTime} :
                versions'[Len(versions) + 1] = NewVersion(i, updated)
  <1> PICK updated \in {0, MaxTime} :
         versions' = Append([n \in Numbers |-> IF n \in import[i].current
                                                THEN Superseded(versions[n], import[i].stamp)
                                                ELSE versions[n]],
                             NewVersion(i, updated))
    BY DEF CommitWrites
  <1> DEFINE kept == [n \in Numbers |-> IF n \in import[i].current
                                        THEN Superseded(versions[n], import[i].stamp)
                                        ELSE versions[n]]
  <1>1. import[i] \in Importing /\ import[i].pc = "writing" /\ import[i].stamp \in Times
    BY DEF KnowledgeTypeOK, CommitWrites, Importing
  <1>2. \A n \in Numbers : versions[n] \in Version
    BY DEF KnowledgeTypeOK, Numbers
  <1>3. \A n \in Numbers : kept[n] \in Version
    BY <1>1, <1>2, SupersededType
  <1>4. Len(versions) \in Nat
    BY DEF KnowledgeTypeOK
  <1>5. kept \in Seq(Version) /\ Len(kept) = Len(versions)
    BY <1>3, <1>4 DEF Numbers
  <1>6. NewVersion(i, updated) \in Version
    BY <1>1, NewVersionType
  <1>7. versions' = Append(kept, NewVersion(i, updated))
    OBVIOUS
  <1>8. \A n \in Numbers : kept[n] = IF n \in import[i].current
                                     THEN Superseded(versions[n], import[i].stamp)
                                     ELSE versions[n]
    OBVIOUS
  <1> HIDE DEF kept
  <1>9. \A n \in Numbers : versions'[n] = kept[n]
    BY <1>4, <1>5, <1>7 DEF Numbers
  <1>10. /\ versions' \in Seq(Version) /\ Len(versions') = Len(versions) + 1
         /\ versions'[Len(versions) + 1] = NewVersion(i, updated)
    BY <1>4, <1>5, <1>6, <1>7
  <1> QED
    BY <1>8, <1>9, <1>10

(***************************************************************************)
(* Revoking a version changes the lifecycle of one version and nothing     *)
(* else of any.                                                            *)
(***************************************************************************)
LEMMA RevokeFrame ==
    ASSUME KnowledgeTypeOK, NEW m \in Managers, RevokeVersion(m)
    PROVE  /\ versions' \in Seq(Version)
           /\ Len(versions') = Len(versions)
           /\ \A n \in Numbers :
                /\ versions'[n].life \in {versions[n].life, "revoked"}
                /\ versions'[n].eff = versions[n].eff
                /\ versions'[n].sup = versions[n].sup
  <1> PICK k \in Numbers : versions' = [versions EXCEPT ![k].life = "revoked"]
    BY DEF RevokeVersion
  <1>1. \A n \in Numbers : versions[n] \in Version
    BY DEF KnowledgeTypeOK, Numbers
  <1>2. [versions[k] EXCEPT !.life = "revoked"] \in Version
    BY <1>1 DEF Version
  <1>3. versions' = [versions EXCEPT ![k] = [versions[k] EXCEPT !.life = "revoked"]]
    OBVIOUS
  <1>4. versions' \in Seq(Version) /\ Len(versions') = Len(versions)
    BY <1>2, <1>3 DEF KnowledgeTypeOK, Numbers
  <1>5. \A n \in Numbers : versions'[n] = IF n = k THEN [versions[k] EXCEPT !.life = "revoked"]
                                          ELSE versions[n]
    BY <1>3 DEF KnowledgeTypeOK, Numbers
  <1> QED
    BY <1>1, <1>4, <1>5 DEF Version

(***************************************************************************)
(* One step keeps the tables and the callers' states well formed.          *)
(***************************************************************************)
LEMMA KnowledgeTypeStep == KnowledgeTypeOK /\ [KnowledgeNext]_knowledgeVars => KnowledgeTypeOK'
  <1> SUFFICES ASSUME KnowledgeTypeOK, [KnowledgeNext]_knowledgeVars PROVE KnowledgeTypeOK'
    OBVIOUS
  <1> USE ConstantsAssumption
  <1>1. CASE Tick
    BY <1>1 DEF Tick, KnowledgeTypeOK, Times
  <1>2. CASE Regrant
    BY <1>2 DEF Regrant, KnowledgeTypeOK
  <1>3. ASSUME NEW i \in Importers, Ingest(i) PROVE KnowledgeTypeOK'
    BY <1>3 DEF Ingest, KnowledgeTypeOK, Importing, canonicalize, Chunkable, SourceDocument
  <1>4. ASSUME NEW i \in Importers, EmbedFails(i) \/ CommitRefused(i) \/ CommitUnchanged(i)
        PROVE  KnowledgeTypeOK'
    BY <1>4 DEF EmbedFails, CommitRefused, CommitUnchanged, KnowledgeTypeOK, Importing, NoImport
  <1>5. ASSUME NEW i \in Importers, CommitReads(i) PROVE KnowledgeTypeOK'
    <2>1. Current \in SUBSET Nat
      BY DEF Current, Numbers, KnowledgeTypeOK
    <2> QED
      BY <1>5, <2>1 DEF CommitReads, Writing, KnowledgeTypeOK, Importing, SourceLock
  <1>6. ASSUME NEW i \in Importers, CommitWrites(i) PROVE KnowledgeTypeOK'
    <2>1. versions' \in Seq(Version)
      BY <1>6, CommitWritesFrame
    <2>2. source' \in Source
      BY <1>6 DEF CommitWrites, KnowledgeTypeOK, Importing, Source, Statuses
    <2> QED
      BY <1>6, <2>1, <2>2 DEF CommitWrites, KnowledgeTypeOK, Importing, NoImport, SourceLock
  <1>7. ASSUME NEW i \in Importers, ImportDies(i) PROVE KnowledgeTypeOK'
    BY <1>7 DEF ImportDies, KnowledgeTypeOK, Importing, NoImport, SourceLock
  <1>8. ASSUME NEW m \in Managers, ManageLoads(m) PROVE KnowledgeTypeOK'
    <2>1. source.status \in Statuses /\ source.acl \in Policies
      BY DEF KnowledgeTypeOK, Source
    <2>2. PICK change \in [status : {"revoked", "deleted"}] \cup [acl : Policies] :
             manage' = [manage EXCEPT ![m] = [pc |-> "loaded", change |-> change,
                 seen |-> IF "acl" \in DOMAIN change THEN source.acl ELSE source.status]]
      BY <1>8 DEF ManageLoads
    <2>3. CASE change \in [status : {"revoked", "deleted"}]
      <3>1. "acl" \notin DOMAIN change
        BY <2>3
      <3> QED
        BY <1>8, <2>1, <2>2, <2>3, <3>1 DEF ManageLoads, KnowledgeTypeOK, Managing
    <2>4. CASE change \in [acl : Policies]
      <3>1. "acl" \in DOMAIN change
        BY <2>4
      <3> QED
        BY <1>8, <2>1, <2>2, <2>4, <3>1 DEF ManageLoads, KnowledgeTypeOK, Managing
    <2> QED
      BY <2>3, <2>4
  <1>9. ASSUME NEW m \in Managers, ManageWrites(m) PROVE KnowledgeTypeOK'
    <2>1. With(m) \in Source
      <3>1. manage[m] \in Managing /\ manage[m].pc = "loaded" /\ source \in Source
        BY <1>9 DEF ManageWrites, KnowledgeTypeOK
      <3>2. CASE manage[m].change \in [status : {"revoked", "deleted"}]
        BY <3>1, <3>2 DEF With, Source, Statuses
      <3>3. CASE manage[m].change \in [acl : Policies]
        BY <3>1, <3>3 DEF With, Source
      <3> QED
        BY <3>1, <3>2, <3>3 DEF Managing
    <2> QED
      BY <1>9, <2>1 DEF ManageWrites, KnowledgeTypeOK, Managing, NoManage
  <1>10. ASSUME NEW m \in Managers, RevokeVersion(m) PROVE KnowledgeTypeOK'
    BY <1>10, RevokeFrame DEF RevokeVersion, KnowledgeTypeOK
  <1>11. ASSUME NEW s \in Searchers, Search(s) PROVE KnowledgeTypeOK'
    <2>1. PICK results \in Retrieve(s) : search' = [search EXCEPT ![s] = Retrieval(results)]
      BY <1>11 DEF Search
    <2>2. results \in SUBSET Nat
      BY DEF Retrieve, Ranked, Eligible, Numbers, KnowledgeTypeOK
    <2> QED
      BY <1>11, <2>1, <2>2 DEF Search, Retrieval, investigation_principal, KnowledgeTypeOK, Searching
  <1>12. ASSUME NEW s \in Searchers, VerifyManifest(s) PROVE KnowledgeTypeOK'
    BY <1>12 DEF VerifyManifest, KnowledgeTypeOK, Searching, NoSearch
  <1>13. ASSUME NEW s \in Searchers, Render(s) \/ Replay(s) PROVE KnowledgeTypeOK'
    <2>1. search[s].results \in SUBSET Nat
      BY <1>13 DEF Render, Replay, KnowledgeTypeOK, Searching
    <2>2. PICK shown \in SUBSET Nat : search' = [search EXCEPT ![s].shown = shown]
      BY <1>13, <2>1 DEF Render, Replay, Readable
    <2>3. search[s] \in [pc : {"recorded"}, results : SUBSET Nat, shown : SUBSET Nat]
      BY <1>13 DEF Render, Replay, KnowledgeTypeOK, Searching
    <2>4. [search[s] EXCEPT !.shown = shown]
            \in [pc : {"recorded"}, results : SUBSET Nat, shown : SUBSET Nat]
      BY <2>3
    <2>5. search' \in [Searchers -> Searching]
      BY <2>2, <2>4 DEF KnowledgeTypeOK, Searching
    <2> QED
      BY <1>13, <2>5 DEF Render, Replay, KnowledgeTypeOK
  <1>14. CASE UNCHANGED knowledgeVars
    BY <1>14 DEF knowledgeVars, KnowledgeTypeOK
  <1> QED
    BY <1>1, <1>2, <1>3, <1>4, <1>5, <1>6, <1>7, <1>8, <1>9, <1>10, <1>11, <1>12, <1>13, <1>14
       DEF KnowledgeNext

(***************************************************************************)
(* For any importers, managers and searchers, the tables of the source and *)
(* the states of its callers keep their types.                             *)
(***************************************************************************)
THEOREM KnowledgeTypeCorrect == KnowledgeSpec => []KnowledgeTypeOK
  <1>1. KnowledgeInit => KnowledgeTypeOK
    BY ConstantsAssumption DEF KnowledgeInit, KnowledgeTypeOK, Times, Source, Statuses, Policies, SourceLock,
       Importing, NoImport, Managing, NoManage, Searching, NoSearch
  <1> QED
    BY <1>1, KnowledgeTypeStep, PTL DEF KnowledgeSpec

-----------------------------------------------------------------------------
(* Documents: the writer and the succession of versions.                   *)

(***************************************************************************)
(* One step keeps the writer's view current and the versions in            *)
(* succession: an import that holds the source lock is the only one that   *)
(* can add a version, and only a revocation gets in between.               *)
(***************************************************************************)
LEMMA SuccessionStep ==
    ASSUME KnowledgeTypeOK, KnowledgeTypeOK', Succession, WriterIsCurrent, [KnowledgeNext]_knowledgeVars
    PROVE  Succession' /\ WriterIsCurrent'
  <1> USE ConstantsAssumption
  <1>0. /\ Len(versions) \in Nat /\ now \in Nat
        /\ \A n \in Numbers : /\ versions[n].eff \in Nat
                              /\ versions[n].sup \in Nat \cup {Never}
                              /\ versions[n].life \in {"current", "superseded", "revoked"}
    <2>1. \A n \in Numbers : versions[n] \in Version
      BY DEF KnowledgeTypeOK, Numbers
    <2>2. Len(versions) \in Nat /\ now \in Nat
      BY DEF KnowledgeTypeOK, Times
    <2> QED
      BY <2>1, <2>2 DEF Version, Times
  \* A step that leaves the versions alone and starts no writer.
  <1>1. ASSUME UNCHANGED <<versions, now>>,
               \A i \in Importers : import'[i].pc = "writing" => import'[i] = import[i],
               \A i \in Importers : import'[i].pc = "writing" => lock' = lock,
               (\E i \in Importers : lock = i) => source' = source
        PROVE  Succession' /\ WriterIsCurrent'
    BY <1>1 DEF Succession, WriterIsCurrent, Numbers
  <1>2. CASE Tick
    <2>1. now' = now + 1 /\ UNCHANGED <<source, versions, lock, import>>
      BY <1>2 DEF Tick
    <2>2. Succession'
      BY <1>0, <2>1 DEF Succession, Numbers
    <2>3. \A i \in Importers : import[i].pc = "writing" => import[i].stamp \in Nat
      BY DEF KnowledgeTypeOK, Importing, Times
    <2>4. WriterIsCurrent'
      BY <1>0, <2>1, <2>3 DEF WriterIsCurrent, Numbers
    <2> QED
      BY <2>2, <2>4
  <1>3. ASSUME NEW i \in Importers, Ingest(i) PROVE Succession' /\ WriterIsCurrent'
    BY <1>1, <1>3 DEF Ingest, SourceDocument, KnowledgeTypeOK
  <1>4. ASSUME NEW i \in Importers, EmbedFails(i) \/ CommitRefused(i) \/ CommitUnchanged(i)
        PROVE  Succession' /\ WriterIsCurrent'
    BY <1>1, <1>4 DEF EmbedFails, CommitRefused, CommitUnchanged, NoImport, KnowledgeTypeOK
  <1>5. ASSUME NEW i \in Importers, ImportDies(i) PROVE Succession' /\ WriterIsCurrent'
    <2>1. \A j \in Importers : import'[j].pc = "writing" => j # i /\ import'[j] = import[j]
      BY <1>5 DEF ImportDies, NoImport, KnowledgeTypeOK
    <2>2. \A j \in Importers : import'[j].pc = "writing" => lock' = lock
      BY <1>5, <2>1 DEF ImportDies, WriterIsCurrent
    <2> QED
      BY <1>1, <1>5, <2>1, <2>2 DEF ImportDies
  <1>6. ASSUME NEW i \in Importers, CommitReads(i) PROVE Succession' /\ WriterIsCurrent'
    <2>1. /\ import'[i].pc = "writing" /\ import'[i].acl = import[i].acl
          /\ import'[i].current = Current /\ import'[i].stamp = now
          /\ \A j \in Importers : j # i => import'[j] = import[j]
      BY <1>6 DEF CommitReads, Writing, KnowledgeTypeOK
    <2>2. UNCHANGED <<now, source, versions>> /\ lock = Nobody /\ lock' = i
      BY <1>6 DEF CommitReads
    <2>3. \A j \in Importers : import'[j].pc = "writing" => j = i
      BY <2>1, <2>2 DEF WriterIsCurrent
    <2>4. Current \subseteq {Len(versions)}
      <3> SUFFICES ASSUME NEW n \in Numbers, versions[n].life = "current", n # Len(versions)
                   PROVE  FALSE
        BY DEF Current
      <3>1. Len(versions) \in Numbers /\ n < Len(versions)
        BY <1>0 DEF Numbers
      <3> QED
        BY <3>1 DEF Succession
    <2>5. \A n \in Numbers \ Current :
             \/ versions[n].life = "revoked"
             \/ versions[n].sup # Never /\ versions[n].sup =< now
      BY <1>0 DEF Succession, Current
    <2>6. source.status = "absent" \/ (source.status = "active" /\ source.acl = import[i].acl)
      BY <1>6 DEF CommitReads, Refusal, KnowledgeTypeOK, Source, Statuses
    <2>7. Succession'
      BY <2>2 DEF Succession, Numbers
    <2>8. WriterIsCurrent'
      BY <1>0, <2>1, <2>2, <2>3, <2>4, <2>5, <2>6 DEF WriterIsCurrent, Numbers
    <2> QED
      BY <2>7, <2>8
  <1>7. ASSUME NEW i \in Importers, CommitWrites(i) PROVE Succession' /\ WriterIsCurrent'
    <2> DEFINE stamp == import[i].stamp
               last == Len(versions) + 1
    <2>1. /\ lock = i /\ stamp \in Times /\ stamp \in Nat /\ stamp =< now
          /\ import[i].current \subseteq {Len(versions)}
          /\ \A n \in Numbers \ import[i].current :
                \/ versions[n].life = "revoked"
                \/ versions[n].sup # Never /\ versions[n].sup =< stamp
      BY <1>7 DEF CommitWrites, WriterIsCurrent, KnowledgeTypeOK, Importing, Times
    <2>2. /\ Len(versions') = last
          /\ \A n \in Numbers :
               versions'[n] = IF n \in import[i].current
                              THEN Superseded(versions[n], stamp) ELSE versions[n]
          /\ \E updated \in {0, MaxTime} : versions'[last] = NewVersion(i, updated)
      BY <1>7, CommitWritesFrame
    <2>3. /\ versions'[last].life = "current" /\ versions'[last].sup = Never
          /\ versions'[last].eff = stamp
      BY <1>7, <2>2, NewVersionType DEF CommitWrites, KnowledgeTypeOK
    <2>4. \A n \in Numbers :
             /\ versions'[n].eff = versions[n].eff
             /\ n \in import[i].current =>
                   versions'[n].life = "superseded" /\ versions'[n].sup = stamp
             /\ n \notin import[i].current => versions'[n] = versions[n]
      <3> SUFFICES ASSUME NEW n \in Numbers, n \in import[i].current
                   PROVE  /\ versions'[n].eff = versions[n].eff
                          /\ versions'[n].life = "superseded" /\ versions'[n].sup = stamp
        BY <2>2
      <3>1. versions[n] \in Version
        BY DEF KnowledgeTypeOK, Numbers
      <3> QED
        BY <2>1, <2>2, <3>1, SupersededType
    <2>5. Numbers' = Numbers \cup {last} /\ \A n \in Numbers : n < last
      BY <1>0, <2>2 DEF Numbers
    <2>6. now' = now /\ lock' = Nobody /\ \A j \in Importers : import'[j].pc # "writing"
      BY <1>7, <2>1 DEF CommitWrites, WriterIsCurrent, KnowledgeTypeOK, NoImport
    <2> HIDE DEF stamp, last
    <2>7. ASSUME NEW m \in Numbers', NEW n \in Numbers', n < m
          PROVE  \/ versions'[n].life = "revoked"
                 \/ versions'[n].sup # Never /\ versions'[n].sup =< versions'[m].eff
      <3>1. n \in Numbers
        BY <1>0, <2>5, <2>7 DEF last, Numbers
      <3>2. CASE m = last
        <4>1. CASE n \in import[i].current
          BY <2>1, <2>3, <2>4, <3>1, <3>2, <4>1
        <4>2. CASE n \notin import[i].current
          BY <2>1, <2>3, <2>4, <3>1, <3>2, <4>2
        <4> QED
          BY <4>1, <4>2
      <3>3. CASE m # last
        <4>1. m \in Numbers /\ n \notin import[i].current
          BY <1>0, <2>1, <2>5, <2>7, <3>1, <3>3 DEF Numbers
        <4> QED
          BY <2>4, <2>7, <3>1, <4>1 DEF Succession
      <3> QED
        BY <3>2, <3>3
    <2>8. ASSUME NEW n \in Numbers'
          PROVE  /\ versions'[n].life = "current" => versions'[n].sup = Never
                 /\ versions'[n].life = "superseded" => versions'[n].sup # Never
                 /\ versions'[n].sup # Never => versions'[n].sup =< now'
      <3>1. CASE n = last
        BY <2>3, <3>1
      <3>2. CASE n \in Numbers
        BY <2>1, <2>4, <2>6, <3>2 DEF Succession
      <3> QED
        BY <2>5, <3>1, <3>2
    <2> QED
      BY <2>6, <2>7, <2>8 DEF Succession, WriterIsCurrent
  <1>8. ASSUME NEW m \in Managers, ManageLoads(m) PROVE Succession' /\ WriterIsCurrent'
    BY <1>1, <1>8 DEF ManageLoads
  <1>9. ASSUME NEW m \in Managers, ManageWrites(m) PROVE Succession' /\ WriterIsCurrent'
    BY <1>1, <1>9 DEF ManageWrites
  <1>10. ASSUME NEW m \in Managers, RevokeVersion(m) PROVE Succession' /\ WriterIsCurrent'
    <2>1. /\ Numbers' = Numbers /\ Len(versions') = Len(versions)
          /\ \A n \in Numbers :
               /\ versions'[n].life \in {versions[n].life, "revoked"}
               /\ versions'[n].eff = versions[n].eff
               /\ versions'[n].sup = versions[n].sup
      BY <1>10, RevokeFrame DEF Numbers
    <2>2. UNCHANGED <<now, source, lock, import>>
      BY <1>10 DEF RevokeVersion
    <2>3. Succession'
      BY <2>1, <2>2 DEF Succession
    <2>4. WriterIsCurrent'
      BY <2>1, <2>2 DEF WriterIsCurrent
    <2> QED
      BY <2>3, <2>4
  <1>11. ASSUME NEW s \in Searchers, Search(s) \/ VerifyManifest(s) \/ Render(s) \/ Replay(s)
         PROVE  Succession' /\ WriterIsCurrent'
    BY <1>1, <1>11 DEF Search, VerifyManifest, Render, Replay
  <1>12. CASE Regrant \/ UNCHANGED knowledgeVars
    BY <1>1, <1>12 DEF Regrant, knowledgeVars
  <1> QED
    BY <1>2, <1>3, <1>4, <1>5, <1>6, <1>7, <1>8, <1>9, <1>10, <1>11, <1>12 DEF KnowledgeNext

(***************************************************************************)
(* Versions stay in succession and every writer's view stays current.      *)
(***************************************************************************)
LEMMA SuccessionHolds == KnowledgeSpec => [](Succession /\ WriterIsCurrent)
  <1>1. KnowledgeInit => Succession /\ WriterIsCurrent
    BY DEF KnowledgeInit, Succession, WriterIsCurrent, Numbers, NoImport
  <1>2. KnowledgeTypeOK /\ KnowledgeTypeOK' /\ Succession /\ WriterIsCurrent /\ [KnowledgeNext]_knowledgeVars
            => (Succession /\ WriterIsCurrent)'
    BY SuccessionStep
  <1> QED
    BY <1>1, <1>2, KnowledgeTypeCorrect, PTL DEF KnowledgeSpec

(***************************************************************************)
(* A set whose elements are all the same has at most one.                  *)
(***************************************************************************)
LEMMA AtMostOneElement ==
    ASSUME NEW S, \A x, y \in S : x = y
    PROVE  Cardinality(S) =< 1
  <1>1. CASE S = {}
    BY <1>1, FS_EmptySet
  <1>2. CASE S # {}
    <2> PICK x \in S : TRUE
      BY <1>2
    <2>1. S = {x}
      OBVIOUS
    <2>2. Cardinality({x}) = 1
      BY FS_Singleton, Zenon
    <2>3. Cardinality(S) = 1
      BY <2>1, <2>2, Zenon
    <2> QED
      BY <2>3
  <1> QED
    BY <1>1, <1>2

(***************************************************************************)
(* Whatever was imported, replaced or withdrawn, and in whatever order, at *)
(* no moment of the past are two versions of a source in force.            *)
(***************************************************************************)
THEOREM OneVersionPerMomentHolds == KnowledgeSpec => []OneVersionPerMoment
  <1>1. KnowledgeTypeOK /\ Succession => OneVersionPerMoment
    <2> SUFFICES ASSUME KnowledgeTypeOK, Succession, NEW t \in 0..now,
                        NEW m \in Numbers, NEW n \in Numbers, n < m,
                        InForce(versions[m], t), InForce(versions[n], t)
                 PROVE  FALSE
      <3>1. ASSUME NEW t \in 0..now,
                   \A m, n \in Numbers :
                     n < m => ~(InForce(versions[m], t) /\ InForce(versions[n], t))
            PROVE  Cardinality({n \in Numbers : InForce(versions[n], t)}) =< 1
        <4> DEFINE S == {n \in Numbers : InForce(versions[n], t)}
        <4>1. \A x, y \in S : x = y
          BY <3>1 DEF Numbers
        <4> HIDE DEF S
        <4>2. Cardinality(S) =< 1
          BY <4>1, AtMostOneElement
        <4> QED
          BY <4>2 DEF S
      <3> QED
        BY <3>1 DEF OneVersionPerMoment
    <2>1. versions[n].sup # Never /\ versions[n].sup =< versions[m].eff
      BY DEF Succession, InForce
    <2>2. versions[m].eff \in Nat /\ versions[n].sup \in Nat /\ t \in Nat
      <3>1. versions[m] \in Version /\ versions[n] \in Version
        BY DEF KnowledgeTypeOK, Numbers
      <3> QED
        BY <2>1, <3>1 DEF KnowledgeTypeOK, Version, Times
    <2>3. versions[m].eff =< t /\ versions[n].sup > t
      BY <2>1 DEF InForce
    <2> QED
      BY <2>1, <2>2, <2>3
  <1> QED
    BY <1>1, KnowledgeTypeCorrect, SuccessionHolds, PTL

-----------------------------------------------------------------------------
(* Documents: access.                                                      *)

(***************************************************************************)
(* A version is added only to an active source, under the access policy    *)
(* that stands at that moment, however long ago its importer looked.       *)
(***************************************************************************)
THEOREM AddedUnderStandingPolicyHolds == KnowledgeSpec => AddedUnderStandingPolicy
  <1> DEFINE Added == Len(versions') > Len(versions) =>
                        /\ source'.status = "active"
                        /\ \E i \in Importers :
                             import[i].pc = "writing" /\ import[i].acl = source'.acl
  <1>1. ASSUME KnowledgeTypeOK, WriterIsCurrent, [KnowledgeNext]_knowledgeVars PROVE [Added]_knowledgeVars
    <2>0. Len(versions) \in Nat
      BY <1>1 DEF KnowledgeTypeOK
    <2>1. ASSUME NEW i \in Importers, CommitWrites(i) PROVE Added
      BY <1>1, <2>1 DEF CommitWrites, WriterIsCurrent
    <2>2. ASSUME versions' = versions PROVE Added
      BY <2>0, <2>2
    <2>3. ASSUME NEW m \in Managers, RevokeVersion(m) PROVE Added
      BY <1>1, <2>0, <2>3, RevokeFrame
    <2> HIDE DEF Added
    <2>4. ASSUME NEW i \in Importers,
                 \/ Ingest(i) \/ EmbedFails(i) \/ CommitRefused(i) \/ CommitUnchanged(i)
                 \/ CommitReads(i) \/ ImportDies(i)
          PROVE  Added
      BY <2>2, <2>4 DEF Ingest, EmbedFails, CommitRefused, CommitUnchanged, CommitReads,
         ImportDies
    <2>5. ASSUME NEW m \in Managers, ManageLoads(m) \/ ManageWrites(m) PROVE Added
      BY <2>2, <2>5 DEF ManageLoads, ManageWrites
    <2>6. ASSUME NEW s \in Searchers, Search(s) \/ VerifyManifest(s) \/ Render(s) \/ Replay(s)
          PROVE  Added
      BY <2>2, <2>6 DEF Search, VerifyManifest, Render, Replay
    <2>7. ASSUME Tick \/ Regrant PROVE Added
      BY <2>2, <2>7 DEF Tick, Regrant
    <2> QED
      BY <1>1, <2>1, <2>3, <2>4, <2>5, <2>6, <2>7 DEF KnowledgeNext
  <1> HIDE DEF Added
  <1>2. KnowledgeSpec => [][Added]_knowledgeVars
    BY <1>1, KnowledgeTypeCorrect, SuccessionHolds, PTL DEF KnowledgeSpec
  <1> QED
    BY <1>2 DEF Added, AddedUnderStandingPolicy

(***************************************************************************)
(* A withdrawn source stays withdrawn, and no prompt built after the       *)
(* withdrawal shows any of it.                                             *)
(***************************************************************************)
THEOREM WithdrawnIsNotShownHolds == KnowledgeSpec => WithdrawnIsNotShown
  <1> DEFINE Hidden == source.status \in {"revoked", "deleted"} =>
                         /\ source'.status \in {"revoked", "deleted"}
                         /\ \A s \in Searchers :
                              search'[s].pc = "recorded" /\ search'[s] # search[s]
                                => search'[s].shown = {}
  <1>1. ASSUME KnowledgeTypeOK, [KnowledgeNext]_knowledgeVars PROVE [Hidden]_knowledgeVars
    <2>1. ASSUME UNCHANGED <<source, search>> PROVE Hidden
      BY <2>1
    <2>2. ASSUME NEW i \in Importers, CommitWrites(i) PROVE Hidden
      BY <2>2 DEF CommitWrites
    <2>3. ASSUME NEW m \in Managers, ManageWrites(m) PROVE Hidden
      <3>1. search' = search /\ source' = With(m) /\ source \in Source
        BY <1>1, <2>3 DEF ManageWrites, KnowledgeTypeOK
      <3>2. manage[m] \in Managing /\ manage[m].pc = "loaded"
        BY <1>1, <2>3 DEF ManageWrites, KnowledgeTypeOK
      <3>3. CASE manage[m].change \in [status : {"revoked", "deleted"}]
        BY <3>1, <3>2, <3>3 DEF With, Source
      <3>4. CASE manage[m].change \in [acl : Policies]
        BY <3>1, <3>2, <3>4 DEF With, Source
      <3> QED
        BY <3>2, <3>3, <3>4 DEF Managing
    <2>4. ASSUME NEW s \in Searchers, Search(s) PROVE Hidden
      BY <1>1, <2>4 DEF Search, Retrieval, KnowledgeTypeOK
    <2>5. ASSUME NEW s \in Searchers, VerifyManifest(s) PROVE Hidden
      BY <1>1, <2>5 DEF VerifyManifest, NoSearch, KnowledgeTypeOK
    <2>6. ASSUME NEW s \in Searchers, Render(s) \/ Replay(s),
                 source.status \in {"revoked", "deleted"}
          PROVE  Hidden
      <3>1. \A n, cleared : ~Access(n, cleared)
        BY <2>6 DEF Access
      <3>2. search' = [search EXCEPT ![s].shown = {}] /\ source' = source
        BY <2>6, <3>1 DEF Render, Replay, Readable
      <3>3. search[s] \in Searching /\ search[s].pc = "recorded"
        BY <1>1, <2>6 DEF Render, Replay, KnowledgeTypeOK
      <3>4. search'[s].shown = {} /\ \A r \in Searchers : r # s => search'[r] = search[r]
        BY <1>1, <3>2, <3>3 DEF KnowledgeTypeOK, Searching
      <3> QED
        BY <3>2, <3>4
    <2>7. ASSUME source.status \notin {"revoked", "deleted"} PROVE Hidden
      BY <2>7
    <2> HIDE DEF Hidden
    <2>8. ASSUME NEW i \in Importers,
                 \/ Ingest(i) \/ EmbedFails(i) \/ CommitRefused(i) \/ CommitUnchanged(i)
                 \/ CommitReads(i) \/ ImportDies(i)
          PROVE  Hidden
      BY <2>1, <2>8 DEF Ingest, EmbedFails, CommitRefused, CommitUnchanged, CommitReads,
         ImportDies
    <2>9. ASSUME NEW m \in Managers, ManageLoads(m) \/ RevokeVersion(m) PROVE Hidden
      BY <2>1, <2>9 DEF ManageLoads, RevokeVersion
    <2>10. ASSUME Tick \/ Regrant PROVE Hidden
      BY <2>1, <2>10 DEF Tick, Regrant
    <2> QED
      BY <1>1, <2>2, <2>3, <2>4, <2>5, <2>6, <2>7, <2>8, <2>9, <2>10 DEF KnowledgeNext
  <1> HIDE DEF Hidden
  <1>2. KnowledgeSpec => [][Hidden]_knowledgeVars
    BY <1>1, KnowledgeTypeCorrect, PTL DEF KnowledgeSpec
  <1> QED
    BY <1>2 DEF Hidden, WithdrawnIsNotShown

-----------------------------------------------------------------------------
(* Drafts and memories.                                                    *)

Inv == WriterHasTheRow /\ DraftsStand /\ OneDraftPerRecordSet /\ DecisionIsSound /\ EntriesStand

\* The log of the next state begins with the present one.
Grows == Len(log') >= Len(log) /\ \A n \in 1..Len(log) : log'[n] = log[n]

USE RecordAssumption, MemoryAssumption

---------------------------------------------------------------------------
\* What each kind of task carries.
LEMMA TaskParts ==
    ASSUME NEW t \in Task
    PROVE  /\ t.kind \in {"idle", "author", "propose", "decide"}
           /\ t.kind = "author" /\ t.pc # "claimed" =>
                 t.pc \in {"drafted", "writing"} /\ t.fp \in RecordSet /\ t.kept \in SUBSET Claims
           /\ t.kind = "propose" =>
                 /\ t.pc \in {"evaluated", "locked"} /\ t.category \in MemoryCategory
                 /\ t.incident \in BOOLEAN /\ t.by \in Proposers
           /\ t.kind = "decide" =>
                 t.promotion \in Nat /\ t.approver \in Humans /\ t.events \in Nat
BY DEF Task, Idle

\* If the n-th state change resolved the incident, it is the last one that did.
LEMMA LastResolution ==
    ASSUME NEW l, NEW n \in Nat, n >= 1, l[n].to = "resolved"
    PROVE  LET moves == {k \in 1..n : l[k].to = "resolved"}
           IN  l[CHOOSE k \in moves : \A j \in moves : j =< k].actor = l[n].actor
<1> DEFINE moves == {k \in 1..n : l[k].to = "resolved"}
           last == CHOOSE k \in moves : \A j \in moves : j =< k
<1>1. n \in moves /\ \A j \in moves : j =< n
  OBVIOUS
<1>2. last \in moves /\ \A j \in moves : j =< last
  BY <1>1
<1>3. last = n
  BY <1>1, <1>2
<1>4. QED
  BY <1>3

\* A state change is appended, or the log stays as it is.
LEMMA GrowsByAppending ==
    ASSUME TypeOK, NEW to \in IncidentStatus, NEW actor \in {"system", "human"},
           log' = Append(log, [to |-> to, actor |-> actor])
    PROVE  /\ log' \in Seq(StateChange) /\ log' # << >> /\ Grows
BY DEF TypeOK, StateChange, Grows

\* What the drafts say stays true while the log grows and none is added.
LEMMA DraftsFrame ==
    ASSUME TypeOK, DraftsStand, OneDraftPerRecordSet, Grows, log' \in Seq(StateChange),
           drafts' = drafts
    PROVE  DraftsStand' /\ OneDraftPerRecordSet'
<1>1. OneDraftPerRecordSet'
  BY DEF OneDraftPerRecordSet
<1>2. ASSUME NEW d \in drafts
      PROVE  /\ d.fp.events \in 1..Len(log') /\ log'[d.fp.events].to = "resolved"
             /\ resolution_basis(d.fp)' = resolution_basis(d.fp) /\ assemble(d.fp)' = assemble(d.fp)
  <2> DEFINE n == d.fp.events
  <2>1. n \in 1..Len(log) /\ log[n].to = "resolved" /\ Len(log) \in Nat /\ Len(log') \in Nat
    BY DEF DraftsStand, StatusAt, TypeOK
  <2>2. n \in Nat /\ n >= 1 /\ n \in 1..Len(log') /\ log'[n] = log[n]
    BY <2>1 DEF Grows
  <2>3. ResolverAt(n) = log[n].actor
    BY <2>1, <2>2, LastResolution DEF ResolverAt
  <2>4. ResolverAt(n)' = log'[n].actor
    BY <2>1, <2>2, LastResolution DEF ResolverAt
  <2>5. resolution_basis(d.fp)' = resolution_basis(d.fp)
    BY <2>2, <2>3, <2>4 DEF resolution_basis
  <2>6. assemble(d.fp)' = assemble(d.fp)
    BY <2>5 DEF assemble, ClosingUncertainties, Uncertainty, _root_cause, Records
  <2>7. QED
    BY <2>1, <2>2, <2>5, <2>6
<1>3. DraftsStand'
  BY <1>2 DEF DraftsStand, StatusAt, KeptIsSound, Records, Observations, _remediation_path,
     _root_cause
<1>4. QED
  BY <1>1, <1>3

\* What was decided and earned stays so while the log grows and a verdict that is trusted
\* stays trusted.
LEMMA MemoryFrame ==
    ASSUME TypeOK, DecisionIsSound, EntriesStand, Grows, log' \in Seq(StateChange),
           trusted => trusted', UNCHANGED <<promotions, entries>>,
           \A s \in Sessions : task'[s].kind = "decide" => task'[s] = task[s]
    PROVE  DecisionIsSound' /\ EntriesStand'
<1>1. Len(log) \in Nat /\ Len(log') \in Nat /\ 1..Len(log) \subseteq 1..Len(log')
  BY DEF TypeOK, Grows
<1>2. EntriesStand'
  BY <1>1 DEF EntriesStand, Earned, StatusAt, Grows
<1>3. DecisionIsSound'
  BY <1>1 DEF DecisionIsSound, StatusAt, Grows, origin_provenance
<1>4. QED
  BY <1>2, <1>3

\* Whoever writes a draft keeps the row and what it found, while another session moves on,
\* or gives the row back itself.
LEMMA WriterFrame ==
    ASSUME TypeOK, WriterHasTheRow, NEW s \in Sessions, NEW t \in Task,
           task' = [task EXCEPT ![s] = t], UNCHANGED <<log, drafts>>,
           rowLock' = rowLock \/ rowLock = s,
           t.kind = "author" => t.pc = "claimed"
    PROVE  WriterHasTheRow'
<1> SUFFICES ASSUME NEW q \in Sessions
             PROVE  /\ (Author(q, "drafted") \/ Author(q, "writing") =>
                           KeptIsSound(task[q].kept, task[q].fp))'
                    /\ (Author(q, "writing") =>
                           /\ rowLock = q /\ Status = "resolved"
                           /\ task[q].fp.events = Len(log)
                           /\ Existing(task[q].fp) = {})'
  BY DEF WriterHasTheRow
<1>1. CASE q = s
  <2>1. task'[s] = t
    BY DEF TypeOK
  <2>2. QED
    BY <1>1, <2>1 DEF Author
<1>2. CASE q # s
  <2>1. task'[q] = task[q]
    BY <1>2 DEF TypeOK
  <2>2. QED
    BY <1>2, <2>1 DEF WriterHasTheRow, Author, KeptIsSound, Status, StatusAt, Existing, Records,
       Observations, _remediation_path, _root_cause
<1>3. QED
  BY <1>1, <1>2

---------------------------------------------------------------------------
\* An incident that has just been reported is without drafts, proposals and entries.
LEMMA InitHolds == Init => TypeOK /\ Inv
<1> SUFFICES ASSUME Init PROVE TypeOK /\ Inv
  OBVIOUS
<1> USE DEF Init, RecordInit, PostmortemInit, MemoryInit
<1>1. [to |-> "verifying", actor |-> "system"] \in StateChange
  BY DEF StateChange, IncidentStatus
<1>2. \A s \in Sessions : task[s] = Idle /\ task[s].kind = "idle"
  BY DEF Idle
<1>3. TypeOK
  BY <1>1, FS_EmptySet DEF TypeOK, Task
<1>4. OneDraftPerRecordSet
  BY FS_EmptySet DEF OneDraftPerRecordSet
<1>5. WriterHasTheRow /\ DraftsStand /\ DecisionIsSound /\ EntriesStand
  BY <1>2 DEF WriterHasTheRow, Author, DraftsStand, DecisionIsSound, EntriesStand
<1>6. QED
  BY <1>3, <1>4, <1>5 DEF Inv

\* Responders, the control plane and a stalled investigation pass add to the records.
LEMMA RecordStep ==
    ASSUME TypeOK, Inv, RecordNext, UNCHANGED <<postmortem, memory>>
    PROVE  TypeOK' /\ Inv'
<1>1. UNCHANGED <<claim, drafts, promotions, entries>>
  BY DEF postmortem, memory
<1>2. /\ UNCHANGED <<task, rowLock>> /\ evidence' \in Nat
      /\ verdict' \in {"none", "verified", "trusted"} /\ (trusted => trusted')
  <2>1. UNCHANGED <<task, rowLock>> /\ evidence' \in Nat
    <3>1. CASE HumanMoves \/ SystemMoves \/ RecordVerdict
      BY <3>1 DEF HumanMoves, SystemMoves, RecordVerdict, Appends, TypeOK
    <3>2. CASE GatherEvidence
      BY <3>2 DEF GatherEvidence, TypeOK
    <3>3. QED
      BY <3>1, <3>2 DEF RecordNext
  <2>2. verdict' = verdict \/ (verdict = "none" /\ verdict' \in {"verified", "trusted"})
    BY DEF RecordNext, HumanMoves, SystemMoves, RecordVerdict, GatherEvidence, verified
  <2>3. QED
    BY <2>1, <2>2 DEF TypeOK, trusted
<1>3. \/ log' = log
      \/ /\ rowLock = NoOne
         /\ \E to \in IncidentStatus, actor \in {"system", "human"} :
               log' = Append(log, [to |-> to, actor |-> actor])
  BY DEF RecordNext, HumanMoves, SystemMoves, RecordVerdict, GatherEvidence, Appends,
     IncidentStatus
<1>4. log' \in Seq(StateChange) /\ log' # << >> /\ Grows
  <2>1. CASE log' = log
    BY <2>1 DEF TypeOK, Grows
  <2>2. QED
    BY <1>3, <2>1, GrowsByAppending
<1>5. TypeOK'
  BY <1>1, <1>2, <1>4 DEF TypeOK
<1>6. WriterHasTheRow'
  <2> USE DEF WriterHasTheRow, Author, KeptIsSound, Status, StatusAt, Existing, Records,
          Observations, _remediation_path, _root_cause
  <2>1. CASE log' = log
    BY <1>1, <1>2, <2>1 DEF Inv
  <2>2. CASE rowLock = NoOne
    BY <1>1, <1>2, <2>2 DEF Inv
  <2>3. QED
    BY <1>3, <2>1, <2>2
<1>7. DraftsStand' /\ OneDraftPerRecordSet'
  BY <1>1, <1>4, DraftsFrame DEF Inv
<1>8. DecisionIsSound' /\ EntriesStand'
  BY <1>1, <1>2, <1>4, MemoryFrame DEF Inv
<1>9. QED
  BY <1>5, <1>6, <1>7, <1>8 DEF Inv

\* A session begins, leaves or fails without a word: no row is written.
LEMMA QuietStep ==
    ASSUME TypeOK, Inv, NEW s \in Sessions, NEW t \in Task,
           task' = [task EXCEPT ![s] = t], rowLock' = rowLock \/ rowLock = s,
           rowLock' \in Sessions \cup {NoOne}, claim' \in Sessions \cup {NoOne},
           t.kind = "author" => t.pc = "claimed", t.kind # "decide",
           UNCHANGED <<log, evidence, verdict, drafts, promotions, entries>>
    PROVE  TypeOK' /\ Inv'
<1>1. TypeOK'
  BY DEF TypeOK
<1>2. log' \in Seq(StateChange) /\ Grows
  BY DEF TypeOK, Grows
<1>3. \A q \in Sessions : task'[q].kind = "decide" => task'[q] = task[q]
  BY DEF TypeOK
<1>4. WriterHasTheRow'
  BY WriterFrame DEF Inv
<1>5. DraftsStand' /\ OneDraftPerRecordSet'
  BY <1>2, DraftsFrame DEF Inv
<1>6. DecisionIsSound' /\ EntriesStand'
  BY <1>2, <1>3, MemoryFrame DEF Inv, trusted
<1>7. QED
  BY <1>1, <1>4, <1>5, <1>6 DEF Inv

\* A worker takes the incident up, finds nothing to draft or to persist, or dies.
LEMMA AuthorLeavesStep ==
    ASSUME TypeOK, Inv, NEW s \in Sessions, UNCHANGED memory,
           Discover(s) \/ DraftNothing(s) \/ PersistNothing(s) \/ AuthorDies(s)
    PROVE  TypeOK' /\ Inv'
<1>1. UNCHANGED <<log, evidence, verdict, drafts, promotions, entries>>
  BY DEF memory, Discover, DraftNothing, PersistNothing, AuthorDies
<1>2. Idle \in Task /\ Idle.kind = "idle"
  BY DEF Task, Idle
<1>3. CASE Discover(s)
  <2>1. [kind |-> "author", pc |-> "claimed"] \in Task
    BY DEF Task
  <2>2. QED
    BY <1>1, <1>3, <2>1, QuietStep DEF Discover, TypeOK
<1>4. CASE Leaves(s)
  BY <1>1, <1>2, <1>4, QuietStep DEF Leaves, TypeOK
<1>5. QED
  BY <1>3, <1>4 DEF DraftNothing, PersistNothing, AuthorDies

\* The sections are drafted outside any transaction: nothing is promised of them yet but
\* that what the model contributed belongs to the records it was shown.
LEMMA DraftSectionsStep ==
    ASSUME TypeOK, Inv, NEW s \in Sessions, UNCHANGED memory, DraftSections(s)
    PROVE  TypeOK' /\ Inv'
<1>1. UNCHANGED <<log, evidence, verdict, rowLock, claim, drafts, promotions, entries>>
  BY DEF memory, DraftSections
<1> DEFINE t(kept) == [kind |-> "author", pc |-> "drafted", fp |-> Fingerprint, kept |-> kept]
<1>2. PICK kept \in Generate(Fingerprint) : task' = [task EXCEPT ![s] = t(kept)]
  BY DEF DraftSections
<1>3. kept \in SUBSET Claims /\ KeptIsSound(kept, Fingerprint)
  BY DEF Generate, validate_model_output, check_claim, KeptIsSound
<1>4. t(kept) \in Task
  BY <1>3 DEF Task, Fingerprint, RecordSet, TypeOK, verified
<1>5. task'[s] = t(kept) /\ \A q \in Sessions \ {s} : task'[q] = task[q]
  BY <1>2 DEF TypeOK
<1>6. TypeOK'
  BY <1>1, <1>2, <1>4 DEF TypeOK
<1>7. log' \in Seq(StateChange) /\ Grows
  BY <1>1 DEF TypeOK, Grows
<1>8. WriterHasTheRow'
  <2> USE DEF WriterHasTheRow, Author, KeptIsSound, Status, StatusAt, Existing, Records,
          Observations, _remediation_path, _root_cause
  <2>1. ASSUME NEW q \in Sessions \ {s}
        PROVE  /\ (Author(q, "drafted") \/ Author(q, "writing") =>
                      KeptIsSound(task[q].kept, task[q].fp))'
               /\ (Author(q, "writing") =>
                      /\ rowLock = q /\ Status = "resolved"
                      /\ task[q].fp.events = Len(log) /\ Existing(task[q].fp) = {})'
    BY <1>1, <1>5 DEF Inv
  <2>2. /\ (Author(s, "drafted") => KeptIsSound(task[s].kept, task[s].fp))'
        /\ ~Author(s, "writing")'
    BY <1>3, <1>5
  <2>3. QED
    BY <2>1, <2>2
<1>9. DraftsStand' /\ OneDraftPerRecordSet'
  BY <1>1, <1>7, DraftsFrame DEF Inv
<1>10. DecisionIsSound' /\ EntriesStand'
  BY <1>1, <1>5, <1>7, MemoryFrame DEF Inv, trusted
<1>11. QED
  BY <1>6, <1>8, <1>9, <1>10 DEF Inv

\* Under the row's lock the worker looks at the records again.
LEMMA PersistLocksStep ==
    ASSUME TypeOK, Inv, NEW s \in Sessions, UNCHANGED memory, PersistLocks(s)
    PROVE  TypeOK' /\ Inv'
<1>1. /\ UNCHANGED <<log, evidence, verdict, claim, drafts, promotions, entries>>
      /\ rowLock = NoOne /\ rowLock' = s
      /\ task' = [task EXCEPT ![s].pc = "writing"]
      /\ task[s].kind = "author" /\ task[s].pc = "drafted" /\ Writable(s)
  BY DEF memory, PersistLocks, Author
<1> DEFINE t == [task[s] EXCEPT !.pc = "writing"]
<1>2. task[s] \in [kind : {"author"}, pc : {"drafted", "writing"}, fp : RecordSet, kept : SUBSET Claims]
  BY <1>1 DEF TypeOK, Task, Idle
<1>3. t \in Task /\ t.kind = "author" /\ t.pc = "writing" /\ t.fp = task[s].fp /\ t.kept = task[s].kept
  BY <1>2 DEF Task
<1>4. task'[s] = t /\ \A q \in Sessions \ {s} : task'[q] = task[q]
  BY <1>1 DEF TypeOK
<1>5. TypeOK'
  BY <1>1, <1>3 DEF TypeOK
<1>6. log' \in Seq(StateChange) /\ Grows
  BY <1>1 DEF TypeOK, Grows
<1>7. WriterHasTheRow'
  <2>1. ASSUME NEW q \in Sessions \ {s}
        PROVE  /\ (Author(q, "drafted") => KeptIsSound(task[q].kept, task[q].fp))'
               /\ ~Author(q, "writing")'
    BY <1>1, <1>4 DEF Inv, WriterHasTheRow, Author, KeptIsSound, Records, Observations,
       _remediation_path, _root_cause
  <2>2. KeptIsSound(task[s].kept, task[s].fp)'
    BY <1>1, <1>3, <1>4 DEF Inv, WriterHasTheRow, Author, KeptIsSound, Records, Observations,
       _remediation_path, _root_cause
  <2>3. Status' = "resolved" /\ task'[s].fp.events = Len(log')
    BY <1>1, <1>3, <1>4 DEF Writable, Fingerprint, Status, StatusAt
  <2>4. Existing(task[s].fp)' = {}
    BY <1>1, <1>3, <1>4 DEF Writable, Existing
  <2>5. QED
    BY <1>1, <2>1, <2>2, <2>3, <2>4 DEF WriterHasTheRow, Author
<1>8. DraftsStand' /\ OneDraftPerRecordSet'
  BY <1>1, <1>6, DraftsFrame DEF Inv
<1>9. DecisionIsSound' /\ EntriesStand'
  BY <1>1, <1>3, <1>4, <1>6, MemoryFrame DEF Inv, trusted
<1>10. QED
  BY <1>5, <1>7, <1>8, <1>9 DEF Inv

\* The draft is written: the first of its record set, with the next number.
LEMMA PersistWritesStep ==
    ASSUME TypeOK, Inv, NEW s \in Sessions, UNCHANGED memory, PersistWrites(s)
    PROVE  TypeOK' /\ Inv'
<1> DEFINE fp == task[s].fp
           new == Postmortem(fp, task[s].kept)
<1>1. /\ UNCHANGED <<log, evidence, verdict, promotions, entries>>
      /\ drafts' = drafts \cup {new} /\ Author(s, "writing")
      /\ task' = [task EXCEPT ![s] = Idle]
      /\ claim' \in Sessions \cup {NoOne}
  BY DEF memory, PersistWrites, Leaves, TypeOK
<1>2. /\ rowLock = s /\ rowLock' = NoOne /\ log[Len(log)].to = "resolved"
      /\ fp.events = Len(log) /\ Existing(fp) = {} /\ KeptIsSound(task[s].kept, fp)
  BY <1>1 DEF Inv, WriterHasTheRow, Status, StatusAt, PersistWrites, Leaves
<1>3. fp \in RecordSet /\ Len(log) \in Nat /\ Len(log) >= 1
  BY <1>1, TaskParts DEF TypeOK, Author
<1>4. Idle \in Task /\ Idle.kind = "idle"
  BY DEF Task, Idle
<1>5. IsFiniteSet(drafts) /\ Cardinality(drafts) \in Nat
  BY FS_CardinalityType DEF TypeOK
<1>6. /\ new.fp = fp /\ new.version = Cardinality(drafts) + 1 /\ new.basis = resolution_basis(fp)
      /\ new.uncertain = assemble(fp) /\ new.kept = task[s].kept
  BY DEF Postmortem
<1>7. new \notin drafts
  BY <1>2, <1>6 DEF Existing
<1>8. IsFiniteSet(drafts') /\ Cardinality(drafts') = Cardinality(drafts) + 1
  BY <1>1, <1>5, <1>7, FS_AddElement
<1>9. TypeOK'
  BY <1>1, <1>2, <1>4, <1>8 DEF TypeOK
<1>10. task'[s] = Idle /\ \A q \in Sessions \ {s} : task'[q] = task[q]
  BY <1>1 DEF TypeOK
<1>11. WriterHasTheRow'
  <2>1. ASSUME NEW q \in Sessions \ {s}
        PROVE  /\ (Author(q, "drafted") => KeptIsSound(task[q].kept, task[q].fp))'
               /\ ~Author(q, "writing")'
    BY <1>2, <1>10 DEF Inv, WriterHasTheRow, Author, KeptIsSound, Records, Observations,
       _remediation_path, _root_cause
  <2>2. QED
    BY <1>4, <1>10, <2>1 DEF WriterHasTheRow, Author
<1>12. DraftsStand'
  <2>1. \A d \in drafts \cup {new} :
          /\ d.fp \in RecordSet /\ d.fp.events \in 1..Len(log) /\ d.version \in Nat
          /\ StatusAt(d.fp.events) = "resolved"
          /\ d.basis = resolution_basis(d.fp) /\ d.uncertain = assemble(d.fp)
          /\ KeptIsSound(d.kept, d.fp)
    BY <1>2, <1>3, <1>5, <1>6 DEF Inv, DraftsStand, StatusAt
  <2>2. ASSUME NEW d \in drafts \cup {new}
        PROVE  /\ resolution_basis(d.fp)' = resolution_basis(d.fp)
               /\ assemble(d.fp)' = assemble(d.fp)
    <3>1. resolution_basis(d.fp)' = resolution_basis(d.fp)
      BY <1>1 DEF resolution_basis, ResolverAt
    <3>2. assemble(d.fp)' = assemble(d.fp)
      BY <3>1 DEF assemble, ClosingUncertainties, Uncertainty, _root_cause, Records
    <3>3. QED
      BY <3>1, <3>2
  <2>3. QED
    BY <1>1, <2>1, <2>2 DEF DraftsStand, StatusAt, KeptIsSound, Records, Observations,
       _remediation_path, _root_cause
<1>13. OneDraftPerRecordSet'
  <2>1. \A d, e \in drafts' : d.fp = e.fp => d = e
    BY <1>1, <1>2, <1>6 DEF Inv, OneDraftPerRecordSet, Existing
  <2>2. {d.version : d \in drafts'} = {d.version : d \in drafts} \cup {Cardinality(drafts) + 1}
    BY <1>1, <1>6
  <2>3. {d.version : d \in drafts} = 1..Cardinality(drafts)
    BY DEF Inv, OneDraftPerRecordSet
  <2>4. 1..Cardinality(drafts) \cup {Cardinality(drafts) + 1} = 1..(Cardinality(drafts) + 1)
    BY <1>5
  <2>5. QED
    BY <1>8, <2>1, <2>2, <2>3, <2>4 DEF OneDraftPerRecordSet
<1>14. log' \in Seq(StateChange) /\ Grows
  BY <1>1 DEF TypeOK, Grows
<1>15. DecisionIsSound' /\ EntriesStand'
  BY <1>1, <1>4, <1>10, <1>14, MemoryFrame DEF Inv, trusted
<1>16. QED
  BY <1>9, <1>11, <1>12, <1>13, <1>15 DEF Inv

\* The connection with the claim is lost: nothing rests on the claim.
LEMMA ClaimLostStep ==
    ASSUME TypeOK, Inv, UNCHANGED memory, ClaimLost
    PROVE  TypeOK' /\ Inv'
<1>1. /\ UNCHANGED <<log, evidence, verdict, rowLock, task, drafts, promotions, entries>>
      /\ claim' = NoOne
  BY DEF memory, ClaimLost
<1>2. TypeOK'
  BY <1>1 DEF TypeOK
<1>3. log' \in Seq(StateChange) /\ Grows
  BY <1>1 DEF TypeOK, Grows
<1>4. WriterHasTheRow'
  BY <1>1 DEF Inv, WriterHasTheRow, Author, KeptIsSound, Status, StatusAt, Existing, Records,
     Observations, _remediation_path, _root_cause
<1>5. QED
  BY <1>1, <1>2, <1>3, <1>4, DraftsFrame, MemoryFrame DEF Inv, trusted

---------------------------------------------------------------------------
\* A request to remember is judged, waits for its key, is answered by an open proposal, or
\* is lost.
LEMMA ProposeStep ==
    ASSUME TypeOK, Inv, NEW s \in Sessions, UNCHANGED postmortem,
           Propose(s) \/ ProposeLocks(s) \/ MemoryDies(s)
    PROVE  TypeOK' /\ Inv'
<1>1. UNCHANGED <<log, evidence, verdict, rowLock, claim, drafts, promotions, entries>>
  BY DEF postmortem, record, memory, Propose, ProposeLocks, MemoryDies
<1>2. Idle \in Task /\ Idle.kind = "idle"
  BY DEF Task, Idle
<1>3. \E t \in Task : /\ t.kind \in {"idle", "propose"}
                      /\ task' = [task EXCEPT ![s] = t]
  <2>1. CASE Propose(s)
    <3>1. PICK category \in MemoryCategory, incident \in BOOLEAN, by \in Proposers :
             task' = [task EXCEPT ![s] = [kind |-> "propose", pc |-> "evaluated", by |-> by,
                                          category |-> category, incident |-> incident]]
      BY <2>1 DEF Propose
    <3>2. [kind |-> "propose", pc |-> "evaluated", by |-> by, category |-> category,
           incident |-> incident] \in Task
      BY DEF Task
    <3>3. QED
      BY <3>1, <3>2
  <2>2. CASE ProposeLocks(s)
    <3> DEFINE t == [task[s] EXCEPT !.pc = "locked"]
    <3>1. /\ task[s].kind = "propose"
          /\ task' = [task EXCEPT ![s] = IF Open(task[s].category, task[s].incident) # {}
                                         THEN Idle ELSE t]
      BY <2>2 DEF ProposeLocks, Proposing, TypeOK
    <3>2. task[s] \in [kind : {"propose"}, pc : {"evaluated", "locked"},
                       category : MemoryCategory, incident : BOOLEAN, by : Proposers]
      BY <3>1 DEF TypeOK, Task, Idle
    <3>3. t \in Task /\ t.kind = "propose"
      BY <3>2 DEF Task
    <3>4. QED
      BY <1>2, <3>1, <3>3
  <2>3. CASE MemoryDies(s)
    BY <1>2, <2>3 DEF MemoryDies
  <2>4. QED
    BY <2>1, <2>2, <2>3
<1>4. PICK t \in Task : t.kind \in {"idle", "propose"} /\ task' = [task EXCEPT ![s] = t]
  BY <1>3
<1>5. rowLock' \in Sessions \cup {NoOne} /\ claim' \in Sessions \cup {NoOne}
  BY <1>1 DEF TypeOK
<1>6. QED
  BY <1>1, <1>4, <1>5, QuietStep

\* The proposal is written, open and labelled by its category.
LEMMA ProposeInsertsStep ==
    ASSUME TypeOK, Inv, NEW s \in Sessions, UNCHANGED postmortem, ProposeInserts(s)
    PROVE  TypeOK' /\ Inv'
<1> DEFINE new == Promotion(task[s].category, task[s].incident, task[s].by)
<1>1. /\ UNCHANGED <<log, evidence, verdict, rowLock, claim, drafts, entries>>
      /\ promotions' = Append(promotions, new)
      /\ task' = [task EXCEPT ![s] = Idle] /\ task[s].kind = "propose"
  BY DEF postmortem, record, ProposeInserts, Proposing
<1>2. /\ task[s].category \in MemoryCategory /\ task[s].by \in Proposers
      /\ task[s].incident \in BOOLEAN
  BY <1>1, TaskParts DEF TypeOK
<1>3. /\ new \in Row /\ new.status = "proposed" /\ new.category = task[s].category
      /\ new.by = task[s].by /\ new.origin = origin_provenance(new.category, new.by)
  BY <1>2 DEF Promotion, Row, origin_provenance
<1>4. Idle \in Task /\ Idle.kind = "idle"
  BY DEF Task, Idle
<1>5. task'[s] = Idle /\ \A q \in Sessions \ {s} : task'[q] = task[q]
  BY <1>1 DEF TypeOK
<1>6. /\ promotions' \in Seq(Row) /\ DOMAIN promotions \subseteq DOMAIN promotions'
      /\ \A p \in DOMAIN promotions : promotions'[p] = promotions[p]
      /\ \A p \in DOMAIN promotions' : p \in DOMAIN promotions \/ promotions'[p] = new
  BY <1>1, <1>3 DEF TypeOK
<1>7. TypeOK'
  BY <1>1, <1>4, <1>6 DEF TypeOK
<1>8. log' \in Seq(StateChange) /\ Grows
  BY <1>1 DEF TypeOK, Grows
<1>9. WriterHasTheRow'
  BY <1>1, <1>4, WriterFrame DEF Inv
<1>10. DecisionIsSound'
  <2>1. \A p \in DOMAIN promotions' :
           promotions'[p].origin = origin_provenance(promotions'[p].category, promotions'[p].by)
    BY <1>3, <1>6 DEF Inv, DecisionIsSound
  <2>2. ASSUME NEW q \in Sessions, task'[q].kind = "decide"
        PROVE  task'[q] = task[q] /\ task[q].promotion \in DOMAIN promotions
    BY <1>4, <1>5, <2>2 DEF Inv, DecisionIsSound
  <2>3. QED
    BY <1>1, <1>6, <2>1, <2>2 DEF Inv, DecisionIsSound, trusted, StatusAt, origin_provenance
<1>11. EntriesStand'
  BY <1>1, <1>6 DEF Inv, EntriesStand, Earned, trusted, StatusAt
<1>12. QED
  BY <1>1, <1>7, <1>8, <1>9, <1>10, <1>11, DraftsFrame DEF Inv

\* Somebody declines an open proposal that nobody else is deciding on.
LEMMA DeclineStep ==
    ASSUME TypeOK, Inv, NEW s \in Sessions, UNCHANGED postmortem, Decline(s)
    PROVE  TypeOK' /\ Inv'
<1>1. UNCHANGED <<log, evidence, verdict, rowLock, task, claim, drafts, entries>>
  BY DEF postmortem, record, Decline
<1>2. PICK p \in DOMAIN promotions :
         /\ ~RowHeld(p) /\ promotions[p].status = "proposed"
         /\ promotions' = [promotions EXCEPT ![p].status = "rejected"]
  BY DEF Decline, MayDecide
<1> DEFINE row == [promotions[p] EXCEPT !.status = "rejected"]
<1>3. promotions[p] \in Row
  BY DEF TypeOK
<1>4. /\ row \in Row /\ row.category = promotions[p].category /\ row.by = promotions[p].by
      /\ row.incident = promotions[p].incident
      /\ row.origin = promotions[p].origin
  BY <1>3 DEF Row
<1>5. /\ promotions' \in Seq(Row) /\ DOMAIN promotions' = DOMAIN promotions
      /\ promotions'[p] = row /\ \A q \in DOMAIN promotions \ {p} : promotions'[q] = promotions[q]
  BY <1>2, <1>4 DEF TypeOK
<1>6. TypeOK'
  BY <1>1, <1>5 DEF TypeOK
<1>7. log' \in Seq(StateChange) /\ Grows
  BY <1>1 DEF TypeOK, Grows
<1>8. WriterHasTheRow'
  BY <1>1 DEF Inv, WriterHasTheRow, Author, KeptIsSound, Status, StatusAt, Existing, Records,
     Observations, _remediation_path, _root_cause
<1>9. DecisionIsSound'
  <2>1. \A q \in DOMAIN promotions' :
           promotions'[q].origin = origin_provenance(promotions'[q].category, promotions'[q].by)
    BY <1>2, <1>4, <1>5 DEF Inv, DecisionIsSound, origin_provenance
  <2>2. ASSUME NEW q \in Sessions, task[q].kind = "decide"
        PROVE  task[q].promotion \in DOMAIN promotions \ {p}
    BY <1>2, <2>2 DEF Inv, DecisionIsSound, RowHeld
  <2>3. QED
    BY <1>1, <1>5, <2>1, <2>2 DEF Inv, DecisionIsSound, trusted, StatusAt, origin_provenance
<1>10. EntriesStand'
  <2>1. \A i \in DOMAIN entries : entries[i].promotion \in DOMAIN promotions \ {p}
    BY <1>2 DEF Inv, EntriesStand, Earned
  <2>2. QED
    BY <1>1, <1>5, <2>1 DEF Inv, EntriesStand, Earned, trusted, StatusAt
<1>11. QED
  BY <1>1, <1>6, <1>7, <1>8, <1>9, <1>10, DraftsFrame DEF Inv

\* Somebody takes the row of an open proposal, and the records are judged again.
LEMMA ApproveStep ==
    ASSUME TypeOK, Inv, NEW s \in Sessions, UNCHANGED postmortem, Approve(s)
    PROVE  TypeOK' /\ Inv'
<1>1. /\ UNCHANGED <<log, evidence, verdict, rowLock, claim, drafts, promotions, entries>>
      /\ task[s] = Idle
  BY DEF postmortem, record, memory, Approve
<1>2. PICK p \in DOMAIN promotions, h \in Humans :
         /\ ~RowHeld(p) /\ promotions[p].status = "proposed" /\ h # promotions[p].by
         /\ StillAllowed(p)
         /\ task' = [task EXCEPT ![s] = [kind |-> "decide", promotion |-> p,
                                         approver |-> h, events |-> Len(log)]]
  BY DEF Approve, MayDecide
<1> DEFINE t == [kind |-> "decide", promotion |-> p, approver |-> h, events |-> Len(log)]
<1>3. /\ t \in Task /\ t.kind = "decide" /\ t.promotion = p /\ t.approver = h
      /\ t.events = Len(log) /\ Len(log) \in Nat /\ Len(log) >= 1
  BY DEF Task, TypeOK
<1>4. task'[s] = t /\ \A q \in Sessions \ {s} : task'[q] = task[q]
  BY <1>2 DEF TypeOK
<1>5. TypeOK'
  BY <1>1, <1>2, <1>3 DEF TypeOK
<1>6. log' \in Seq(StateChange) /\ Grows
  BY <1>1 DEF TypeOK, Grows
<1>7. WriterHasTheRow'
  BY <1>1, <1>2, <1>3, WriterFrame DEF Inv
<1>8. IF promotions[p].category = "verified_outcome"
      THEN promotions[p].incident /\ trusted
      ELSE promotions[p].incident => StatusAt(Len(log)) \in TERMINAL_STATES
  BY <1>2 DEF StillAllowed, evaluate, Status
<1>9. DecisionIsSound'
  <2>1. ASSUME NEW q \in Sessions, task[q].kind = "decide" PROVE task[q].promotion # p
    BY <1>2, <2>1 DEF RowHeld
  <2>2. QED
    BY <1>1, <1>2, <1>3, <1>4, <1>8, <2>1 DEF Inv, DecisionIsSound, trusted, StatusAt,
       origin_provenance
<1>10. EntriesStand'
  BY <1>1 DEF Inv, EntriesStand, Earned, trusted, StatusAt
<1>11. QED
  BY <1>1, <1>5, <1>6, <1>7, <1>9, <1>10, DraftsFrame DEF Inv

\* The entry and the decision are written together.
LEMMA ApproveWritesStep ==
    ASSUME TypeOK, Inv, NEW s \in Sessions, UNCHANGED postmortem, ApproveWrites(s)
    PROVE  TypeOK' /\ Inv'
<1> DEFINE p == task[s].promotion
           row == [promotions[p] EXCEPT !.status = "approved"]
           new == _entry(task[s])
<1>1. /\ UNCHANGED <<log, evidence, verdict, rowLock, claim, drafts>>
      /\ task[s].kind = "decide" /\ task' = [task EXCEPT ![s] = Idle]
      /\ promotions' = [promotions EXCEPT ![p].status = "approved"]
      /\ entries' = Append(entries, new)
  BY DEF postmortem, record, ApproveWrites
<1>2. /\ p \in DOMAIN promotions /\ promotions[p].status = "proposed"
      /\ task[s].approver # promotions[p].by /\ task[s].events \in 1..Len(log)
      /\ IF promotions[p].category = "verified_outcome"
         THEN promotions[p].incident /\ trusted
         ELSE promotions[p].incident => StatusAt(task[s].events) \in TERMINAL_STATES
      /\ promotions[p].origin = origin_provenance(promotions[p].category, promotions[p].by)
      /\ \A q \in Sessions \ {s} : task[q].kind = "decide" => task[q].promotion # p
  BY <1>1 DEF Inv, DecisionIsSound
<1>3. promotions[p] \in Row /\ task[s].approver \in Humans /\ task[s].events \in Nat /\ p \in Nat
  BY <1>1, <1>2, TaskParts DEF TypeOK
<1>4. /\ row \in Row /\ row.category = promotions[p].category /\ row.by = promotions[p].by
      /\ row.incident = promotions[p].incident
      /\ row.origin = promotions[p].origin /\ row.status = "approved"
  BY <1>3 DEF Row
<1>5. /\ new \in Entry /\ new.promotion = p /\ new.approver = task[s].approver
      /\ new.events = task[s].events /\ new.provenance = promotions[p].origin
      /\ new.words = IF promotions[p].category = "verified_outcome" THEN "records"
                     ELSE promotions[p].by
  BY <1>3 DEF _entry, MemoryEntry, Entry, Row
<1>6. /\ promotions' \in Seq(Row) /\ DOMAIN promotions' = DOMAIN promotions
      /\ promotions'[p] = row /\ \A q \in DOMAIN promotions \ {p} : promotions'[q] = promotions[q]
  BY <1>1, <1>2, <1>4 DEF TypeOK
<1>7. /\ entries' \in Seq(Entry) /\ DOMAIN entries' = DOMAIN entries \cup {Len(entries) + 1}
      /\ entries'[Len(entries) + 1] = new
      /\ \A i \in DOMAIN entries : entries'[i] = entries[i] /\ i # Len(entries) + 1
  BY <1>1, <1>5 DEF TypeOK
<1>8. Idle \in Task /\ Idle.kind = "idle"
  BY DEF Task, Idle
<1>9. task'[s] = Idle /\ \A q \in Sessions \ {s} : task'[q] = task[q]
  BY <1>1 DEF TypeOK
<1>10. TypeOK'
  BY <1>1, <1>6, <1>7, <1>8 DEF TypeOK
<1>11. log' \in Seq(StateChange) /\ Grows
  BY <1>1 DEF TypeOK, Grows
<1>12. WriterHasTheRow'
  BY <1>1, <1>8, WriterFrame DEF Inv
<1>13. DecisionIsSound'
  <2>1. ASSUME NEW q \in DOMAIN promotions
        PROVE  promotions'[q].origin = origin_provenance(promotions'[q].category, promotions'[q].by)
    <3>1. promotions[q].origin = origin_provenance(promotions[q].category, promotions[q].by)
      BY DEF Inv, DecisionIsSound
    <3>2. CASE q = p
      BY <1>4, <1>6, <3>1, <3>2
    <3>3. CASE q # p
      BY <1>6, <3>1, <3>3
    <3>4. QED
      BY <3>2, <3>3
  <2>2. ASSUME NEW q \in Sessions, task'[q].kind = "decide"
        PROVE  task'[q] = task[q] /\ task[q].promotion \in DOMAIN promotions \ {p}
    BY <1>2, <1>8, <1>9, <2>2 DEF Inv, DecisionIsSound
  <2>3. QED
    BY <1>1, <1>6, <2>1, <2>2 DEF Inv, DecisionIsSound, trusted, StatusAt, origin_provenance
<1>14. EntriesStand'
  <2>1. \A i \in DOMAIN entries : entries[i].promotion \in DOMAIN promotions \ {p}
    BY <1>2 DEF Inv, EntriesStand, Earned
  <2>2. ASSUME NEW i \in DOMAIN entries
        PROVE  /\ entries'[i].promotion \in DOMAIN promotions' /\ entries'[i].events \in 1..Len(log')
               /\ Earned(i)'
    BY <1>1, <1>5, <1>6, <1>7, <2>1 DEF Inv, EntriesStand, Earned, trusted, StatusAt
  <2>3. ASSUME NEW i \in DOMAIN entries' \ DOMAIN entries
        PROVE  /\ entries'[i].promotion \in DOMAIN promotions' /\ entries'[i].events \in 1..Len(log')
               /\ Earned(i)'
    <3>1. "records" \notin Proposers
      BY DEF Proposers
    <3>2. entries'[i] = new /\ promotions'[new.promotion] = row
      BY <1>5, <1>6, <1>7
    <3>3. new.promotion \in DOMAIN promotions' /\ new.events \in 1..Len(log')
      BY <1>1, <1>2, <1>5, <1>6
    <3>4. row.status = "approved" /\ new.approver # row.by
      BY <1>2, <1>4, <1>5
    <3>5. \A j \in DOMAIN entries' \ {i} : entries'[j].promotion # new.promotion
      BY <1>5, <1>7, <2>1
    <3>6. IF new.provenance = "verified_fact"
          THEN row.incident /\ trusted' /\ new.words \notin Proposers
          ELSE new.words = row.by /\ (row.incident => log'[new.events].to \in TERMINAL_STATES)
      BY <1>1, <1>2, <1>4, <1>5, <3>1 DEF trusted, StatusAt, origin_provenance
    <3>7. QED
      BY <3>2, <3>3, <3>4, <3>5, <3>6 DEF Earned, StatusAt
  <2>4. QED
    BY <1>7, <2>2, <2>3 DEF EntriesStand
<1>15. QED
  BY <1>1, <1>10, <1>11, <1>12, <1>13, <1>14, DraftsFrame DEF Inv

---------------------------------------------------------------------------
\* Nothing happens.
LEMMA Stutter == ASSUME TypeOK, Inv, UNCHANGED vars PROVE TypeOK' /\ Inv'
<1>1. UNCHANGED <<log, evidence, verdict, rowLock, task, claim, drafts, promotions, entries>>
  BY DEF vars, record, postmortem, memory
<1>2. TypeOK'
  BY <1>1 DEF TypeOK
<1>3. log' \in Seq(StateChange) /\ Grows
  BY <1>1 DEF TypeOK, Grows
<1>4. WriterHasTheRow'
  BY <1>1 DEF Inv, WriterHasTheRow, Author, KeptIsSound, Status, StatusAt, Existing, Records,
     Observations, _remediation_path, _root_cause
<1>5. QED
  BY <1>1, <1>2, <1>3, <1>4, DraftsFrame, MemoryFrame DEF Inv, trusted

\* Every step of responders, workers and those who decide keeps the invariant.
LEMMA NextHolds == TypeOK /\ Inv /\ [Next]_vars => TypeOK' /\ Inv'
<1> SUFFICES ASSUME TypeOK, Inv, [Next]_vars PROVE TypeOK' /\ Inv'
  OBVIOUS
<1>1. CASE RecordNext /\ UNCHANGED <<postmortem, memory>>
  BY <1>1, RecordStep
<1>2. CASE PostmortemNext /\ UNCHANGED memory
  BY <1>2, AuthorLeavesStep, DraftSectionsStep, PersistLocksStep, PersistWritesStep, ClaimLostStep
     DEF PostmortemNext
<1>3. CASE MemoryNext /\ UNCHANGED postmortem
  BY <1>3, ProposeStep, ProposeInsertsStep, DeclineStep, ApproveStep, ApproveWritesStep
     DEF MemoryNext
<1>4. CASE UNCHANGED vars
  BY <1>4, Stutter
<1>5. QED
  BY <1>1, <1>2, <1>3, <1>4 DEF Next

\* The types, the drafts, the decisions and the entries are sound together.
THEOREM Inductive == Spec => [](TypeOK /\ Inv)
BY InitHolds, NextHolds, PTL DEF Spec

\* However many workers draft the incident, there is one draft for a record set and the
\* versions have no gap: the unique key on the fingerprint is never needed.
THEOREM OneDraftPerRecordSetHolds == Spec => []OneDraftPerRecordSet
<1>1. Inv => OneDraftPerRecordSet
  BY DEF Inv
<1>2. QED
  BY <1>1, Inductive, PTL

\* A draft stays true: it calls a resolution verified only if the control plane made it on
\* a verdict, and what the model contributed is of the record set the draft is from.
THEOREM DraftIsTrueHolds == Spec => []DraftIsTrue
<1>1. TypeOK /\ Inv => DraftIsTrue
  <2> SUFFICES ASSUME TypeOK, Inv, NEW d \in drafts
               PROVE  /\ ResolverAt(d.fp.events) = "human" =>
                           \E u \in d.uncertain :
                               u.reason = "human_declared" /\ StatusAt(u.handle[2]) = "resolved"
                      /\ d.basis = "independently_verified" =>
                           d.fp.verified /\ ResolverAt(d.fp.events) = "system"
                      /\ \A c \in d.kept : c.cites \ Flagged # {} /\ c.cites \subseteq Records(d.fp)
    BY DEF DraftIsTrue
  <2> DEFINE n == d.fp.events
             u == Uncertainty("human_declared", <<"event", n>>)
  <2>1. /\ n \in 1..Len(log) /\ log[n].to = "resolved" /\ d.basis = resolution_basis(d.fp)
        /\ d.uncertain = assemble(d.fp) /\ KeptIsSound(d.kept, d.fp)
    BY DEF Inv, DraftsStand, StatusAt
  <2>2. n \in Nat /\ n >= 1 /\ log[n] \in StateChange
    BY <2>1 DEF TypeOK
  <2>3. ResolverAt(n) = log[n].actor
    BY <2>1, <2>2, LastResolution DEF ResolverAt
  <2>4. ResolverAt(n) \in {"system", "human"}
    BY <2>2, <2>3 DEF StateChange
  <2>5. d.basis = "independently_verified" => d.fp.verified /\ ResolverAt(n) = "system"
    BY <2>1, <2>4 DEF resolution_basis, SystemOnly
  <2>6. ASSUME ResolverAt(n) = "human"
        PROVE  \E v \in d.uncertain :
                   v.reason = "human_declared" /\ StatusAt(v.handle[2]) = "resolved"
    <3>1. resolution_basis(d.fp) = "human_declared"
      BY <2>6 DEF resolution_basis, SystemOnly
    <3>2. u \in d.uncertain
      BY <2>1, <3>1 DEF assemble, ClosingUncertainties
    <3>3. u.reason = "human_declared" /\ u.handle[2] = n
      BY DEF Uncertainty
    <3>4. QED
      BY <2>1, <3>2, <3>3 DEF StatusAt
  <2>7. QED
    BY <2>1, <2>5, <2>6 DEF KeptIsSound
<1>2. QED
  BY <1>1, Inductive, PTL

\* A draft is written only while the incident is resolved, from a log that misses nothing.
THEOREM DraftMissesNothingHolds == Spec => DraftMissesNothing
<1> DEFINE Complete == \A d \in drafts' \ drafts : Status = "resolved" /\ d.fp.events = Len(log)
<1>1. TypeOK /\ Inv /\ [Next]_vars => [Complete]_<<log, drafts>>
  <2> SUFFICES ASSUME TypeOK, Inv, [Next]_vars PROVE Complete
    OBVIOUS
  <2>1. CASE drafts' = drafts
    BY <2>1
  <2>2. ASSUME NEW s \in Sessions, PersistWrites(s) PROVE Complete
    <3>1. /\ drafts' \ drafts \subseteq {Postmortem(task[s].fp, task[s].kept)}
          /\ Status = "resolved" /\ task[s].fp.events = Len(log)
      BY <2>2 DEF PersistWrites, Inv, WriterHasTheRow
    <3>2. QED
      BY <3>1 DEF Postmortem
  <2>3. drafts' = drafts \/ \E s \in Sessions : PersistWrites(s)
    BY DEF Next, vars, postmortem, PostmortemNext, ClaimLost, Discover, DraftSections, DraftNothing,
       PersistLocks, PersistNothing, AuthorDies
  <2>4. QED
    BY <2>1, <2>2, <2>3
<1>2. QED
  BY <1>1, Inductive, PTL DEF Spec, DraftMissesNothing

\* Whatever a prompt is shown, somebody other than its proposer approved it once, on
\* records that supported it then, and a verified fact is in nobody's own words.
THEOREM EntryIsEarnedHolds == Spec => []EntryIsEarned
<1>1. Inv => EntryIsEarned
  <2> SUFFICES ASSUME Inv, NEW limit \in 1..20, NEW shown \in memory_blocks(limit), NEW i \in shown
               PROVE  Earned(i)
    BY DEF EntryIsEarned
  <2>1. i \in DOMAIN entries
    BY DEF memory_blocks
  <2>2. QED
    BY <2>1 DEF Inv, EntriesStand
<1>2. QED
  BY <1>1, Inductive, PTL
===========================================================================
