------------------------- MODULE Attribution_proofs -------------------------
(***************************************************************************)
(* Two places where the system must not take somebody else's doing for its *)
(* own: a deployment and the migration Job under a name that others use    *)
(* (Release), and a verdict on an action and the measurements behind it    *)
(* (VerificationLineage).                                                  *)
(*                                                                         *)
(* Release: for any set of deployments, serialized by the workflow's group *)
(* or not, and any interleaving with the Job controller, the garbage       *)
(* collector and operators.                                                *)
(*                                                                         *)
(* Verification: for every profile, clock bound and set of values.  The    *)
(* argument follows the rows: what the verifier reads is never younger     *)
(* than the clock, it asks only after the settling period and while the    *)
(* baseline stands, and nothing it relies on changes between the question  *)
(* and the verdict.                                                        *)
(***************************************************************************)
EXTENDS Release, VerificationLineage, FiniteSetTheorems, TLAPS

-----------------------------------------------------------------------------
(* Release: types.                                                         *)

(***************************************************************************)
(* A fresh Job is a Job under its creator's UID, and none is no Job.       *)
(***************************************************************************)
LEMMA FreshJob ==
    ASSUME NEW u \in UIDs, NEW s \in {"active", "complete", "failed"}
    PROVE  Job(u, s) \in Jobs /\ Job(u, s).uid = u /\ Job(u, s).state = s /\ Job(u, s) # Nothing
  <1>1. Job(u, s) \in Jobs
    BY DEF Job, Jobs
  <1> QED
    BY <1>1, ReleaseAssumption DEF Job

(***************************************************************************)
(* Marking a Job for deletion, or settling it, leaves it a Job of the same *)
(* UID.                                                                    *)
(***************************************************************************)
LEMMA ChangedJob ==
    ASSUME NEW j \in Jobs, NEW s \in {"complete", "failed"}
    PROVE  /\ [j EXCEPT !.deleting = TRUE] \in Jobs \ {Nothing}
           /\ [j EXCEPT !.deleting = TRUE].uid = j.uid
           /\ [j EXCEPT !.state = s] \in Jobs \ {Nothing}
           /\ [j EXCEPT !.state = s].uid = j.uid
  <1>1. [j EXCEPT !.deleting = TRUE] \in Jobs /\ [j EXCEPT !.state = s] \in Jobs
    BY DEF Jobs
  <1> QED
    BY <1>1, ReleaseAssumption DEF Jobs

(***************************************************************************)
(* The step of a deployment, a cluster event or a death keeps every object *)
(* of the release well formed.                                             *)
(***************************************************************************)
LEMMA TypeStep == ReleaseTypeOK /\ [ReleaseNext]_releaseVars => ReleaseTypeOK'
  <1> SUFFICES ASSUME ReleaseTypeOK, [ReleaseNext]_releaseVars PROVE ReleaseTypeOK'
    OBVIOUS
  <1> USE ReleaseAssumption DEF ReleaseTypeOK, Go, Stop, Steps, Ended, cluster, deployer
  <1>1. ASSUME NEW d \in Deployments, Start(d) \/ Validate(d) \/ AwaitPods(d) \/ Die(d)
        PROVE  ReleaseTypeOK'
    BY <1>1 DEF Start, Validate, AwaitPods, Die
  <1>2. ASSUME NEW d \in Deployments, Inspect(d) PROVE ReleaseTypeOK'
    <2>1. job # Nothing => job.uid \in UIDs
      BY DEF Jobs
    <2> QED
      BY <1>2, <2>1 DEF Inspect
  <1>3. ASSUME NEW d \in Deployments, Delete(d) PROVE ReleaseTypeOK'
    BY <1>3 DEF Delete, Jobs
  <1>4. ASSUME NEW d \in Deployments, AwaitSlot(d) \/ Watch(d) \/ KubectlFails(d) \/ Deadline(d)
        PROVE  ReleaseTypeOK'
    BY <1>4 DEF AwaitSlot, Watch, KubectlFails, Deadline
  <1>5. ASSUME NEW d \in Deployments, Create(d) PROVE ReleaseTypeOK'
    BY <1>5, FreshJob DEF Create, UIDs
  <1>6. ASSUME NEW d \in Deployments, Apply(d) \/ RolloutDone(d) \/ post_rollout_smoke(d)
        PROVE  ReleaseTypeOK'
    BY <1>6 DEF Apply, RolloutDone, post_rollout_smoke
  <1>7. ASSUME NEW u \in UIDs, PodEnds(u) PROVE ReleaseTypeOK'
    BY <1>7 DEF PodEnds
  <1>8. ASSUME PodStarts PROVE ReleaseTypeOK'
    BY <1>8 DEF PodStarts
  <1>9. ASSUME JobSettles \/ Collect \/ DeleteInBackground \/ OperatorDeletes PROVE ReleaseTypeOK'
    BY <1>9 DEF JobSettles, Collect, DeleteInBackground, OperatorDeletes, Jobs
  <1>10. ASSUME Converge \/ UNCHANGED releaseVars PROVE ReleaseTypeOK'
    BY <1>10 DEF Converge, releaseVars
  <1> QED
    BY <1>1, <1>2, <1>3, <1>4, <1>5, <1>6, <1>7, <1>8, <1>9, <1>10 DEF ReleaseNext, Deploy

(***************************************************************************)
(* A release starts from well-formed objects.                              *)
(***************************************************************************)
LEMMA TypeInit == ReleaseInit => ReleaseTypeOK
  <1> SUFFICES ASSUME ReleaseInit PROVE ReleaseTypeOK
    OBVIOUS
  <1>1. job \in Jobs \cup {Nothing} /\ pods \in [UIDs -> {"none", "running", "succeeded", "failed"}]
    <2>1. CASE /\ job = Nothing
               /\ \E p \in {"none", "running", "succeeded", "failed"} :
                     pods = [u \in UIDs |-> IF u = Prior THEN p ELSE "none"]
      BY <2>1
    <2>2. CASE job \in {Job(Prior, s) : s \in {"active", "complete", "failed"}}
      <3>1. job \in Jobs
        BY <2>2, FreshJob DEF UIDs
      <3> QED
        BY <2>2, <3>1 DEF ReleaseInit, Jobs
    <2> QED
      BY <2>1, <2>2 DEF ReleaseInit
  <1> QED
    BY <1>1 DEF ReleaseInit, ReleaseTypeOK, Steps

(***************************************************************************)
(* For any set of deployments, the deployments and the cluster objects     *)
(* keep their types.                                                       *)
(***************************************************************************)
THEOREM TypeCorrect == ReleaseSpec => []ReleaseTypeOK
  BY TypeInit, TypeStep, PTL DEF ReleaseSpec

-----------------------------------------------------------------------------
(* One migration at a time.                                                *)

(***************************************************************************)
(* What a deployment's own step does to the Job and to where it stands:    *)
(* only Create makes a Job, only in place of none, and a deployment        *)
(* reaches "slot_free" only over an empty slot and "creating" only with    *)
(* every pod stopped.                                                      *)
(***************************************************************************)
LEMMA DeployFrame ==
    ASSUME ReleaseTypeOK, NEW d \in Deployments, Start(d) \/ Deploy(d) \/ Die(d)
    PROVE  /\ UNCHANGED <<serialized, pods, migrated, slipped>>
           /\ \A e \in Deployments : e # d => step'[e] = step[e]
           /\ step'[d] = "slot_free" => job = Nothing /\ job' = Nothing
           /\ step'[d] = "creating" => step[d] = "slot_free" /\ RunningPods = {} /\ job' = job
           /\ \/ job' = job
              \/ job # Nothing /\ job' = [job EXCEPT !.deleting = TRUE]
              \/ job = Nothing /\ step[d] = "creating" /\ job' = Job(d, "active")
           /\ \/ Underway(d)
              \/ serialized => \A e \in Deployments : ~Underway(e)
  <1> USE DEF ReleaseTypeOK, Go, Stop, Steps, Ended, cluster, deployer, Underway
  <1>1. CASE Start(d) \/ Validate(d) \/ AwaitPods(d) \/ Die(d)
    BY <1>1 DEF Start, Validate, AwaitPods, Die, PodsStopped
  <1>2. CASE Inspect(d)
    BY <1>2 DEF Inspect
  <1>3. CASE Delete(d) \/ AwaitSlot(d)
    BY <1>3 DEF Delete, AwaitSlot
  <1>4. CASE Create(d)
    BY <1>4 DEF Create
  <1>5. CASE Watch(d) \/ Apply(d) \/ RolloutDone(d) \/ post_rollout_smoke(d)
    BY <1>5 DEF Watch, Apply, RolloutDone, post_rollout_smoke
  <1>6. CASE KubectlFails(d) \/ Deadline(d)
    BY <1>6 DEF KubectlFails, Deadline, Polling
  <1> QED
    BY <1>1, <1>2, <1>3, <1>4, <1>5, <1>6 DEF Deploy

(***************************************************************************)
(* One step keeps the discipline of deployments that go through the group. *)
(***************************************************************************)
LEMMA GroupStep ==
    ASSUME ReleaseTypeOK, GroupDiscipline, [ReleaseNext]_releaseVars
    PROVE  GroupDiscipline'
  <1> USE ReleaseAssumption DEF ReleaseTypeOK
  <1>1. ASSUME NEW d \in Deployments, Start(d) \/ Deploy(d) \/ Die(d), serialized
        PROVE  GroupDiscipline'
    <2>1. /\ UNCHANGED <<serialized, slipped>>
          /\ \A e \in Deployments : e # d => step'[e] = step[e]
          /\ step'[d] = "slot_free" => job = Nothing /\ job' = Nothing
          /\ step'[d] = "creating" => step[d] = "slot_free" /\ job' = job
          /\ \/ Underway(d)
             \/ serialized => \A e \in Deployments : ~Underway(e)
      BY <1>1, DeployFrame
    <2>2. \A e \in Deployments : e # d => ~Underway(e) /\ ~Underway(e)'
      BY <1>1, <2>1 DEF GroupDiscipline, Underway
    <2>3. \A e \in Deployments : e # d => step'[e] \notin {"slot_free", "creating"}
      BY <2>2 DEF Underway, Ended
    <2>4. \A e, f \in Deployments : Underway(e)' /\ Underway(f)' => e = f
      BY <2>2
    <2>5. \A e \in Deployments : step'[e] \in {"slot_free", "creating"} => job' = Nothing
      BY <1>1, <2>1, <2>3 DEF GroupDiscipline
    <2> QED
      BY <1>1, <2>1, <2>4, <2>5 DEF GroupDiscipline
  <1>2. ASSUME NEW d \in Deployments, Start(d) \/ Deploy(d) \/ Die(d), ~serialized
        PROVE  GroupDiscipline'
    BY <1>2, DeployFrame DEF GroupDiscipline
  <1>3. ASSUME NEW u \in UIDs, PodEnds(u) PROVE GroupDiscipline'
    BY <1>3 DEF PodEnds, deployer, GroupDiscipline, Underway
  <1>4. ASSUME PodStarts \/ JobSettles \/ OperatorDeletes PROVE GroupDiscipline'
    BY <1>4 DEF PodStarts, JobSettles, OperatorDeletes, deployer, GroupDiscipline, Underway
  <1>5. ASSUME Collect \/ DeleteInBackground PROVE GroupDiscipline'
    BY <1>5 DEF Collect, DeleteInBackground, deployer, GroupDiscipline, Underway
  <1>6. ASSUME Converge \/ UNCHANGED releaseVars PROVE GroupDiscipline'
    BY <1>6 DEF Converge, releaseVars, deployer, GroupDiscipline, Underway
  <1> QED
    BY <1>1, <1>2, <1>3, <1>4, <1>5, <1>6 DEF ReleaseNext

(***************************************************************************)
(* Unless a Job slips away in the window, one step keeps every pod that a  *)
(* deployment about to create a Job does not know of from running.         *)
(***************************************************************************)
LEMMA SlotStep ==
    ASSUME ReleaseTypeOK, SlotDiscipline, [ReleaseNext]_releaseVars
    PROVE  SlotDiscipline'
  <1> USE ReleaseAssumption DEF ReleaseTypeOK
  <1>1. ASSUME NEW d \in Deployments, Start(d) \/ Deploy(d) \/ Die(d) PROVE SlotDiscipline'
    <2> SUFFICES ASSUME ~slipped' PROVE SlotDiscipline'
      BY DEF SlotDiscipline
    <2>1. /\ UNCHANGED <<pods, slipped>>
          /\ \A e \in Deployments : e # d => step'[e] = step[e]
          /\ step'[d] = "creating" => RunningPods = {}
          /\ \/ job' = job
             \/ job # Nothing /\ job' = [job EXCEPT !.deleting = TRUE]
             \/ job = Nothing /\ step[d] = "creating" /\ job' = Job(d, "active")
      BY <1>1, DeployFrame
    <2>2. RunningPods' = RunningPods
      BY <2>1 DEF RunningPods
    <2>3. CASE job' = job
      BY <2>1, <2>2, <2>3 DEF SlotDiscipline
    <2>4. CASE job # Nothing /\ job' = [job EXCEPT !.deleting = TRUE]
      <3>1. job' # Nothing /\ job'.uid = job.uid
        BY <2>4, ChangedJob
      <3> QED
        BY <2>1, <2>2, <2>4, <3>1 DEF SlotDiscipline
    <2>5. CASE job = Nothing /\ step[d] = "creating"
      BY <2>1, <2>2, <2>5 DEF SlotDiscipline
    <2> QED
      BY <2>1, <2>3, <2>4, <2>5
  <1>2. ASSUME NEW u \in UIDs, PodEnds(u) PROVE SlotDiscipline'
    <2>1. /\ RunningPods' = RunningPods \ {u}
          /\ \A v \in UIDs : pods'[v] = "none" => pods[v] = "none"
          /\ UNCHANGED <<slipped, step, job>>
      BY <1>2 DEF PodEnds, RunningPods, deployer
    <2>2. job # Nothing => job.uid \in UIDs
      BY DEF Jobs
    <2> QED
      BY <2>1, <2>2 DEF SlotDiscipline
  <1>3. ASSUME PodStarts PROVE SlotDiscipline'
    <2> SUFFICES ASSUME ~slipped' PROVE SlotDiscipline'
      BY DEF SlotDiscipline
    <2>1. job # Nothing /\ job.uid \in UIDs /\ RunningPods = {}
      BY <1>3 DEF PodStarts, Jobs, SlotDiscipline
    <2>2. RunningPods' = {job.uid} /\ pods'[job.uid] = "running" /\ UNCHANGED <<step, job>>
      BY <1>3, <2>1 DEF PodStarts, RunningPods, deployer
    <2> QED
      BY <2>1, <2>2 DEF SlotDiscipline
  <1>4. ASSUME JobSettles \/ OperatorDeletes PROVE SlotDiscipline'
    <2>1. job' # Nothing /\ job'.uid = job.uid /\ UNCHANGED <<slipped, step, pods>>
      BY <1>4, ChangedJob DEF JobSettles, OperatorDeletes, deployer
    <2> QED
      BY <1>4, <2>1 DEF SlotDiscipline, RunningPods, JobSettles, OperatorDeletes
  <1>5. ASSUME Collect \/ DeleteInBackground PROVE SlotDiscipline'
    <2>1. /\ job # Nothing /\ job' = Nothing /\ UNCHANGED <<step, pods>>
          /\ ~slipped' => ~slipped
          /\ ~slipped' /\ pods[job.uid] = "running" => \A d \in Deployments : step[d] # "creating"
      BY <1>5 DEF Collect, DeleteInBackground, deployer
    <2>2. RunningPods' = RunningPods
      BY <2>1 DEF RunningPods
    <2>3. ASSUME NEW d \in Deployments, step[d] = "creating", ~slipped' PROVE RunningPods = {}
      BY <2>1, <2>3 DEF SlotDiscipline, RunningPods
    <2> QED
      BY <2>1, <2>2, <2>3 DEF SlotDiscipline
  <1>6. ASSUME Converge \/ UNCHANGED releaseVars PROVE SlotDiscipline'
    BY <1>6 DEF Converge, releaseVars, deployer, SlotDiscipline, RunningPods
  <1> QED
    BY <1>1, <1>2, <1>3, <1>4, <1>5, <1>6 DEF ReleaseNext

(***************************************************************************)
(* Whatever set of deployments starts or dies, and whoever deletes the     *)
(* migration Job: no two migration pods run at once when deployments go    *)
(* through the group, and none when they overlap unless a Job is removed   *)
(* over its running pod between a deployment's look at the pods and its    *)
(* create.                                                                 *)
(***************************************************************************)
THEOREM OneMigrationHolds == ReleaseSpec => []OneMigration
  <1> DEFINE Discipline == GroupDiscipline /\ SlotDiscipline
  <1>1. ReleaseInit => Discipline
    <2> SUFFICES ASSUME ReleaseInit PROVE Discipline
      OBVIOUS
    <2>1. Prior \in UIDs /\ RunningPods \subseteq {Prior}
      BY DEF ReleaseInit, RunningPods, UIDs
    <2>2. job # Nothing => pods[job.uid] # "none"
      BY <2>1, FreshJob DEF ReleaseInit, UIDs
    <2> QED
      BY <2>1, <2>2 DEF ReleaseInit, GroupDiscipline, SlotDiscipline, Underway
  <1>2. ReleaseTypeOK /\ Discipline /\ [ReleaseNext]_releaseVars => Discipline'
    BY GroupStep, SlotStep
  <1>3. ReleaseTypeOK /\ Discipline => OneMigration
    <2> SUFFICES ASSUME ReleaseTypeOK, Discipline, ~slipped PROVE Cardinality(RunningPods) <= 1
      BY DEF OneMigration, GroupDiscipline
    <2>1. \A u, v \in RunningPods : u = v
      BY DEF SlotDiscipline
    <2>2. CASE RunningPods = {}
      BY <2>2, FS_EmptySet
    <2>3. CASE RunningPods # {}
      <3> PICK u \in RunningPods : TRUE
        BY <2>3
      <3>1. RunningPods = {u}
        BY <2>1
      <3>2. Cardinality({u}) = 1
        BY FS_Singleton, Zenon
      <3>3. Cardinality(RunningPods) = 1
        BY <3>1, <3>2, Zenon
      <3> QED
        BY <3>3
    <2> QED
      BY <2>2, <2>3
  <1> QED
    BY <1>1, <1>2, <1>3, TypeCorrect, PTL DEF ReleaseSpec

-----------------------------------------------------------------------------
(* A release follows its own migration.                                    *)

(***************************************************************************)
(* One step keeps a completed Job, and the deployment that believed it,    *)
(* behind a pod that ran the migration to its end.                         *)
(***************************************************************************)
LEMMA CompletionStep ==
    ASSUME ReleaseTypeOK, CompletionIsReal, AppliedOnOwnMigration, [ReleaseNext]_releaseVars
    PROVE  CompletionIsReal' /\ AppliedOnOwnMigration'
  <1> USE ReleaseAssumption DEF ReleaseTypeOK, CompletionIsReal, AppliedOnOwnMigration
  <1>1. ASSUME NEW d \in Deployments, Start(d) \/ Deploy(d) \/ Die(d)
        PROVE  CompletionIsReal' /\ AppliedOnOwnMigration'
    <2>1. /\ UNCHANGED <<pods, migrated>>
          /\ \A e \in Deployments : e # d => step'[e] = step[e]
          /\ \/ job' = job
             \/ job # Nothing /\ job' = [job EXCEPT !.deleting = TRUE]
             \/ job' = Job(d, "active")
      BY <1>1, DeployFrame
    <2>2. job' # Nothing /\ job'.state = "complete" => job'.uid \in migrated
      <3>1. CASE job' = job
        BY <3>1
      <3>2. CASE job # Nothing /\ job' = [job EXCEPT !.deleting = TRUE]
        BY <3>2 DEF Jobs
      <3>3. CASE job' = Job(d, "active")
        BY <3>3 DEF Job
      <3> QED
        BY <2>1, <3>1, <3>2, <3>3
    <2>3. step'[d] = "registering" => d \in migrated
      <3>1. CASE Watch(d)
        BY <3>1 DEF Watch, Go, Outcome, Terminal
      <3>2. CASE ~Watch(d)
        <4>1. step'[d] # "registering"
          BY <1>1, <3>2 DEF Start, Deploy, Die, Validate, Inspect, Delete, AwaitSlot, AwaitPods,
             Create, Apply, RolloutDone, post_rollout_smoke, KubectlFails, Deadline, Go, Stop
        <4> QED
          BY <4>1
      <3> QED
        BY <3>1, <3>2
    <2>4. app' # Nothing => app' \in migrated
      <3>1. CASE Apply(d)
        BY <3>1 DEF Apply
      <3>2. CASE ~Apply(d)
        <4>1. app' = app
          BY <1>1, <3>2 DEF Start, Deploy, Die, Validate, Inspect, Delete, AwaitSlot, AwaitPods,
             Create, Watch, RolloutDone, post_rollout_smoke, KubectlFails, Deadline, Stop, cluster
        <4> QED
          BY <4>1
      <3> QED
        BY <3>1, <3>2
    <2> QED
      BY <2>1, <2>2, <2>3, <2>4
  <1>2. ASSUME NEW u \in UIDs, PodEnds(u) PROVE CompletionIsReal' /\ AppliedOnOwnMigration'
    BY <1>2 DEF PodEnds, deployer
  <1>3. ASSUME PodStarts PROVE CompletionIsReal' /\ AppliedOnOwnMigration'
    BY <1>3 DEF PodStarts, deployer
  <1>4. ASSUME JobSettles \/ OperatorDeletes PROVE CompletionIsReal' /\ AppliedOnOwnMigration'
    BY <1>4 DEF JobSettles, OperatorDeletes, Jobs, deployer
  <1>5. ASSUME Collect \/ DeleteInBackground \/ Converge \/ UNCHANGED releaseVars
        PROVE  CompletionIsReal' /\ AppliedOnOwnMigration'
    BY <1>5 DEF Collect, DeleteInBackground, Converge, releaseVars, deployer
  <1> QED
    BY <1>1, <1>2, <1>3, <1>4, <1>5 DEF ReleaseNext

(***************************************************************************)
(* Whatever Job holds the name meanwhile, a release is applied only after  *)
(* its own migration ran to its end.                                       *)
(***************************************************************************)
THEOREM AppliedOnOwnMigrationHolds == ReleaseSpec => []AppliedOnOwnMigration
  <1>1. ReleaseInit => CompletionIsReal /\ AppliedOnOwnMigration
    <2> SUFFICES ASSUME ReleaseInit PROVE CompletionIsReal
      BY DEF ReleaseInit, AppliedOnOwnMigration
    <2>1. job # Nothing /\ job.state = "complete" => job.uid \in migrated
      BY DEF ReleaseInit, Job, UIDs
    <2> QED
      BY <2>1 DEF ReleaseInit, CompletionIsReal
  <1>2. ReleaseTypeOK /\ CompletionIsReal /\ AppliedOnOwnMigration /\ [ReleaseNext]_releaseVars
            => (CompletionIsReal /\ AppliedOnOwnMigration)'
    BY CompletionStep
  <1> QED
    BY <1>1, <1>2, TypeCorrect, PTL DEF ReleaseSpec

-----------------------------------------------------------------------------
(* Verification.                                                           *)

Measured == ReadsThePast /\ SamplesInOrder /\ ReadsAfterSettling /\ RowsAgree

\* The registered profile that equals the frozen criteria is the one they name.
LEMMA ProfileIsCriteria ==
    ASSUME NEW v \in Versions
    PROVE  profile_for_criteria(v) = v
BY DEF profile_for_criteria

\* A sample of the window is one the read brought, no older than the window.
LEMMA ObservedSample ==
    ASSUME NEW s \in _observe
    PROVE  s = read.sample /\ s.at >= read.started - Window
BY DEF _observe

\* Before anything is measured the invariant holds.
LEMMA MeasuredInit == Init => TypeOK /\ Measured
<1> SUFFICES ASSUME Init PROVE TypeOK /\ Measured
  OBVIOUS
<1>1. sample \in Sample /\ sample.at = 0
  BY DEF Init, Sample
<1>2. TypeOK
  BY <1>1, LineageAssumption DEF Init, TypeOK, Versions
<1>3. Measured
  BY <1>1 DEF Init, Measured, ReadsThePast, SamplesInOrder, Newer,
        ReadsAfterSettling, RowsAgree, Verified
<1>4. QED
  BY <1>2, <1>3

-----------------------------------------------------------------------------
\* The clock moves and a sample may arrive: a baseline that stands goes on standing.
LEMMA TickStep == TypeOK /\ Measured /\ Tick => TypeOK' /\ Measured'
<1> SUFFICES ASSUME TypeOK, Measured, Tick PROVE TypeOK' /\ Measured'
  OBVIOUS
<1>1. /\ now \in Nat /\ now' = now + 1 /\ pc # "done"
      /\ UNCHANGED <<current, pc, action, read, baseline, verification>>
  BY DEF Tick, TypeOK
<1>2. sample' \in Sample /\ sample'.at =< now'
  <2>1. CASE sample' = sample
    BY <1>1, <2>1 DEF TypeOK, Measured, ReadsThePast, Sample
  <2>2. CASE sample' \in [at : {now + 1}, value : Values]
    BY <1>1, <2>2 DEF Sample
  <2>3. QED
    BY <2>1, <2>2 DEF Tick
<1>3. TypeOK'
  BY <1>1, <1>2 DEF TypeOK
<1>4. ReadsThePast'
  <2>1. read # None \/ pc = "verifying" => read.started \in Nat
    BY DEF TypeOK, Read
  <2>2. QED
    BY <1>1, <1>2, <2>1 DEF Measured, ReadsThePast
<1>5. ReadsAfterSettling'
  <2>1. pc \in {"settling", "verifying"} => action.executed_at \in Nat
    BY DEF TypeOK
  <2>2. BaselineStands /\ pc = "verifying" => BaselineStands'
    BY <1>1, <2>1 DEF BaselineStands, trusted_baseline_record
  <2>3. QED
    BY <1>1, <2>1, <2>2 DEF Measured, ReadsAfterSettling
<1>6. SamplesInOrder'
  <2>1. Newer(sample', sample)
    BY <1>1 DEF Tick, Newer, Measured, ReadsThePast, TypeOK, Sample
  <2>2. sample.at \in Nat /\ sample'.at \in Nat
    BY <1>2 DEF TypeOK, Sample
  <2>3. \A t \in Sample : Newer(sample, t) => Newer(sample', t)
    BY <2>1, <2>2 DEF Newer, Sample
  <2>4. /\ read # None \/ pc = "verifying" => read.sample \in Sample
        /\ pc \in {"executing", "dispatching", "settling", "verifying"} =>
              baseline.sample \in Sample
    BY DEF TypeOK, Read, Baseline
  <2>5. /\ read # None \/ pc = "verifying" => Newer(sample', read.sample)
        /\ pc \in {"executing", "dispatching", "settling", "verifying"} =>
              Newer(sample', baseline.sample)
    BY <2>3, <2>4 DEF Measured, SamplesInOrder
  <2>6. QED
    BY <1>1, <2>5 DEF Measured, SamplesInOrder, Newer
<1>7. RowsAgree'
  BY <1>1 DEF TypeOK, RowsAgree, Verified
<1>8. QED
  BY <1>3, <1>4, <1>5, <1>6, <1>7 DEF Measured

\* Steps before the write is known to have succeeded.
LEMMA EarlyStep ==
    ASSUME TypeOK, Measured, Upgrade \/ Propose \/ BaselineAsks \/ BaselineCaptured
                        \/ BaselineUnavailable \/ ExecutorChecks \/ RouteSuccess
    PROVE  TypeOK' /\ Measured'
<1>0. now \in Nat /\ sample \in Sample /\ sample.at =< now /\ current \in Versions
  BY DEF TypeOK, Measured, ReadsThePast
<1>1. CASE Upgrade
  <2>1. TypeOK'
    BY <1>1 DEF Upgrade, TypeOK
  <2>2. Measured'
    BY <1>1 DEF Upgrade, Measured, ReadsThePast, SamplesInOrder, Newer,
        ReadsAfterSettling, RowsAgree, Verified,
                BaselineStands, trusted_baseline_record, Healthy, Improved
  <2>3. QED
    BY <2>1, <2>2
<1>2. CASE Propose
  <2>1. action' \in Action
    BY <1>0, <1>2 DEF Propose, Action
  <2>2. TypeOK'
    BY <1>2, <2>1 DEF Propose, TypeOK
  <2>3. Measured'
    BY <1>2 DEF Propose, TypeOK, Measured, ReadsThePast, SamplesInOrder, Newer,
        ReadsAfterSettling, RowsAgree, Verified
  <2>4. QED
    BY <2>2, <2>3
<1>3. CASE BaselineAsks
  <2>1. read' \in Read /\ read'.started = now /\ read'.sample = sample
    BY <1>0, <1>3 DEF BaselineAsks, Ask, Read
  <2>2. TypeOK'
    BY <1>3, <2>1 DEF BaselineAsks, TypeOK
  <2>3. Measured'
    BY <1>0, <1>3, <2>1
    DEF BaselineAsks, TypeOK, Measured, ReadsThePast, SamplesInOrder, Newer,
        ReadsAfterSettling, RowsAgree, Verified
  <2>4. QED
    BY <2>2, <2>3
<1>4. CASE BaselineCaptured
  <2>1. PICK s \in _observe, source \in Sources : baseline' = BaselineRow(s, source)
    BY <1>4 DEF BaselineCaptured
  <2>2. read \in Read /\ s \in Sample /\ read.started \in Nat
    BY <1>4, ObservedSample DEF BaselineCaptured, TypeOK, Read
  <2>3. action \in Action /\ profile_for_criteria(action.criteria) \in Versions
    BY <1>4, ProfileIsCriteria DEF BaselineCaptured, TypeOK, Action
  <2>4. baseline' \in Baseline
    BY <1>0, <2>1, <2>2, <2>3 DEF BaselineRow, Baseline
  <2>5. TypeOK'
    BY <1>4, <2>4 DEF BaselineCaptured, TypeOK
  <2>6. /\ pc = "measuring" /\ pc' = "executing" /\ read # None /\ read' = None
        /\ verification = None /\ UNCHANGED <<now, sample, current, action, verification>>
    BY <1>4 DEF BaselineCaptured, TypeOK
  <2>7. Newer(sample', baseline'.sample)
    BY <2>1, <2>6, ObservedSample DEF Measured, SamplesInOrder, Newer, BaselineRow
  <2>8. Measured'
    BY <1>0, <2>6, <2>7
    DEF Measured, ReadsThePast, SamplesInOrder, ReadsAfterSettling, RowsAgree, Verified
  <2>9. QED
    BY <2>5, <2>8
<1>5. CASE BaselineUnavailable
  <2>1. TypeOK'
    BY <1>5 DEF BaselineUnavailable, TypeOK
  <2>2. Measured'
    BY <1>0, <1>5
    DEF BaselineUnavailable, TypeOK, Measured, ReadsThePast, SamplesInOrder, Newer,
        ReadsAfterSettling, RowsAgree, Verified
  <2>3. QED
    BY <2>1, <2>2
<1>6. CASE ExecutorChecks
  <2>1. action \in Action /\ action' \in Action
    BY <1>6 DEF ExecutorChecks, TypeOK, Action
  <2>2. pc' \in {"dispatching", "done"} /\ pc = "executing" /\ verification = None
        /\ UNCHANGED <<now, sample, current, read, baseline, verification>>
    BY <1>6 DEF ExecutorChecks, TypeOK
  <2>3. QED
    BY <1>0, <2>1, <2>2
    DEF TypeOK, Measured, ReadsThePast, SamplesInOrder, Newer,
        ReadsAfterSettling, RowsAgree, Verified
<1>7. CASE RouteSuccess
  <2>1. action \in Action
    BY <1>7 DEF RouteSuccess, TypeOK
  <2>2. action' \in Action /\ action'.executed_at = now
    BY <1>0, <1>7, <2>1 DEF RouteSuccess, Action
  <2>3. TypeOK'
    BY <1>0, <1>7, <2>2 DEF RouteSuccess, TypeOK
  <2>4. Measured'
    BY <1>0, <1>7, <2>2
    DEF RouteSuccess, TypeOK, Measured, ReadsThePast, SamplesInOrder, Newer,
        ReadsAfterSettling, RowsAgree, Verified
  <2>5. QED
    BY <2>3, <2>4
<1>8. QED
  BY <1>1, <1>2, <1>3, <1>4, <1>5, <1>6, <1>7

-----------------------------------------------------------------------------
\* The verifier asks for a read after the settling period, while the baseline stands.
LEMMA AsksStep == TypeOK /\ Measured /\ VerifierAsks => TypeOK' /\ Measured'
<1> SUFFICES ASSUME TypeOK, Measured, VerifierAsks PROVE TypeOK' /\ Measured'
  OBVIOUS
<1>1. /\ now \in Nat /\ sample \in Sample /\ sample.at =< now
      /\ action.executed_at \in Nat /\ now >= action.executed_at + Settling
      /\ Settling \in Nat
  BY LineageAssumption DEF VerifierAsks, Settled, TypeOK, Measured, ReadsThePast
<1>2. read' \in Read /\ read'.started = now /\ read'.sample = sample
  BY <1>1 DEF VerifierAsks, Ask, Read
<1>3. UNCHANGED <<now, sample, current, action, baseline, verification>>
      /\ pc = "settling" /\ pc' = "verifying" /\ BaselineStands
  BY DEF VerifierAsks
<1>4. TypeOK'
  BY <1>2, <1>3 DEF TypeOK
<1>5. BaselineStands'
  BY <1>3 DEF BaselineStands, trusted_baseline_record
<1>6. ReadsThePast' /\ SamplesInOrder' /\ ReadsAfterSettling'
  BY <1>1, <1>2, <1>3, <1>5 DEF Measured, ReadsThePast, SamplesInOrder, Newer, ReadsAfterSettling
<1>7. RowsAgree'
  BY <1>3 DEF TypeOK, RowsAgree, Verified
<1>8. QED
  BY <1>4, <1>6, <1>7 DEF Measured

\* The verdict is computed from the read and the baseline that still stands.
LEMMA EvaluateStep == TypeOK /\ Measured /\ _evaluate => TypeOK' /\ Measured'
<1> SUFFICES ASSUME TypeOK, Measured, _evaluate PROVE TypeOK' /\ Measured'
  OBVIOUS
<1>1. PICK s \in _observe, source \in Sources :
         Judge(Verification(IF Healthy(s) /\ Improved(s) THEN "verified" ELSE "not_verified",
                            s, source))
  BY DEF _evaluate
<1> DEFINE verdict == IF Healthy(s) /\ Improved(s) THEN "verified" ELSE "not_verified"
<1>2. /\ pc = "verifying" /\ now \in Nat /\ action \in Action /\ baseline \in Baseline
      /\ read \in Read /\ action.executed_at \in Nat /\ Window \in Nat
  BY LineageAssumption DEF _evaluate, TypeOK
<1>3. /\ s = read.sample /\ s \in Sample /\ s.at \in Nat /\ read.started \in Nat
      /\ s.at >= read.started - Window
  BY <1>2, ObservedSample DEF Read, Sample
<1>4. verification' = Verification(verdict, s, source)
  BY <1>1 DEF Judge
<1>5. /\ verification' \in Judgement /\ verification'.verdict = verdict
      /\ verification'.sample = s /\ verification'.started = read.started
      /\ verification'.completed = now /\ verification'.verified_at = now
      /\ verification'.window_start = now - Window /\ verification'.window_end = now
  <2>1. verdict \in {"verified", "not_verified"} /\ now - Window \in Int
    BY <1>2
  <2> HIDE DEF verdict
  <2>2. QED
    BY <1>2, <1>3, <1>4, <2>1 DEF Verification, Judgement
<1>6. /\ action' = [action EXCEPT !.status = verdict] /\ read' = None /\ pc' = "done"
      /\ UNCHANGED <<now, sample, current, baseline>>
  BY <1>1 DEF Judge, Verification
<1>7. /\ action' \in Action /\ action'.status = verdict
      /\ action'.executed_at = action.executed_at /\ action'.criteria = action.criteria
  BY <1>2, <1>6 DEF Action
<1>8. TypeOK'
  BY <1>6, <1>7 DEF TypeOK
<1>9. ReadsThePast' /\ SamplesInOrder' /\ ReadsAfterSettling'
  BY <1>6 DEF Measured, ReadsThePast, SamplesInOrder, ReadsAfterSettling
<1>10. RowsAgree'
  <2> SUFFICES ASSUME Verified' PROVE RowsAgree'
    BY DEF RowsAgree
  <2>1. Healthy(s) /\ Improved(s) /\ verdict = "verified"
    BY <1>5 DEF Verified
  <2> HIDE DEF verdict
  <2>2. Healthy(verification.sample)' /\ Improved(verification.sample)'
    BY <1>5, <1>6, <2>1 DEF Healthy, Improved
  <2>3. trusted_baseline_record(action.executed_at, now)'
    BY <1>2, <1>6, <1>7
    DEF Measured, ReadsAfterSettling, BaselineStands, trusted_baseline_record
  <2>4. trusted_baseline_record(action.executed_at, verification.verified_at)'
    BY <1>5, <1>6, <2>3 DEF trusted_baseline_record
  <2>5. read.sample.at =< read.started /\ read.started =< now
    BY <1>2 DEF Measured, ReadsThePast
  <2>6. read.started >= action.executed_at + Settling
    BY <1>2 DEF Measured, ReadsAfterSettling
  <2>7. baseline.sample.at < s.at
    <3>1. Newer(s, baseline.sample) /\ s.value < baseline.sample.value
      BY <1>2, <1>3, <2>1 DEF Measured, SamplesInOrder, Improved
    <3>2. s.value \in Int /\ s.at \in Nat /\ baseline.sample.at \in Nat
      BY <1>2, <1>3, LineageAssumption DEF Sample, Baseline
    <3>3. QED
      BY <3>1, <3>2 DEF Newer
  <2>8. QED
    BY <1>2, <1>3, <1>5, <1>6, <1>7, <2>1, <2>2, <2>4, <2>5, <2>6, <2>7 DEF RowsAgree, Healthy
<1>11. QED
  BY <1>8, <1>9, <1>10 DEF Measured

\* Without a usable sample the verdict is inconclusive.
LEMMA InconclusiveStep == TypeOK /\ Measured /\ Inconclusive => TypeOK' /\ Measured'
<1> SUFFICES ASSUME TypeOK, Measured, Inconclusive PROVE TypeOK' /\ Measured'
  OBVIOUS
<1>1. /\ action \in Action /\ action' = [action EXCEPT !.status = "inconclusive"]
      /\ verification'.verdict = "inconclusive" /\ read' = None /\ pc' = "done"
      /\ UNCHANGED <<now, sample, current, baseline>>
  BY DEF Inconclusive, Judge, TypeOK
<1>2. action' \in Action
  BY <1>1 DEF Action
<1>3. TypeOK'
  BY <1>1, <1>2 DEF TypeOK
<1>4. Measured'
  BY <1>1 DEF Measured, ReadsThePast, SamplesInOrder, Newer,
        ReadsAfterSettling, RowsAgree, Verified
<1>5. QED
  BY <1>3, <1>4

\* A pass dies and its read is forgotten.
LEMMA CrashStep == TypeOK /\ Measured /\ Crash => TypeOK' /\ Measured'
<1> SUFFICES ASSUME TypeOK, Measured, Crash PROVE TypeOK' /\ Measured'
  OBVIOUS
<1>1. pc # "done" /\ verification = None
  BY DEF Crash, TypeOK
<1>2. TypeOK'
  BY <1>1 DEF Crash, TypeOK
<1>3. Measured'
  BY <1>1 DEF Crash, Measured, ReadsThePast, SamplesInOrder, Newer,
        ReadsAfterSettling, RowsAgree, Verified
<1>4. QED
  BY <1>2, <1>3

\* Every step of the run, its reads and the clock keeps the invariant.
LEMMA MeasuredNext == TypeOK /\ Measured /\ [Next]_vars => TypeOK' /\ Measured'
<1> SUFFICES ASSUME TypeOK, Measured, [Next]_vars PROVE TypeOK' /\ Measured'
  OBVIOUS
<1>1. CASE UNCHANGED vars
  <2>1. TypeOK'
    BY <1>1 DEF vars, TypeOK
  <2>2. Measured'
    BY <1>1 DEF vars, Measured, ReadsThePast, SamplesInOrder, Newer,
        ReadsAfterSettling, RowsAgree, Verified,
                BaselineStands, trusted_baseline_record, Healthy, Improved
  <2>3. QED
    BY <2>1, <2>2
<1>2. QED
  BY <1>1, TickStep, EarlyStep, AsksStep, EvaluateStep, InconclusiveStep, CrashStep DEF Next

\* What was read is of the past, read after settling, and agrees with the stored rows.
THEOREM MeasuredInductive == Spec => [](TypeOK /\ Measured)
BY MeasuredInit, MeasuredNext, PTL DEF Spec

\* A verdict "verified" rests on a baseline of the permitted age and on a lower, healthy and
\* newer sample that was read after the settling period and was at most a window old when
\* it was asked for, whatever the profile.
THEOREM VerifiedRestsOnMeasurementHolds == Spec => []VerifiedRestsOnMeasurement
<1>1. TypeOK /\ Measured => VerifiedRestsOnMeasurement
  <2> SUFFICES ASSUME TypeOK, Measured, Verified PROVE VerifiedRestsOnMeasurement
    BY DEF VerifiedRestsOnMeasurement
  <2>1. /\ verification \in Judgement /\ baseline \in Baseline
        /\ action.executed_at \in Nat
        /\ trusted_baseline_record(action.executed_at, verification.verified_at)
        /\ Healthy(verification.sample) /\ Improved(verification.sample)
        /\ verification.started >= action.executed_at + Settling
        /\ verification.sample.at >= verification.started - Window
        /\ verification.sample.at =< verification.started
        /\ baseline.sample.at < verification.sample.at
    BY DEF Measured, RowsAgree
  <2>2. /\ verification.started \in Nat /\ verification.sample \in Sample
        /\ baseline.sample \in Sample /\ baseline.captured_at \in Nat
    BY <2>1 DEF Judgement, Baseline
  <2>3. verification.sample.at \in Nat /\ baseline.sample.at \in Nat
    BY <2>2 DEF Sample
  <2>4. /\ baseline.sample.at =< action.executed_at
        /\ baseline.captured_at =< action.executed_at
        /\ action.executed_at - baseline.sample.at =< MaxBaselineAge
    BY <2>1, <2>2, <2>3 DEF trusted_baseline_record
  <2>5. verification.started - verification.sample.at \in 0..Window
    BY <2>1, <2>2, <2>3, LineageAssumption
  <2>6. QED
    BY <2>1, <2>4, <2>5 DEF VerifiedRestsOnMeasurement, Healthy, Improved
<1>2. QED
  BY <1>1, MeasuredInductive, PTL

\* The audit refuses a verified action for its sample's age or its source alone.
THEOREM RefusedOnlyForAgeOrSourceHolds == Spec => []RefusedOnlyForAgeOrSource
<1>1. TypeOK /\ Measured => RefusedOnlyForAgeOrSource
  <2> SUFFICES ASSUME TypeOK, Measured, Verified,
                      ~(verification.sample.at < verification.window_start),
                      verification.source \in Approved[action.criteria]
               PROVE  trusted_verified_outcome
    BY DEF RefusedOnlyForAgeOrSource
  <2>1. /\ verification \in Judgement /\ baseline \in Baseline /\ action \in Action
        /\ action.executed_at \in Nat /\ action.status = "verified"
        /\ trusted_baseline_record(action.executed_at, verification.verified_at)
        /\ Healthy(verification.sample) /\ Improved(verification.sample)
        /\ verification.started >= action.executed_at + Settling
        /\ verification.sample.at =< verification.started
        /\ verification.started =< verification.completed
        /\ verification.completed = verification.verified_at
        /\ verification.window_end = verification.verified_at
        /\ verification.window_start = verification.verified_at - Window
    BY DEF Measured, RowsAgree
  <2>2. action.criteria \in Versions
    BY <2>1 DEF Action
  <2>3. profile_for_criteria(action.criteria) = action.criteria
    BY <2>2, ProfileIsCriteria
  <2>4. HasLineage(verification)
    <3>1. DOMAIN verification = {"verdict", "sample", "source", "started", "completed",
                                 "window_start", "window_end", "verified_at"}
      BY <2>1 DEF Judgement
    <3>2. QED
      BY <3>1 DEF HasLineage
  <2>5. /\ verification.started \in Nat /\ verification.verified_at \in Nat
        /\ verification.sample \in Sample /\ verification.window_start \in Int
    BY <2>1 DEF Judgement
  <2>6. verification.sample.at \in Nat
    BY <2>5 DEF Sample
  <2>7. /\ action.executed_at =< verification.started
        /\ verification.window_start =< verification.sample.at
        /\ verification.sample.at =< verification.window_end
        /\ verification.verified_at - verification.sample.at =< Window
    BY <2>1, <2>5, <2>6, LineageAssumption
  <2>8. QED
    BY <2>1, <2>3, <2>4, <2>5, <2>7 DEF trusted_verified_outcome
<1>2. QED
  BY <1>1, MeasuredInductive, PTL
=============================================================================
