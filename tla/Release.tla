------------------------------ MODULE Release ------------------------------
(***************************************************************************)
(* run_deployment: migrate, roll out, probe.  The migration is a           *)
(* Kubernetes Job with a fixed name, so a deployment first frees the name  *)
(* its predecessor left taken, waits until no pod of any earlier Job still *)
(* runs, creates its own Job and believes only that one.  Meanwhile the    *)
(* Job controller, the garbage collector and operators act on the same     *)
(* objects, and the machine that runs the deployment may die.              *)
(*                                                                         *)
(* A Job's UID is the deployment that created it; Prior is the one that    *)
(* was there before.  Every polling loop ends at its deadline, which is a  *)
(* choice the model may take at any time.                                  *)
(***************************************************************************)
EXTENDS Naturals, FiniteSets

CONSTANTS
    Deployments,    \* deployments that may be started
    Prior,          \* the UID of the Job found at the beginning
    Nothing

UIDs == Deployments \cup {Prior}
Jobs == [uid : UIDs, state : {"active", "complete", "failed"}, deleting : BOOLEAN]

ASSUME ReleaseAssumption == Prior \notin Deployments /\ Nothing \notin UIDs \cup Jobs

VARIABLES
    serialized,     \* deployments go one at a time, through the workflow's group
    step,           \* deployment -> where it stands
    awaited,        \* deployment -> the UID whose deletion it waits for
    job,            \* the object named asic-migration: [uid, state, deleting], or Nothing
    pods,           \* UID -> phase of the Job's pod
    migrated,       \* UIDs whose pod ran the migration to its end
    app,            \* the release whose manifests were applied last
    rolledOut,      \* its Deployments are available
    slipped         \* a Job vanished over its running pod after a deployment had found no pod

releaseVars == <<serialized, step, awaited, job, pods, migrated, app, rolledOut, slipped>>
deployer == <<serialized, step, awaited>>
cluster == <<job, pods, migrated, app, rolledOut, slipped>>

Ended == {"succeeded", "failed", "died"}
Steps == {"unstarted", "validating", "inspecting", "removing", "draining", "slot_free", "creating",
          "watching", "registering", "rolling", "smoking"} \cup Ended
Underway(d) == step[d] \notin {"unstarted"} \cup Ended

Job(uid, state) == [uid |-> uid, state |-> state, deleting |-> FALSE]
Terminal(j) == j.state \in {"complete", "failed"}

\* A pod in a terminal phase runs nothing; one that is being stopped still may.
RunningPods == {u \in UIDs : pods[u] = "running"}

ReleaseInit ==
    /\ serialized \in BOOLEAN
    /\ step = [d \in Deployments |-> "unstarted"]
    /\ awaited = [d \in Deployments |-> Nothing]
    /\ \/ /\ job = Nothing
          /\ \E p \in {"none", "running", "succeeded", "failed"} :
                pods = [u \in UIDs |-> IF u = Prior THEN p ELSE "none"]
       \/ /\ job \in {Job(Prior, s) : s \in {"active", "complete", "failed"}}
          /\ pods = [u \in UIDs |-> IF u # Prior THEN "none"
                                    ELSE CASE job.state = "active" -> "running"
                                           [] job.state = "complete" -> "succeeded"
                                           [] OTHER -> "failed"]
    /\ migrated = {u \in UIDs : pods[u] = "succeeded"}
    /\ app = Nothing /\ rolledOut = FALSE /\ slipped = FALSE

Go(d, s) == step' = [step EXCEPT ![d] = s]
Stop(d) == Go(d, "failed") /\ UNCHANGED <<serialized, awaited, cluster>>

(***************************************************************************)
(* The deployment.                                                         *)
(***************************************************************************)
Start(d) ==
    /\ step[d] = "unstarted"
    /\ serialized => ~\E e \in Deployments : Underway(e)
    /\ Go(d, "validating")
    /\ UNCHANGED <<serialized, awaited, cluster>>

\* Server-side dry runs of everything but the Job.
Validate(d) ==
    /\ step[d] = "validating"
    /\ Go(d, "inspecting")
    /\ UNCHANGED <<serialized, awaited, cluster>>

\* clear_previous_migration reads the Job and makes up its mind.
Inspect(d) ==
    /\ step[d] = "inspecting"
    /\ Go(d, CASE job = Nothing -> "slot_free"
               [] job # Nothing /\ Terminal(job) -> "removing"
               [] job # Nothing /\ ~Terminal(job) /\ job.deleting -> "draining"
               [] OTHER -> "failed")
    /\ awaited' = [awaited EXCEPT ![d] = IF job = Nothing THEN Nothing ELSE job.uid]
    /\ UNCHANGED <<serialized, cluster>>

\* kubectl delete job names the object and not its UID.
Delete(d) ==
    /\ step[d] = "removing"
    /\ IF job = Nothing THEN Go(d, "failed") /\ UNCHANGED job
       ELSE Go(d, "draining") /\ job' = [job EXCEPT !.deleting = TRUE]
    /\ UNCHANGED <<serialized, awaited, pods, migrated, app, rolledOut, slipped>>

AwaitSlot(d) ==
    /\ step[d] = "draining"
    /\ \/ job = Nothing /\ Go(d, "slot_free")
       \/ job # Nothing /\ job.uid # awaited[d] /\ Go(d, "failed")
    /\ UNCHANGED <<serialized, awaited, cluster>>

\* Mutant: the Job being gone is enough.
PodsStopped_Assumed == TRUE

\* wait_for_migration_pods: of any previous Job, whether or not it still exists.
PodsStopped == RunningPods = {}

AwaitPods(d) ==
    /\ step[d] = "slot_free" /\ PodsStopped
    /\ Go(d, "creating")
    /\ UNCHANGED <<serialized, awaited, cluster>>

\* Create, never adopt.  The answer may be lost although the Job was created.
Create(d) ==
    /\ step[d] = "creating"
    /\ \/ job # Nothing /\ Go(d, "failed") /\ UNCHANGED job
       \/ /\ job = Nothing
          /\ job' = Job(d, "active")
          /\ Go(d, "watching") \/ Go(d, "failed")
    /\ UNCHANGED <<serialized, awaited, pods, migrated, app, rolledOut, slipped>>

\* Mutant: whatever Job bears the name now answers for this release.
Outcome_ByName(d) ==
    IF job # Nothing /\ Terminal(job) THEN job.state ELSE "running"

\* wait_for_job: what this deployment's own Job has come to.
Outcome(d) ==
    IF job = Nothing THEN "disappeared"
    ELSE IF job.uid # d THEN "replaced"
    ELSE IF Terminal(job) THEN job.state
    ELSE IF job.deleting THEN "disappeared" ELSE "running"

Watch(d) ==
    /\ step[d] = "watching" /\ Outcome(d) # "running"
    /\ Go(d, IF Outcome(d) = "complete" THEN "registering" ELSE "failed")
    /\ UNCHANGED <<serialized, awaited, cluster>>

\* after_migration, then the application's manifests; an apply that fails may
\* have got half-way.
Apply(d) ==
    /\ step[d] = "registering"
    /\ app' = d /\ rolledOut' = FALSE
    /\ Go(d, "rolling") \/ Go(d, "failed")
    /\ UNCHANGED <<serialized, awaited, job, pods, migrated, slipped>>

RolloutDone(d) ==
    /\ step[d] = "rolling" /\ rolledOut
    /\ Go(d, "smoking")
    /\ UNCHANGED <<serialized, awaited, cluster>>

\* Every service answers as expected in one attempt, through one fresh forward.
post_rollout_smoke(d) ==
    /\ step[d] = "smoking" /\ rolledOut
    /\ Go(d, "succeeded")
    /\ UNCHANGED <<serialized, awaited, cluster>>

\* A kubectl call that must succeed does not, or is cut off.
KubectlFails(d) ==
    /\ step[d] \in {"validating", "inspecting", "removing", "creating", "registering", "rolling"}
    /\ Stop(d)

\* The polling loops, each of which has a deadline.
Polling == {"draining", "slot_free", "watching", "rolling", "smoking"}

Deadline(d) == step[d] \in Polling /\ Stop(d)

Die(d) ==
    /\ Underway(d)
    /\ Go(d, "died")
    /\ UNCHANGED <<serialized, awaited, cluster>>

(***************************************************************************)
(* The cluster.  A Job has one pod, which is not replaced.                 *)
(***************************************************************************)
PodStarts ==
    /\ job # Nothing /\ job.state = "active" /\ ~job.deleting /\ pods[job.uid] = "none"
    /\ pods' = [pods EXCEPT ![job.uid] = "running"]
    /\ UNCHANGED <<deployer, job, migrated, app, rolledOut, slipped>>

\* A pod that has been told to stop may still finish its migration.
PodEnds(u) ==
    /\ pods[u] = "running"
    /\ \/ pods' = [pods EXCEPT ![u] = "succeeded"] /\ migrated' = migrated \cup {u}
       \/ pods' = [pods EXCEPT ![u] = "failed"] /\ UNCHANGED migrated
    /\ UNCHANGED <<deployer, job, app, rolledOut, slipped>>

\* The deadline of the Job fails it before its pod has stopped.
JobSettles ==
    /\ job # Nothing /\ job.state = "active"
    /\ \/ pods[job.uid] = "succeeded" /\ job' = [job EXCEPT !.state = "complete"]
       \/ pods[job.uid] \in {"running", "failed"} /\ job' = [job EXCEPT !.state = "failed"]
    /\ UNCHANGED <<deployer, pods, migrated, app, rolledOut, slipped>>

\* A foreground deletion ends once the pod has stopped.
Collect ==
    /\ job # Nothing /\ job.deleting /\ pods[job.uid] # "running"
    /\ job' = Nothing
    /\ UNCHANGED <<deployer, pods, migrated, app, rolledOut, slipped>>

\* Background propagation, by the time to live of a finished Job or by an
\* operator: the object goes at once and its pod is only told to stop.
DeleteInBackground ==
    /\ job # Nothing
    /\ job' = Nothing
    /\ slipped' = (slipped \/ (pods[job.uid] = "running" /\ \E d \in Deployments : step[d] = "creating"))
    /\ UNCHANGED <<deployer, pods, migrated, app, rolledOut>>

OperatorDeletes ==
    /\ job # Nothing /\ ~job.deleting
    /\ job' = [job EXCEPT !.deleting = TRUE]
    /\ UNCHANGED <<deployer, pods, migrated, app, rolledOut, slipped>>

Converge ==
    /\ app # Nothing /\ rolledOut' = ~rolledOut
    /\ UNCHANGED <<deployer, job, pods, migrated, app, slipped>>

Deploy(d) ==
    \/ Validate(d) \/ Inspect(d) \/ Delete(d) \/ AwaitSlot(d) \/ AwaitPods(d) \/ Create(d)
    \/ Watch(d) \/ Apply(d) \/ RolloutDone(d) \/ post_rollout_smoke(d)
    \/ KubectlFails(d) \/ Deadline(d)

ReleaseNext ==
    \/ \E d \in Deployments : Start(d) \/ Deploy(d) \/ Die(d)
    \/ \E u \in UIDs : PodEnds(u)
    \/ PodStarts \/ JobSettles \/ Collect \/ DeleteInBackground \/ OperatorDeletes \/ Converge

ReleaseSpec == ReleaseInit /\ [][ReleaseNext]_releaseVars

ReleaseTypeOK ==
    /\ serialized \in BOOLEAN
    /\ step \in [Deployments -> Steps]
    /\ awaited \in [Deployments -> UIDs \cup {Nothing}]
    /\ job \in Jobs \cup {Nothing}
    /\ pods \in [UIDs -> {"none", "running", "succeeded", "failed"}]
    /\ migrated \in SUBSET UIDs
    /\ app \in Deployments \cup {Nothing}
    /\ rolledOut \in BOOLEAN
    /\ slipped \in BOOLEAN

(***************************************************************************)
(* Properties.                                                             *)
(***************************************************************************)

\* Deployments that go through the workflow's group never run two migrations
\* against the database at once, whoever deletes the Job, however it is deleted
\* and whatever an interrupted deployment left behind (clear_previous_migration,
\* wait_for_migration_pods, kubectl create).  Deployments that overlap keep to
\* this too, with one exception: between one's look at the pods and its create,
\* the Job of another is removed in the background over its running pod.
OneMigration == serialized \/ ~slipped => Cardinality(RunningPods) <= 1

\* A release is applied only after its own migration has run to its end: not
\* that of a predecessor, and not one whose Job was deleted or replaced
\* (wait_for_job, the migration-success guard of run_deployment).
AppliedOnOwnMigration == app # Nothing => app \in migrated

(***************************************************************************)
(* What makes them inductive.                                              *)
(***************************************************************************)

\* Through the workflow's group one deployment acts, and it creates its Job over
\* an empty slot, so no Job can vanish between its look at the pods and its create.
GroupDiscipline ==
    serialized =>
        /\ \A d, e \in Deployments : Underway(d) /\ Underway(e) => d = e
        /\ \A d \in Deployments : step[d] \in {"slot_free", "creating"} => job = Nothing
        /\ ~slipped

\* Unless a Job slipped away, a deployment about to create one knows every pod
\* there is by the Job that holds the name, and a Job whose pod is to come is alone.
SlotDiscipline ==
    ~slipped =>
        /\ \A d \in Deployments : step[d] = "creating" =>
              \A u \in RunningPods : job # Nothing /\ job.uid = u
        /\ job # Nothing /\ pods[job.uid] = "none" => RunningPods = {}
        /\ \A u, v \in RunningPods : u = v

\* A complete Job's pod, and the pod a deployment believed, ran the migration to its end.
CompletionIsReal ==
    /\ \A u \in UIDs : pods[u] = "succeeded" => u \in migrated
    /\ job # Nothing /\ job.state = "complete" => job.uid \in migrated
    /\ \A d \in Deployments : step[d] = "registering" => d \in migrated

============================================================================
