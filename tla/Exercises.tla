------------------------------ MODULE Exercises ------------------------------
(***************************************************************************)
(* labctl exercise and labctl e2e: internal/lab/exercise.go and e2e.go     *)
(* with the evidence of evidence.go, the waits of cluster.go and the       *)
(* cleanup of benchmark.go.                                                *)
(*                                                                         *)
(* A command runs one scenario, or the three of e2e in turn: it creates an *)
(* AIJob and watches it, or the controller, do what the scenario is about, *)
(* collects evidence and deletes the AIJob.  The cluster acts between any  *)
(* two calls; from some moment on any call may fail, be late, or take      *)
(* effect although its response is lost; the user may interrupt.  The      *)
(* objects of an AIJob form a chain of owners that the garbage collector   *)
(* takes down one by one.  Lists taken by one Discover are taken in a step.*)
(***************************************************************************)
EXTENDS Integers, Sequences, FiniteSets

CONSTANTS
    RunCount,   \* scenarios of a command, at most
    Setups      \* what labctl may be asked to do, and the cluster it may find

Runs == 1..RunCount

\* e2e: is it labctl e2e or labctl exercise?  quota: GPUs the ClusterQueue
\* admits.  lingering: is a replaced controller Pod still terminating?
\* faults: the phases of a run in which calls may fail.
ASSUME ExercisesAssumption ==
    /\ RunCount \in Nat \ {0}
    /\ \A s \in Setups :
          /\ s.e2e \in BOOLEAN /\ s.lingering \in BOOLEAN /\ s.quota \in Nat
          /\ s.faults \subseteq {"scenario", "afterwards"}
          /\ Len(s.scenarios) \in Runs
          /\ \A i \in 1..Len(s.scenarios) :
                s.scenarios[i] \in IF s.e2e THEN {"success", "failure", "restart"}
                                            ELSE {"capacity", "failure", "restart"}

Replicas == 0..2   \* the controller Pod found, its replacement, one lingering

Kinds == {"JobSet", "Workload", "Job", "Pods"}

Owned(kind) == CASE kind = "JobSet" -> {"Workload", "Job"}
                 [] kind = "Job"    -> {"Pods"}
                 [] OTHER           -> {}

VARIABLES
    setup,       \* member of Setups; it stays
    aijobs,      \* runs whose AIJob exists
    live,        \* objects of each run whose owner exists
    garbage,     \* objects of each run whose owner is gone
    progress,    \* how far the JobSet of each run has come
    outcome,     \* how its worker Pods ended
    reported,    \* lifecycle condition of the AIJob
    controller,  \* phase of each controller Pod
    cache,       \* the AIJobs in the informer cache of each controller
    pc, run,
    observed,    \* the observations of the scenario so far
    listed,      \* controller Pods labctl has listed
    seen,        \* kinds of objects in the snapshot of the evidence
    missing,     \* does the manifest name something missing?
    runErr,      \* error of the scenario or its evidence
    bundle,      \* the manifest; what it lists matters when it is complete
    failed,      \* does labctl exit with an error?
    excuses,     \* timing that no failing call is to blame for (history)
    disturbed,   \* run in which a call failed, was late, or a worker was killed, or 0
    signalled    \* has the user interrupted?

objects == <<live, garbage, progress, outcome>>
pods == <<controller, cache>>
cluster == <<setup, aijobs, objects, reported, pods>>
evidence == <<seen, missing, bundle>>
faults == <<disturbed, signalled>>
runner == <<pc, run, observed, listed, evidence, runErr, failed, excuses, faults>>
vars == <<cluster, runner>>

-----------------------------------------------------------------------------
(* The scenarios. *)

IsE2E == setup.e2e
Scenarios == setup.scenarios

Kind(r) == IF r <= Len(Scenarios) THEN Scenarios[r] ELSE "none"

\* GPUs of one Pod; no Node has more than NodeGPUs.
GPUs(r) == IF Kind(r) = "capacity" THEN 13 ELSE 1

NodeGPUs == 4

\* The AIJobs of a command never add up to the quota but for capacity's.
Fits(r) == GPUs(r) <= setup.quota

\* The condition that a scenario is about.
Proves(kind, condition) ==
    condition = IF kind = "failure" THEN "Failed" ELSE "Completed"

\* execute, runSuccess, runFailure, runRestartAndCleanup: their calls in order.
Path ==
    CASE Kind(run) = "capacity" -> <<"create", "diagnose">>
      [] Kind(run) = "restart"  ->
            <<"create", "scheduled", "count", "kill", "ready", "jobsets">>
            \o (IF IsE2E THEN <<"remove", "gone">> ELSE <<>>)
      [] OTHER -> <<"create", "await">> \o (IF IsE2E THEN <<"verify">> ELSE <<>>)

Steps == {"create", "diagnose", "scheduled", "count", "kill", "ready", "jobsets",
          "remove", "gone", "await", "verify"}

\* Variant: an interrupted command goes straight to its cleanup.
AfterScenarioUnlessSignalled(err) ==
    IF (err \/ ~IsE2E) /\ ~signalled THEN "resources" ELSE "delete"

\* An exercise always collects evidence, an E2E scenario only when it failed.
AfterScenario(err) == IF err \/ ~IsE2E THEN "resources" ELSE "delete"

ScenarioEnds(err) == pc' = AfterScenario(err) /\ runErr' = err

\* The scenario's next call, or its end without error.
Proceeds ==
    LET i == CHOOSE i \in 1..Len(Path) : Path[i] = pc IN
    IF i = Len(Path) THEN ScenarioEnds(FALSE)
                     ELSE pc' = Path[i + 1] /\ UNCHANGED runErr

\* Bound: what goes wrong goes wrong in one run, there as often as it likes, and
\* in the phases the setup names.
Disturbs ==
    /\ disturbed \in {0, run}
    /\ IF pc \in Steps THEN "scenario" \in setup.faults ELSE "afterwards" \in setup.faults
    /\ disturbed' = run

-----------------------------------------------------------------------------
(* The cluster.  Each AIJob's objects hang together by owner references.  *)

Existing(r) == live[r] \cup garbage[r]

Adds(r, kind) == live' = [live EXCEPT ![r] = @ \cup {kind}]

Active(c) == controller[c] \in {"ready", "terminating"}

\* Variant: a JobSet is created without an owner reference.
CreatesUnowned(r) == Adds(r, "JobSet") /\ UNCHANGED garbage

\* The owner of a JobSet created from a stale cache is already gone.
CreatesOwned(r) ==
    IF r \in aijobs
    THEN Adds(r, "JobSet") /\ UNCHANGED garbage
    ELSE garbage' = [garbage EXCEPT ![r] = @ \cup {"JobSet"}] /\ UNCHANGED live

\* Reconcile of an AIJob in the cache that has no JobSet.
ControllerCreates(c, r) ==
    /\ Active(c)
    /\ r \in cache[c]
    /\ "JobSet" \notin Existing(r)
    /\ CreatesOwned(r)
    /\ progress' = [progress EXCEPT ![r] = "waiting"]
    /\ outcome' = [outcome EXCEPT ![r] = "Unset"]
    /\ UNCHANGED <<runner, setup, aijobs, reported, pods>>

\* Variant: the condition is taken from the Pods, not from the JobSet.
ReportableEarly(r) == progress[r] \in {"exited", "jobEnded", "jobSetEnded"}

Reportable(r) == progress[r] = "jobSetEnded"

\* Reconcile of a JobSet that has finished: the AIJob takes over its condition.
\* The AIJob may be cached, the JobSet is read as it is stored.
ControllerReports(c, r) ==
    /\ Active(c)
    /\ r \in cache[c] \cap aijobs
    /\ "JobSet" \in live[r]
    /\ Reportable(r)
    /\ reported[r] # outcome[r]
    /\ reported' = [reported EXCEPT ![r] = outcome[r]]
    /\ UNCHANGED <<runner, setup, aijobs, objects, pods>>

\* Kueue and the JobSet, Job and scheduler controllers, one object at a time.
Moves(r, from, to) ==
    /\ progress[r] = from
    /\ progress' = [progress EXCEPT ![r] = to]

KueueQueues(r) ==
    /\ "JobSet" \in Existing(r)
    /\ "Workload" \notin Existing(r)
    /\ Adds(r, "Workload")
    /\ UNCHANGED <<progress, outcome>>

\* Bound: a JobSet recreated for a deleted AIJob is collected before admission.
KueueAdmits(r) ==
    /\ {"JobSet", "Workload"} \subseteq live[r]
    /\ Fits(r)
    /\ Moves(r, "waiting", "admitted")
    /\ UNCHANGED <<live, outcome>>

JobCreated(r) ==
    /\ progress[r] = "admitted"
    /\ "JobSet" \in Existing(r)
    /\ "Job" \notin Existing(r)
    /\ Adds(r, "Job")
    /\ UNCHANGED <<progress, outcome>>

PodsCreated(r) ==
    /\ "Job" \in live[r]
    /\ "Pods" \notin Existing(r)
    /\ Moves(r, "admitted", "pending")
    /\ Adds(r, "Pods")
    /\ UNCHANGED outcome

Schedules(r) ==
    /\ "Pods" \in live[r]
    /\ Moves(r, "pending", IF GPUs(r) > NodeGPUs THEN "unschedulable" ELSE "bound")
    /\ UNCHANGED <<live, outcome>>

\* Workers end as their arguments say; one in wait mode does not end.
WorkersEnd(r) ==
    /\ Kind(r) # "restart"
    /\ Moves(r, "bound", "exited")
    /\ outcome' = [outcome EXCEPT ![r] = IF Kind(r) = "failure" THEN "Failed" ELSE "Completed"]
    /\ UNCHANGED live

JobEnds(r) ==
    /\ "Job" \in live[r]
    /\ Moves(r, "exited", "jobEnded")
    /\ UNCHANGED <<live, outcome>>

JobSetEnds(r) ==
    /\ "JobSet" \in live[r]
    /\ Moves(r, "jobEnded", "jobSetEnded")
    /\ UNCHANGED <<live, outcome>>

Advances(r) ==
    /\ \/ KueueQueues(r)
       \/ KueueAdmits(r)
       \/ JobCreated(r)
       \/ PodsCreated(r)
       \/ Schedules(r)
       \/ WorkersEnd(r)
       \/ JobEnds(r)
       \/ JobSetEnds(r)
    /\ UNCHANGED <<runner, setup, aijobs, garbage, reported, pods>>

\* A worker is killed: its Pod fails whatever it was to do.
WorkerKilled(r) ==
    /\ Moves(r, "bound", "exited")
    /\ outcome' = [outcome EXCEPT ![r] = "Failed"]
    /\ Disturbs
    /\ UNCHANGED <<setup, aijobs, live, garbage, reported, pods, pc, run, observed,
                   listed, evidence, runErr, failed, excuses, signalled>>

\* The garbage collector removes one object; what it owned is garbage now.
Collects(r) ==
    /\ \E kind \in garbage[r] :
          /\ garbage' = [garbage EXCEPT ![r] = (@ \ {kind}) \cup (Owned(kind) \cap live[r])]
          /\ live' = [live EXCEPT ![r] = @ \ Owned(kind)]
    /\ UNCHANGED <<runner, setup, aijobs, progress, outcome, reported, pods>>

Deletes(rs) ==
    /\ aijobs' = aijobs \ rs
    /\ garbage' = [r \in Runs |-> IF r \in rs THEN garbage[r] \cup (live[r] \cap {"JobSet"})
                                              ELSE garbage[r]]
    /\ live' = [r \in Runs |-> IF r \in rs THEN live[r] \ {"JobSet"} ELSE live[r]]
    /\ reported' = [r \in Runs |-> IF r \in rs THEN "Unset" ELSE reported[r]]

\* The caches lag on their own.
Syncs(c) ==
    /\ Active(c)
    /\ cache[c] # aijobs
    /\ cache' = [cache EXCEPT ![c] = aijobs]
    /\ UNCHANGED <<runner, setup, aijobs, objects, reported, controller>>

\* The ReplicaSet replaces a Pod that is being deleted; without a readiness
\* probe it is Ready as soon as its container runs, before its caches are read.
ControllerMoves(c) ==
    /\ \/ /\ c = 1
          /\ controller[0] \in {"terminating", "gone"}
          /\ controller[c] = "gone"
          /\ controller' = [controller EXCEPT ![c] = "starting"]
       \/ /\ controller[c] = "starting"
          /\ controller' = [controller EXCEPT ![c] = "ready"]
       \/ /\ controller[c] = "terminating"
          /\ controller' = [controller EXCEPT ![c] = "gone"]
    /\ cache' = [cache EXCEPT ![c] = {}]
    /\ UNCHANGED <<runner, setup, aijobs, objects, reported>>

Reconciles(r) == \E c \in Replicas : ControllerCreates(c, r) \/ ControllerReports(c, r)

Cluster ==
    \/ \E r \in Runs : Reconciles(r) \/ Advances(r) \/ WorkerKilled(r) \/ Collects(r)
    \/ \E c \in Replicas : Syncs(c) \/ ControllerMoves(c)

-----------------------------------------------------------------------------
(* The scenario, under the context that a signal cancels.  *)

\* Discover finds a Workload through the name of its AIJob or JobSet.
Found(r) ==
    LET named == (IF r \in aijobs THEN {"AIJob"} ELSE {}) \cup (Existing(r) \cap {"JobSet"})
    IN named \cup (Existing(r) \ (IF named = {} THEN {"Workload"} ELSE {}))

Listed == {c \in Replicas : controller[c] # "gone"}

\* What the calls that write do to the cluster.
Effect ==
    \/ /\ pc = "create"
       /\ aijobs' = aijobs \cup {run}
       /\ UNCHANGED <<live, garbage, reported, controller>>
    \/ /\ pc = "kill"
       /\ controller' = [c \in Replicas |-> IF c \in listed /\ controller[c] # "gone"
                                            THEN "terminating" ELSE controller[c]]
       /\ UNCHANGED <<aijobs, live, garbage, reported>>
    \/ /\ pc = "remove"
       /\ Deletes({run})
       /\ UNCHANGED controller

ClusterRests == UNCHANGED <<setup, progress, outcome, cache>>
RunnerKeeps == UNCHANGED <<run, evidence, failed, faults>>

WriteCall ==
    /\ ~signalled
    /\ Effect
    /\ Proceeds
    /\ UNCHANGED <<observed, listed, excuses>>
    /\ ClusterRests
    /\ RunnerKeeps

\* Variant: a Workload alone is taken to wait at admission.
WaitsAtKueueWhateverPods == "Workload" \in Found(run) /\ progress[run] # "unschedulable"

\* Two polls at least three seconds apart saw the Workload, the last no Pod.
WaitsAtKueue == "Workload" \in Found(run) /\ "Pods" \notin Found(run)

\* The cluster is not done with admission and Pod creation.
Busy == (progress[run] = "waiting" /\ Fits(run)) \/ progress[run] = "admitted"

\* waitCapacityStage: an unschedulable Pod, else three seconds without any.
Diagnose ==
    /\ pc = "diagnose"
    /\ \/ /\ "Pods" \in Found(run) /\ progress[run] = "unschedulable"
          /\ observed' = {"at kube-scheduler"}
          /\ UNCHANGED excuses
       \/ /\ WaitsAtKueue
          /\ observed' = {"at Kueue"}
          /\ excuses' = IF Busy THEN excuses \cup {"slow"} ELSE excuses
    /\ Proceeds
    /\ UNCHANGED listed

\* WaitForAIJobCondition.
Await ==
    /\ pc = "await"
    /\ Proves(Kind(run), reported[run])
    /\ observed' = {"condition"}
    /\ Proceeds
    /\ UNCHANGED <<listed, excuses>>

\* verifyLifecycle: the whole chain exists and tells the same outcome.
Verify ==
    /\ pc = "verify"
    /\ IF Found(run) = Kinds \cup {"AIJob"} /\ progress[run] = "jobSetEnded"
             /\ Proves(Kind(run), reported[run]) /\ Proves(Kind(run), outcome[run])
       THEN Proceeds ELSE ScenarioEnds(TRUE)
    /\ UNCHANGED <<observed, listed, excuses>>

\* WaitForPodScheduled.
AwaitScheduled ==
    /\ pc = "scheduled"
    /\ "Pods" \in Existing(run)
    /\ progress[run] \notin {"waiting", "admitted", "pending"}
    /\ Proceeds
    /\ UNCHANGED <<observed, listed, excuses>>

\* replaceController wants to see one controller Pod, deleted ones included.
CountControllers ==
    /\ pc = "count"
    /\ listed' = Listed
    /\ IF Cardinality(Listed) = 1
       THEN Proceeds /\ UNCHANGED excuses
       ELSE ScenarioEnds(TRUE) /\ excuses' = excuses \cup {"crowded"}
    /\ UNCHANGED observed

\* Variant: the Pod it has just deleted will do.
ReplacementsAnyPod == {c \in Replicas : Active(c)}

\* A Ready Pod with another UID.
Replacements == {c \in Replicas \ listed : Active(c)}

AwaitReady ==
    /\ pc = "ready"
    /\ Replacements # {}
    /\ observed' = observed \cup {"replaced"}
    /\ Proceeds
    /\ UNCHANGED <<listed, excuses>>

CountJobSets ==
    /\ pc = "jobsets"
    /\ IF "JobSet" \in Existing(run)
       THEN Proceeds /\ observed' = observed \cup {"one JobSet"}
       ELSE ScenarioEnds(TRUE) /\ UNCHANGED observed
    /\ UNCHANGED <<listed, excuses>>

\* waitForDescendantsGone does not ask for the Workload.
AwaitGone ==
    /\ pc = "gone"
    /\ Found(run) \subseteq {"Workload"}
    /\ Proceeds
    /\ UNCHANGED <<observed, listed, excuses>>

Observation ==
    /\ ~signalled
    /\ \/ Diagnose
       \/ Await
       \/ Verify
       \/ AwaitScheduled
       \/ CountControllers
       \/ AwaitReady
       \/ CountJobSets
       \/ AwaitGone
    /\ UNCHANGED cluster
    /\ RunnerKeeps

\* A call fails or a wait times out: because the user interrupts, or disturbed.
\* What it was to write may have been written.
ScenarioFails ==
    /\ pc \in Steps
    /\ IF signalled THEN UNCHANGED disturbed ELSE Disturbs
    /\ ScenarioEnds(TRUE)
    /\ Effect \/ UNCHANGED <<aijobs, live, garbage, reported, controller>>
    /\ ClusterRests
    /\ UNCHANGED <<run, observed, listed, evidence, failed, excuses, signalled>>

-----------------------------------------------------------------------------
(* Collect, under a context of its own; all of it is tried.  *)

Reads(step, next) == pc = step /\ pc' = next

ReadResources ==
    /\ Reads("resources", "workers")
    /\ seen' = Found(run)
    /\ missing' = FALSE
    /\ UNCHANGED <<listed, excuses, disturbed>>

\* The logs of Pods that have gone since the snapshot are missing.
ReadWorkerLogs ==
    /\ Reads("workers", "controllers")
    /\ \E started \in BOOLEAN :
          missing' = (missing \/ (started /\ "Pods" \in seen \ Existing(run)))
    /\ UNCHANGED <<seen, listed, excuses, disturbed>>

ListControllers ==
    /\ Reads("controllers", "logs")
    /\ listed' = Listed
    /\ UNCHANGED <<seen, missing, excuses, disturbed>>

\* So are the component logs when one listed Pod has gone, or has not started.
ReadComponentLogs ==
    /\ Reads("logs", "manifest")
    /\ LET unreadable == \E c \in listed : ~Active(c) IN
          /\ missing' = (missing \/ unreadable)
          /\ excuses' = IF unreadable THEN excuses \cup {"vanished"} ELSE excuses
    /\ listed' = {}
    /\ UNCHANGED <<seen, disturbed>>

\* A read, or the file for it, fails, or a worker log ends in the middle of a
\* record; without a snapshot no worker is asked.
ReadFails ==
    /\ \/ Reads("resources", "controllers") /\ seen' = {}
       \/ /\ Reads("workers", "controllers") \/ Reads("controllers", "manifest")
             \/ Reads("logs", "manifest")
          /\ UNCHANGED seen
    /\ missing' = TRUE
    /\ Disturbs
    /\ UNCHANGED <<listed, excuses>>

Collect ==
    /\ \/ ReadResources
       \/ ReadWorkerLogs
       \/ ListControllers
       \/ ReadComponentLogs
    /\ UNCHANGED <<cluster, run, observed, runErr, bundle, failed, signalled>>

CollectFails ==
    /\ ReadFails
    /\ UNCHANGED <<cluster, run, observed, runErr, bundle, failed, signalled>>

\* E2E expects "scenario complete", which a failed scenario never observes.
ExpectedObserved ==
    /\ ~IsE2E
    /\ IF Kind(run) = "restart" THEN {"replaced", "one JobSet"} \subseteq observed
                                ELSE observed # {}

Bundle(state) == [state |-> state, seen |-> {}, observed |-> {}]

\* An incomplete bundle is an error, and so is a manifest not written.
WriteManifest ==
    /\ pc = "manifest"
    /\ LET complete == ~missing /\ ExpectedObserved IN
          \/ /\ bundle' = IF complete
                          THEN [state |-> "complete", seen |-> seen, observed |-> observed]
                          ELSE Bundle("incomplete")
             /\ runErr' = (runErr \/ ~complete)
             /\ UNCHANGED disturbed
          \/ /\ bundle' = Bundle("unwritten")
             /\ runErr' = TRUE
             /\ Disturbs
    /\ pc' = "delete"
    /\ UNCHANGED <<cluster, run, observed, listed, seen, missing, failed, excuses,
                   signalled>>

-----------------------------------------------------------------------------
(* cleanup, under a context of its own, and the next scenario.  *)

\* Variant: one scenario more.
AllRunOneMore == run > Len(Scenarios)

AllRun == run = Len(Scenarios)

EndRun(err) ==
    /\ failed' = (failed \/ err)
    /\ runErr' = FALSE
    /\ observed' = {}
    /\ listed' = {}
    /\ seen' = {}
    /\ missing' = FALSE
    /\ bundle' = Bundle("none")
    /\ excuses' = excuses \ {"slow"}
    /\ IF AllRun THEN pc' = "done" /\ UNCHANGED run
                 ELSE pc' = "create" /\ run' = run + 1
    /\ UNCHANGED signalled

CleanupDeletes ==
    /\ pc = "delete"
    /\ pc' = "cleaned"
    /\ Deletes({run} \cap aijobs)
    /\ ClusterRests
    /\ UNCHANGED <<controller, observed, listed, runErr, excuses>>
    /\ RunnerKeeps

CleanupAwaits ==
    /\ pc = "cleaned"
    /\ Found(run) = {}
    /\ EndRun(runErr)
    /\ UNCHANGED <<cluster, disturbed>>

\* The list or the deletion fails, or the wait does; there is no second attempt.
CleanupFails ==
    /\ \/ pc = "delete" /\ Deletes({run} \cap aijobs)
       \/ pc \in {"delete", "cleaned"} /\ UNCHANGED <<aijobs, live, garbage, reported>>
    /\ EndRun(TRUE)
    /\ Disturbs
    /\ ClusterRests
    /\ UNCHANGED controller

Interrupt ==
    /\ ~signalled
    /\ pc # "done"
    /\ signalled' = TRUE
    /\ UNCHANGED <<cluster, pc, run, observed, listed, evidence, runErr, failed,
                   excuses, disturbed>>

-----------------------------------------------------------------------------

\* A controller Pod of an earlier replacement may still be terminating.
Init ==
    /\ setup \in Setups
    /\ aijobs = {}
    /\ live = [r \in Runs |-> {}]
    /\ garbage = [r \in Runs |-> {}]
    /\ progress = [r \in Runs |-> "waiting"]
    /\ outcome = [r \in Runs |-> "Unset"]
    /\ reported = [r \in Runs |-> "Unset"]
    /\ controller = [c \in Replicas |->
                        CASE c = 0                    -> "ready"
                          [] c = 2 /\ setup.lingering -> "terminating"
                          [] OTHER                    -> "gone"]
    /\ cache = [c \in Replicas |-> {}]
    /\ pc = "create"
    /\ run = 1
    /\ observed = {}
    /\ listed = {}
    /\ seen = {}
    /\ missing = FALSE
    /\ runErr = FALSE
    /\ bundle = Bundle("none")
    /\ failed = FALSE
    /\ excuses = {}
    /\ disturbed = 0
    /\ signalled = FALSE

Works == WriteCall \/ Observation \/ Collect \/ WriteManifest \/ CleanupDeletes \/ CleanupAwaits
Fails == ScenarioFails \/ CollectFails \/ CleanupFails

Next == Cluster \/ Works \/ Fails \/ Interrupt

Spec == Init /\ [][Next]_vars

\* What labctl does when it has been interrupted or something has failed: every
\* wait and every call ends at its deadline if not before.
GivesUp == (signalled /\ ScenarioFails) \/ (disturbed = run /\ Fails)

\* labctl goes on, and so does every component of the cluster.
Fairness ==
    /\ WF_vars(Works)
    /\ WF_vars(GivesUp)
    /\ \A r \in Runs :
          /\ WF_vars(Reconciles(r))
          /\ WF_vars(Advances(r))
          /\ WF_vars(Collects(r))
    /\ \A c \in Replicas :
          /\ WF_vars(Syncs(c))
          /\ WF_vars(ControllerMoves(c))

FairSpec == Spec /\ Fairness

-----------------------------------------------------------------------------
(* Safety. *)

Observations == {"at kube-scheduler", "at Kueue", "condition", "replaced", "one JobSet"}
Bundles == [state : {"none", "unwritten", "incomplete", "complete"},
            seen : SUBSET (Kinds \cup {"AIJob"}), observed : SUBSET Observations]

TypeOK ==
    /\ setup \in Setups
    /\ aijobs \subseteq Runs
    /\ live \in [Runs -> SUBSET Kinds]
    /\ garbage \in [Runs -> SUBSET Kinds]
    /\ progress \in [Runs -> {"waiting", "admitted", "pending", "unschedulable", "bound",
                               "exited", "jobEnded", "jobSetEnded"}]
    /\ {outcome, reported} \subseteq [Runs -> {"Unset", "Completed", "Failed"}]
    /\ controller \in [Replicas -> {"gone", "starting", "ready", "terminating"}]
    /\ cache \in [Replicas -> SUBSET Runs]
    /\ pc \in Steps \cup {"resources", "workers", "controllers", "logs", "manifest",
                           "delete", "cleaned", "done"}
    /\ run \in 1..Len(Scenarios)
    /\ observed \subseteq Observations
    /\ listed \subseteq Replicas
    /\ seen \subseteq Kinds \cup {"AIJob"}
    /\ bundle \in Bundles
    /\ {missing, runErr, failed, signalled} \subseteq BOOLEAN
    /\ disturbed \in Runs \cup {0}
    /\ excuses \subseteq {"slow", "crowded", "vanished"}

Ended == pc = "done"

\* A scenario that ends without error has shown what it is about: the outcome
\* has gone through the whole chain of objects, or the controller Pod has been
\* replaced, although workers are killed and responses lost on the way
\* (WaitForAIJobCondition, verifyLifecycle, replaceController).
SuccessMeansShown ==
    pc = "delete" /\ ~runErr =>
        CASE Kind(run) \in {"success", "failure"} ->
                /\ Found(run) = Kinds \cup {"AIJob"}
                /\ progress[run] = "jobSetEnded"
                /\ Proves(Kind(run), outcome[run]) /\ reported[run] = outcome[run]
          [] Kind(run) = "restart" ->
                /\ controller[0] \in {"terminating", "gone"} /\ controller[1] = "ready"
                /\ IF IsE2E THEN run \notin aijobs ELSE "JobSet" \in live[run]
          [] OTHER -> observed # {}

Complete == bundle.state = "complete"

\* By the time the objects of a run are deleted its evidence is written, unless
\* its own manifest cannot be: a run that failed, timed out or was interrupted has
\* a bundle that says it is incomplete; an exercise without error has a complete
\* one, which shows the AIJob with its JobSet and Workload, and its Job and Pods
\* where Kueue admits it, as they were before the cleanup (Collect, both Runs).
EvidenceIsRecorded ==
    pc = "delete" =>
        /\ runErr => bundle.state \in {"incomplete", "unwritten"}
        /\ ~runErr /\ ~IsE2E =>
              /\ Complete
              /\ {"AIJob", "JobSet", "Workload"} \subseteq bundle.seen
              /\ "at Kueue" \in observed \/ bundle.seen = Kinds \cup {"AIJob"}

\* The capacity exercise tells the right stage when the cluster needs less than
\* three seconds for each of its steps: Kueue exactly when the quota is too small
\* for the AIJob (waitCapacityStage).
DiagnosisIsRight ==
    Complete /\ Kind(run) = "capacity" /\ "slow" \notin excuses
        => bundle.observed = {IF Fits(run) THEN "at kube-scheduler" ELSE "at Kueue"}

\* The AIJob of each run, as its user sees it.
Lifecycle(r) == INSTANCE AIJobLifecycle WITH
    Conditions <- {"Completed", "Failed"},
    Final      <- {"Completed", "Failed"},
    present    <- r \in aijobs,
    observed   <- reported[r] # "Unset",
    owned      <- r \in aijobs /\ "JobSet" \in live[r],
    ended      <- IF r \in aijobs /\ "JobSet" \in live[r] /\ progress[r] = "jobSetEnded"
                  THEN outcome[r] ELSE "Unset",
    condition  <- reported[r]

\* Whichever controller Pods reconcile, from whatever AIJobs they have cached, the
\* AIJob of a run says Completed or Failed only when the JobSet it controls has
\* ended so, although its Pods and its Job end before, and says it until it is
\* deleted (Reconcile, statusFromJobSet).
AIJobsFollow ==
    /\ \A r \in Runs : Lifecycle(r)!Init
    /\ [][ \A r \in Runs : [Lifecycle(r)!Next]_(Lifecycle(r)!lifecycleVars) ]_vars

-----------------------------------------------------------------------------
(* Liveness, under FairSpec. *)

\* Every command ends, and with success unless a call failed, the user
\* interrupted, or a controller Pod was still going when labctl counted the Pods
\* or after it had listed them for their logs (replaceController, ComponentLogs).
CommandEnds ==
    <>(Ended /\ (failed => disturbed # 0 \/ signalled \/ excuses \cap {"crowded", "vanished"} # {}))

\* After a command that succeeded, or was only interrupted, even while creating
\* an AIJob, nothing of its runs stays, although cleanup cannot see a Workload
\* whose JobSet is gone and a controller may recreate a JobSet from its cache
\* (cleanup under context.Background(), Discover).
NothingStays ==
    (Ended /\ (~failed \/ disturbed = 0)) ~> [](\A r \in Runs : Existing(r) = {})

=============================================================================
