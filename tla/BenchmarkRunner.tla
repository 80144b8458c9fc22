--------------------------- MODULE BenchmarkRunner ---------------------------
(***************************************************************************)
(* labctl benchmark: internal/lab/benchmark.go with the waits and the      *)
(* discovery of cluster.go and the checks of validate.go.                  *)
(*                                                                         *)
(* The runner switches the ai-scheduler to a profile, fills the Nodes with *)
(* holders, measures fragmentation, submits a probe, and in deferred steps *)
(* collects and writes the result and deletes the AIJobs of the run.  At   *)
(* the end it restores the Scheduler.  Every call can fail, be answered    *)
(* after its deadline, or take effect although its response is lost; the   *)
(* user can interrupt; the cluster acts between any two calls.             *)
(***************************************************************************)
EXTENDS Scheduling

CONSTANTS
    Repetitions,      \* runs per profile
    Others,           \* AIJobs other users may have: {} or {<<0, 1>>}
    MaxRecreated,     \* bound: JobSets recreated for an AIJob already deleted
    MaxDisturbances,  \* bound: failing or unanswered calls, deadlines reached,
                      \* restarts of the Scheduler container, signals to labctl
    None              \* no Node, no Scheduler, no file

ASSUME BenchmarkAssumption ==
    /\ Repetitions \in Nat \ {0}
    /\ Others \subseteq {<<0, 1>>}
    /\ MaxRecreated \in Nat
    /\ MaxDisturbances \in Nat

-----------------------------------------------------------------------------
(* What a run consists of. *)

Runs == 1..(2 * Repetitions)

Profile(r) == IF r <= Repetitions THEN "baseline" ELSE "optimized"
ProbeShouldFit(profile) == profile = "optimized"

Probe == 4
Own(r) == {<<r, i>> : i \in 1..4}
Workloads == Others \cup UNION {Own(r) : r \in Runs}
GPUs(w) == IF w[2] = Probe THEN 4 ELSE 2

\* The benchmark ClusterQueue admits 12 GPUs; other users have other queues.
Quota == 12

Configs == {"initial", "baseline", "optimized"}
StrategyOf(config) == CASE config = "initial"   -> "Default"
                        [] config = "baseline"  -> "LeastAllocated"
                        [] config = "optimized" -> "MostAllocated"

NoFragmentation == [target |-> 0, total |-> 0, usable |-> 0]

VARIABLES
    config,      \* data of the ai-scheduler-config ConfigMap
    deployment,  \* ai-scheduler Deployment: stamp, generation, observed
    scheduler,   \* generation and profile of the Scheduler that runs, or None
    aijobs,      \* the AIJobs that exist
    stale,       \* deleted AIJobs the controller's cache still holds
    stage,       \* JobSet and Pod of each workload
    node,        \* Node of each bound Pod
    completed,   \* AIJobs whose Completed condition is True
    pc,          \* next step of the runner
    run,         \* current run
    holder,      \* holder being submitted, in 1..3
    result,      \* the BenchmarkResult being built
    runErr,      \* error of runOne so far
    expired,     \* has the cleanup context reached its deadline?
    files,       \* result file of each run, or None
    unwritten,   \* runs whose result could not be written (history)
    failed,      \* has any run, or the restore, returned an error?
    restored,    \* did the restore return nil?
    shared,      \* runs during which Pods of others held GPUs (history)
    boundBy,     \* profile of the Scheduler that bound each Pod (history)
    restarted,   \* has the Scheduler container restarted on its own? (history)
    recreated,   \* JobSets recreated for a deleted AIJob so far
    disturbances, interrupted

profileVars == <<config, deployment, scheduler, restarted>>
jobVars == <<aijobs, stale, completed, recreated>>
podVars == <<stage, node, boundBy>>
cluster == <<profileVars, jobVars, podVars>>
progress == <<pc, run, holder>>
outcome == <<result, runErr, expired, files, unwritten, failed, restored>>
faults == <<disturbances, interrupted>>
runner == <<progress, outcome, faults>>
vars == <<cluster, runner, shared>>

\* The Pods of the given workloads, as FreeGPUs reads them.
PodsOf(ws) == {[name |-> w, gpus |-> GPUs(w), node |-> node[w],
                finished |-> stage[w] = "succeeded"] :
                  w \in {v \in ws : stage[v] \in {"running", "succeeded"}}}

FreeNow == FreeGPUs(PodsOf(Workloads))

-----------------------------------------------------------------------------
(* The cluster: Deployment controller, Scheduler, AIJob controller, JobSet, *)
(* Kueue, garbage collector.                                                *)

\* A new template: the Recreate strategy stops the old Pod first.
Rollout ==
    /\ deployment.observed # deployment.generation
    /\ deployment' = [deployment EXCEPT !.observed = deployment.generation]
    /\ scheduler' = None
    /\ UNCHANGED <<runner, jobVars, podVars, config, restarted, shared>>

\* The new Pod mounts the ConfigMap as it is now.
SchedulerStarts ==
    /\ scheduler = None
    /\ deployment.observed = deployment.generation
    /\ scheduler' = [generation |-> deployment.generation, config |-> config]
    /\ UNCHANGED <<runner, jobVars, podVars, config, deployment, restarted, shared>>

\* The container restarts in its Pod; the kubelet may have refreshed the mount.
SchedulerRestarts ==
    /\ scheduler # None
    /\ disturbances < MaxDisturbances
    /\ disturbances' = disturbances + 1
    /\ restarted' = TRUE
    /\ scheduler' = [scheduler EXCEPT !.config = config]
    /\ UNCHANGED <<jobVars, podVars, config, deployment, progress, outcome, interrupted,
                   shared>>

\* The JobSet of an AIJob the controller sees in its cache.
ControllerCreates(w) ==
    /\ stage[w] = "none"
    /\ \/ w \in aijobs /\ UNCHANGED recreated
       \/ w \in stale /\ recreated < MaxRecreated /\ recreated' = recreated + 1
    /\ stage' = [stage EXCEPT ![w] = "suspended"]
    /\ UNCHANGED <<runner, profileVars, aijobs, stale, completed, node, boundBy, shared>>

\* The cache catches up with the deletions.
CacheSyncs ==
    /\ stale # {}
    /\ stale' = {}
    /\ UNCHANGED <<runner, profileVars, podVars, aijobs, completed, recreated, shared>>

Admitted == {w \in Workloads \ Others : stage[w] \in {"pending", "unschedulable", "running"}}

KueueAdmits(w) ==
    /\ stage[w] = "suspended"
    /\ MapThenSumSet(GPUs, Admitted) + GPUs(w) <= Quota
    /\ stage' = [stage EXCEPT ![w] = "pending"]
    /\ UNCHANGED <<runner, profileVars, jobVars, node, boundBy, shared>>

\* One scheduling cycle; the benchmark's AIJobs have topology "any".
Schedules(w) ==
    LET pod == [gpus |-> GPUs(w), preference |-> "", required |-> ""]
        candidates == Candidates(StrategyOf(scheduler.config), pod, FreeNow)
    IN
    /\ scheduler # None
    /\ stage[w] \in {"pending", "unschedulable"}
    /\ IF candidates = {}
       THEN /\ stage[w] = "pending"
            /\ stage' = [stage EXCEPT ![w] = "unschedulable"]
            /\ UNCHANGED <<node, boundBy, shared>>
       ELSE /\ \E n \in candidates : node' = [node EXCEPT ![w] = n]
            /\ stage' = [stage EXCEPT ![w] = "running"]
            /\ boundBy' = [boundBy EXCEPT ![w] = scheduler.config]
            /\ shared' = IF w[1] = run THEN shared ELSE shared \cup {run}
    /\ UNCHANGED <<runner, profileVars, jobVars>>

\* Holders wait for SIGTERM; the probe ends by itself.
ProbeSucceeds(w) ==
    /\ w[2] = Probe
    /\ stage[w] = "running"
    /\ stage' = [stage EXCEPT ![w] = "succeeded"]
    /\ UNCHANGED <<runner, profileVars, jobVars, node, boundBy, shared>>

ControllerReports(w) ==
    /\ w \in aijobs
    /\ stage[w] = "succeeded"
    /\ w \notin completed
    /\ completed' = completed \cup {w}
    /\ UNCHANGED <<runner, profileVars, podVars, aijobs, stale, recreated, shared>>

GarbageCollect(w) ==
    /\ w \notin aijobs
    /\ stage[w] # "none"
    /\ stage' = [stage EXCEPT ![w] = "none"]
    /\ node' = [node EXCEPT ![w] = None]
    /\ boundBy' = [boundBy EXCEPT ![w] = None]
    /\ UNCHANGED <<runner, profileVars, jobVars, shared>>

Cluster ==
    \/ Rollout
    \/ SchedulerStarts
    \/ SchedulerRestarts
    \/ CacheSyncs
    \/ \E w \in Workloads :
          \/ ControllerCreates(w)
          \/ KueueAdmits(w)
          \/ Schedules(w)
          \/ ProbeSucceeds(w)
          \/ ControllerReports(w)
          \/ GarbageCollect(w)

-----------------------------------------------------------------------------
(* runOne: the steps under the context that the user may cancel.  *)

NewResult(r) ==
    [profile |-> Profile(r), workloads |-> 0, fragmentation |-> NoFragmentation,
     placedBy |-> {}, recovery |-> "none", probe |-> "running",
     missing |-> FALSE, complete |-> FALSE]

Steps == {"config", "deployment", "rollout", "hold", "holding", "measure", "probe",
          "blocked", "release", "probing", "finishing"}

\* Variant: any available Scheduler will do.
RolledOutAvailable ==
    scheduler # None

\* WaitForDeployment: the status is of this generation, and the replica of it
\* is available.
RolledOut ==
    /\ deployment.observed = deployment.generation
    /\ scheduler # None
    /\ scheduler.generation = deployment.generation

\* The template gets a restart annotation; a different one is a new generation.
Annotate(stamp) ==
    deployment' = IF stamp = deployment.stamp THEN deployment
                  ELSE [deployment EXCEPT !.stamp = stamp, !.generation = @ + 1]

Create(w) == aijobs' = aijobs \cup {w}

Delete(ws) ==
    /\ aijobs' = aijobs \ ws
    /\ completed' = completed \ ws
    /\ stale' = IF recreated < MaxRecreated THEN stale \cup (ws \cap aijobs) ELSE stale

\* What the calls that write do to the cluster.
Effect ==
    \/ /\ pc = "config"
       /\ config' = Profile(run)
       /\ UNCHANGED <<deployment, aijobs, stale, completed>>
    \/ /\ pc = "deployment"
       /\ Annotate(run)
       /\ UNCHANGED <<config, aijobs, stale, completed>>
    \/ /\ pc \in {"hold", "probe"}
       /\ Create(<<run, IF pc = "hold" THEN holder ELSE Probe>>)
       /\ UNCHANGED <<config, deployment, stale, completed>>
    \/ /\ pc = "release"
       /\ Delete({<<run, 1>>})
       /\ UNCHANGED <<config, deployment>>

\* The workload definition is recorded before its AIJob is created.
WithDefinition == [result EXCEPT !.workloads = IF pc \in {"hold", "probe"} THEN @ + 1 ELSE @]

WriteCall ==
    /\ ~interrupted
    /\ Effect
    /\ result' = CASE pc \in {"hold", "probe"} -> WithDefinition
                   [] pc = "release"           -> [result EXCEPT !.recovery = "released"]
                   [] OTHER                    -> result
    /\ pc' = CASE pc = "config"     -> "deployment"
               [] pc = "deployment" -> "rollout"
               [] pc = "hold"       -> "holding"
               [] pc = "probe"      -> IF ProbeShouldFit(Profile(run)) THEN "probing"
                                                                       ELSE "blocked"
               [] pc = "release"    -> "probing"
    /\ UNCHANGED <<podVars, faults, scheduler, restarted, recreated, run, holder, runErr,
                   expired, files, unwritten, failed, restored, shared>>

\* A wait, or the snapshot, that succeeds.
Observed(next, newResult) ==
    /\ ~interrupted
    /\ pc' = next
    /\ result' = newResult
    /\ UNCHANGED <<cluster, faults, run, runErr, expired, files, unwritten, failed,
                   restored, shared>>

Scheduled(w) == stage[w] \in {"running", "succeeded"}

AwaitRollout ==
    /\ pc = "rollout"
    /\ RolledOut
    /\ Observed("hold", result)
    /\ holder' = 1

\* Variant: one holder more.
AwaitHolderOneMore ==
    /\ pc = "holding"
    /\ Scheduled(<<run, holder>>)
    /\ IF holder <= 3 THEN Observed("hold", result) /\ holder' = holder + 1
                      ELSE Observed("measure", result) /\ UNCHANGED holder

AwaitHolder ==
    /\ pc = "holding"
    /\ Scheduled(<<run, holder>>)
    /\ IF holder < 3 THEN Observed("hold", result) /\ holder' = holder + 1
                     ELSE Observed("measure", result) /\ UNCHANGED holder

\* The free GPUs are computed from the Pods of this run.  placedBy is history:
\* which Schedulers bound the holders.
Measure ==
    /\ pc = "measure"
    /\ Observed("probe",
         [result EXCEPT !.fragmentation =
                            CalculateFragmentation(FreeGPUs(PodsOf(Own(run))), 4),
                        !.placedBy = {boundBy[w] : w \in Own(run) \ {<<run, Probe>>}}])
    /\ UNCHANGED holder

\* Variant: no holder is released.
AwaitUnschedulableOnly ==
    /\ pc = "blocked"
    /\ stage[<<run, Probe>>] = "unschedulable"
    /\ Observed("probing", [result EXCEPT !.recovery = "attempted"])
    /\ UNCHANGED holder

AwaitUnschedulable ==
    /\ pc = "blocked"
    /\ stage[<<run, Probe>>] = "unschedulable"
    /\ Observed("release", [result EXCEPT !.recovery = "attempted"])
    /\ UNCHANGED holder

AwaitProbe ==
    /\ pc = "probing"
    /\ Scheduled(<<run, Probe>>)
    /\ Observed("finishing", result)
    /\ UNCHANGED holder

AwaitCompleted ==
    /\ pc = "finishing"
    /\ <<run, Probe>> \in completed
    /\ Observed("collect",
         [result EXCEPT !.probe = "completed",
                        !.recovery = IF @ = "released" THEN "recovered" ELSE @])
    /\ UNCHANGED holder

\* runOne returns an error; the deferred function records it as missing.
Abort ==
    /\ pc' = "collect"
    /\ runErr' = TRUE
    /\ result' = [WithDefinition EXCEPT !.missing = TRUE]
    /\ UNCHANGED <<podVars, scheduler, restarted, recreated, run, holder, expired, files,
                   unwritten, failed, restored, interrupted, shared>>

\* A call fails, a wait reaches its timeout, or the context was cancelled.
StepFails ==
    /\ pc \in Steps
    /\ \/ interrupted /\ UNCHANGED disturbances
       \/ disturbances < MaxDisturbances /\ disturbances' = disturbances + 1
    /\ Abort
    /\ UNCHANGED <<config, deployment, aijobs, stale, completed>>

\* A write takes effect, but labctl sees an error.
ResponseLost ==
    /\ ~interrupted
    /\ disturbances < MaxDisturbances
    /\ disturbances' = disturbances + 1
    /\ Effect
    /\ Abort

-----------------------------------------------------------------------------
(* The deferred function of runOne, under a context of its own.  *)

\* The one deadline that collection, evidence and cleanup share is reached.
CleanupExpires ==
    /\ pc \in {"collect", "evidence", "write", "delete", "gone"}
    /\ ~expired
    /\ expired' = TRUE
    /\ disturbances < MaxDisturbances
    /\ disturbances' = disturbances + 1
    /\ UNCHANGED <<cluster, progress, result, runErr, files, unwritten, failed, restored,
                   interrupted, shared>>

\* A call of the deferred function fails for want of time or otherwise.
CallFails ==
    \/ expired /\ UNCHANGED disturbances
    \/ disturbances < MaxDisturbances /\ disturbances' = disturbances + 1

\* collectEvidence is incomplete unless the expected outcomes were observed.
ExpectedObserved ==
    /\ result.probe = "completed"
    /\ result.profile = "baseline" => result.recovery # "none"

\* collectResult, then collectEvidence: an error is recorded as missing.
Collect ==
    /\ pc \in {"collect", "evidence"}
    /\ \/ /\ ~expired
          /\ UNCHANGED disturbances
          /\ result' = [result EXCEPT !.missing =
                          @ \/ (pc = "evidence" /\ ~ExpectedObserved)]
       \/ /\ CallFails
          /\ result' = [result EXCEPT !.missing = TRUE]
    /\ pc' = IF pc = "collect" THEN "evidence" ELSE "write"
    /\ UNCHANGED <<cluster, run, holder, runErr, expired, files, unwritten, failed,
                   restored, interrupted, shared>>

\* Variant: what the collection missed does not matter.
CompletedIgnoringMissing == ~runErr

Completed == ~runErr /\ ~result.missing

\* Variant: a failed run has no result.
WriteResultOfSuccess ==
    /\ pc = "write"
    /\ result' = [result EXCEPT !.complete = Completed]
    /\ \/ /\ files' = IF runErr THEN files ELSE [files EXCEPT ![run] = result']
          /\ UNCHANGED <<runErr, unwritten, disturbances>>
       \/ /\ disturbances < MaxDisturbances
          /\ disturbances' = disturbances + 1
          /\ runErr' = TRUE
          /\ unwritten' = unwritten \cup {run}
          /\ UNCHANGED files
    /\ pc' = "delete"
    /\ UNCHANGED <<cluster, run, holder, expired, failed, restored, interrupted, shared>>

\* Complete is set, and the result is written beside its final name and renamed.
WriteResult ==
    /\ pc = "write"
    /\ result' = [result EXCEPT !.complete = Completed]
    /\ \/ /\ files' = [files EXCEPT ![run] = result']
          /\ UNCHANGED <<runErr, unwritten, disturbances>>
       \/ /\ disturbances < MaxDisturbances
          /\ disturbances' = disturbances + 1
          /\ runErr' = TRUE
          /\ unwritten' = unwritten \cup {run}
          /\ UNCHANGED files
    /\ pc' = "delete"
    /\ UNCHANGED <<cluster, run, holder, expired, failed, restored, interrupted, shared>>

\* Some Pod of another run or user holds GPUs as run r begins.
SharesNodes(r) == \E w \in Workloads \ Own(r) : stage[w] = "running"

\* Variant: the errors of earlier runs are forgotten.
EndRunForgets(err) ==
    /\ failed' = err
    /\ expired' = FALSE
    /\ runErr' = FALSE
    /\ holder' = 1
    /\ IF run + 1 \in Runs
       THEN /\ run' = run + 1
            /\ pc' = "config"
            /\ result' = NewResult(run + 1)
            /\ shared' = IF SharesNodes(run + 1) THEN shared \cup {run + 1} ELSE shared
       ELSE /\ pc' = "restoreConfig"
            /\ UNCHANGED <<run, result, shared>>
    /\ UNCHANGED <<files, unwritten, restored, interrupted>>

\* runOne returns: the next profile or repetition follows whatever happened.
EndRun(err) ==
    /\ failed' = (failed \/ err)
    /\ expired' = FALSE
    /\ runErr' = FALSE
    /\ holder' = 1
    /\ IF run + 1 \in Runs
       THEN /\ run' = run + 1
            /\ pc' = "config"
            /\ result' = NewResult(run + 1)
            /\ shared' = IF SharesNodes(run + 1) THEN shared \cup {run + 1} ELSE shared
       ELSE /\ pc' = "restoreConfig"
            /\ UNCHANGED <<run, result, shared>>
    /\ UNCHANGED <<files, unwritten, restored, interrupted>>

\* Variant: what has completed is kept.
RunScopedUnfinished == Own(run) \ completed

\* What carries the label of the run: cleanup lists, deletes and awaits this.
RunScoped == Own(run)

\* cleanup: the AIJobs of the run are deleted.
CleanupDeletes ==
    /\ pc = "delete"
    /\ ~expired
    /\ Delete(RunScoped)
    /\ pc' = "gone"
    /\ UNCHANGED <<profileVars, podVars, outcome, faults, recreated, run, holder, shared>>

\* The list or some deletions fail; the others have been made.
CleanupFails ==
    /\ pc = "delete"
    /\ \E deleted \in SUBSET (RunScoped \cap aijobs) :
          /\ expired => deleted = {}
          /\ Delete(deleted)
    /\ CallFails
    /\ EndRun(TRUE)
    /\ UNCHANGED <<profileVars, podVars, recreated>>

\* Variant: only the AIJobs are awaited.
GoneAIJobs == RunScoped \cap aijobs = {}

\* Discover finds nothing with the label of the run.
Gone ==
    /\ RunScoped \cap aijobs = {}
    /\ \A w \in RunScoped : stage[w] = "none"

CleanupAwaits ==
    /\ pc = "gone"
    /\ \/ ~expired /\ Gone /\ EndRun(runErr) /\ UNCHANGED disturbances
       \/ CallFails /\ EndRun(TRUE)
    /\ UNCHANGED cluster

-----------------------------------------------------------------------------
(* Run: fixtures and capture first, the deferred restore last.  *)

Start ==
    /\ pc = "start"
    /\ \/ /\ ~interrupted
          /\ pc' = "config"
          /\ UNCHANGED <<failed, disturbances>>
       \/ /\ interrupted \/ disturbances < MaxDisturbances
          /\ disturbances' = IF interrupted THEN disturbances ELSE disturbances + 1
          /\ pc' = "done"
          /\ failed' = TRUE
    /\ UNCHANGED <<cluster, run, holder, result, runErr, expired, files, unwritten,
                   restored, interrupted, shared>>

RestoreEffect ==
    \/ /\ pc = "restoreConfig"
       /\ config' = "initial"
       /\ UNCHANGED deployment
    \/ /\ pc = "restoreDeployment"
       /\ Annotate(0)
       /\ UNCHANGED config

RestoreCluster ==
    UNCHANGED <<jobVars, podVars, scheduler, restarted, shared>>

Restore ==
    /\ \/ /\ RestoreEffect
          /\ pc' = IF pc = "restoreConfig" THEN "restoreDeployment" ELSE "restoreWait"
          /\ UNCHANGED restored
       \/ /\ pc = "restoreWait"
          /\ RolledOut
          /\ pc' = "done"
          /\ restored' = TRUE
          /\ UNCHANGED <<config, deployment>>
    /\ RestoreCluster
    /\ UNCHANGED <<faults, run, holder, result, runErr, expired, files, unwritten, failed>>

\* A call of the restore fails, with or without effect, or its wait times out.
RestoreFails ==
    /\ pc \in {"restoreConfig", "restoreDeployment", "restoreWait"}
    /\ disturbances < MaxDisturbances
    /\ disturbances' = disturbances + 1
    /\ RestoreEffect \/ UNCHANGED <<config, deployment>>
    /\ pc' = "done"
    /\ failed' = TRUE
    /\ RestoreCluster
    /\ UNCHANGED <<run, holder, result, runErr, expired, files, unwritten, restored,
                   interrupted>>

Interrupt ==
    /\ ~interrupted
    /\ pc # "done"
    /\ disturbances < MaxDisturbances
    /\ disturbances' = disturbances + 1
    /\ interrupted' = TRUE
    /\ UNCHANGED <<cluster, progress, outcome, shared>>

Runner ==
    \/ Start
    \/ WriteCall
    \/ AwaitRollout
    \/ AwaitHolder
    \/ Measure
    \/ AwaitUnschedulable
    \/ AwaitProbe
    \/ AwaitCompleted
    \/ StepFails
    \/ ResponseLost
    \/ CleanupExpires
    \/ Collect
    \/ WriteResult
    \/ CleanupDeletes
    \/ CleanupFails
    \/ CleanupAwaits
    \/ Restore
    \/ RestoreFails

-----------------------------------------------------------------------------

\* Pods of other users may run somewhere before the benchmark starts.
Init ==
    /\ config = "initial"
    /\ deployment = [stamp |-> 0, generation |-> 1, observed |-> 1]
    /\ scheduler = [generation |-> 1, config |-> "initial"]
    /\ aijobs \in SUBSET Others
    /\ stale = {}
    /\ stage = [w \in Workloads |-> IF w \in aijobs THEN "running" ELSE "none"]
    /\ node \in {f \in [Workloads -> Nodes \cup {None}] :
                    \A w \in Workloads : (f[w] = None) <=> w \notin aijobs}
    /\ completed = {}
    /\ boundBy = [w \in Workloads |-> None]
    /\ restarted = FALSE
    /\ recreated = 0
    /\ pc = "start"
    /\ run = 1
    /\ holder = 1
    /\ result = NewResult(1)
    /\ runErr = FALSE
    /\ expired = FALSE
    /\ files = [r \in Runs |-> None]
    /\ unwritten = {}
    /\ failed = FALSE
    /\ restored = FALSE
    /\ disturbances = 0
    /\ interrupted = FALSE
    /\ shared = IF aijobs = {} THEN {} ELSE {1}

Next == Cluster \/ Runner \/ Interrupt

Spec == Init /\ [][Next]_vars

\* Every component of the cluster keeps working, and so does labctl.
Fairness ==
    /\ WF_vars(Runner)
    /\ WF_vars(Rollout)
    /\ WF_vars(SchedulerStarts)
    /\ WF_vars(CacheSyncs)
    /\ \A w \in Workloads :
          /\ WF_vars(ControllerCreates(w))
          /\ WF_vars(KueueAdmits(w))
          /\ WF_vars(Schedules(w))
          /\ WF_vars(ProbeSucceeds(w))
          /\ WF_vars(ControllerReports(w))
          /\ WF_vars(GarbageCollect(w))

FairSpec == Spec /\ Fairness

-----------------------------------------------------------------------------
(* Safety. *)

Fragmentations == [target : {0, 4}, total : Nat, usable : Nat]

Results ==
    [profile : {"baseline", "optimized"}, workloads : 0..4,
     fragmentation : Fragmentations,
     placedBy : SUBSET (Configs \cup {None}),
     recovery : {"none", "attempted", "released", "recovered"},
     probe : {"running", "completed"}, missing : BOOLEAN, complete : BOOLEAN]

Schedulers == [generation : Nat, config : Configs]

ASSUME NoneAssumption == None \notin Schedulers \cup Results

TypeOK ==
    /\ config \in Configs
    /\ deployment \in [stamp : {0} \cup Runs, generation : Nat, observed : Nat]
    /\ scheduler \in Schedulers \cup {None}
    /\ aijobs \subseteq Workloads
    /\ stale \subseteq Workloads
    /\ stage \in [Workloads -> {"none", "suspended", "pending", "unschedulable",
                                "running", "succeeded"}]
    /\ node \in [Workloads -> Nodes \cup {None}]
    /\ completed \subseteq Workloads
    /\ boundBy \in [Workloads -> Configs \cup {None}]
    /\ pc \in Steps \cup {"start", "collect", "evidence", "write", "delete", "gone",
                          "restoreConfig", "restoreDeployment", "restoreWait", "done"}
    /\ run \in Runs
    /\ holder \in 1..3
    /\ result \in Results
    /\ files \in [Runs -> Results \cup {None}]
    /\ {runErr, expired, failed, restored, restarted, interrupted} \subseteq BOOLEAN
    /\ shared \subseteq Runs
    /\ unwritten \subseteq Runs
    /\ disturbances \in 0..MaxDisturbances
    /\ recreated \in 0..MaxRecreated

\* ValidateResult, but for fields that the runner always fills.
Valid(res) ==
    /\ res.complete = ~res.missing
    /\ res.workloads > 0 => res.fragmentation.target = 4
    /\ res.fragmentation.usable <= res.fragmentation.total
    /\ res.complete /\ res.profile = "baseline" => res.recovery = "recovered"
    /\ res.complete /\ res.profile = "optimized" => res.recovery = "none"

\* A result marked complete passes labctl validate-results, its probe was seen
\* to complete, and all its holders were bound by a Scheduler of its own
\* profile, although failed runs and Scheduler restarts came before
\* (switchProfile waits for the rollout; Complete in the deferred function).
CompleteMeansMeasured ==
    \A r \in Runs :
        files[r] # None /\ files[r].complete
            => /\ Valid(files[r])
               /\ files[r].probe = "completed"
               /\ files[r].placedBy = {Profile(r)}

\* A complete baseline result shows six free GPUs none of which the probe can
\* use, a complete optimized one four of six: the profiles are told apart, when
\* no Pod of others held GPUs (Measure, WaitForPodUnschedulable).
ProfilesToldApart ==
    \A r \in Runs \ shared :
        files[r] # None /\ files[r].complete
            => files[r].fragmentation =
                 [target |-> 4, total |-> 6,
                  usable |-> IF Profile(r) = "baseline" THEN 0 ELSE 4]

Ended == pc = "done"

\* When labctl exits with success, no AIJob of any run remains, each run has a
\* result file, and the Scheduler configuration is the initial one; the error
\* of any step, cleanup or restore is never lost (errors.Join in Run and runOne).
SuccessLeavesNothing ==
    Ended /\ ~failed
        => /\ aijobs \subseteq Others
           /\ \A r \in Runs : files[r] # None
           /\ config = "initial"
           /\ restored

\* A run that fails or is interrupted still leaves a result that names what is
\* missing; one is lost only when its own file cannot be written (writeResult in
\* the deferred function of runOne).
EveryRunIsRecorded ==
    \A r \in Runs :
        (r < run \/ (r = run /\ pc \in {"delete", "gone", "restoreConfig",
                                         "restoreDeployment", "restoreWait"}))
        /\ files[r] = None
            => r \in unwritten

\* A run starts on Nodes that no earlier run of the benchmark still uses, or an
\* error has been reported: cleanup returns nil only when the descendants are
\* gone too.  (A JobSet recreated from a stale cache is the exception.)
RunsAreIsolated ==
    (\A w \in Others : stage[w] = "none") /\ recreated = 0 /\ ~failed => shared = {}

\* Once the restore has returned nil the Scheduler that runs has the initial
\* configuration, whatever failed before, provided its container did not
\* restart on its own meanwhile (captureScheduler's restore function).
RestoredSchedulerRuns ==
    restored /\ ~restarted /\ scheduler # None => scheduler.config = "initial"

-----------------------------------------------------------------------------
(* Liveness, under FairSpec. *)

\* On a cluster where nothing fails, both profiles give the expected outcome:
\* the baseline's probe is blocked, and recovers when a holder is released, the
\* optimized one fits; every result is complete and labctl succeeds.
BenchmarkSucceeds ==
    <>(Ended /\ ~failed /\ \A r \in Runs : files[r] # None /\ files[r].complete)

\* After a success nothing of the benchmark remains for good, although the
\* controller may have recreated a JobSet from an AIJob it still had cached.
NothingRemains ==
    (Ended /\ ~failed) ~> [](\A w \in Workloads \ Others : stage[w] = "none")

-----------------------------------------------------------------------------
(* What documents of the repository say and the code does not ensure. *)

\* scheduling-benchmark/spec.md, "Incomplete experiment": labctl "marks the run
\* incomplete, records the missing observation, and exits non-zero".
IncompleteExitsNonZero ==
    Ended /\ ~failed => \A r \in Runs : files[r] # None => files[r].complete

\* design.md: "Scheduler configuration changes are restored to the normal lab
\* configuration after benchmark completion, including failure paths".
NormalConfigurationRuns ==
    restored /\ scheduler # None => scheduler.config = "initial"

=============================================================================
