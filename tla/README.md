# A TLA+ model of ai-infra-lab

ai-infra-lab is a teaching platform for AI workloads on Kubernetes: an `AIJob`
resource is turned into a JobSet, admitted by Kueue, placed by a kube-scheduler
with a GPU topology plugin, and measured by `labctl`. This directory holds TLA+
specifications of the repository's own logic, TLC configurations that check
them on small instances, and TLAPS proofs of the main safety properties.

## 1. Inventory

| Component | State | Operations | Interacts with |
| --- | --- | --- | --- |
| AIJob controller, `internal/controller/aijob_controller.go` | none of its own; informer caches, a workqueue, delayed requeues | `Reconcile`: read AIJob, LocalQueue and JobSet, create or update the JobSet, update the AIJob's status | API server (versions and conflicts), Kueue and JobSet controller (both write the JobSet), garbage collector, user |
| GPUTopology plugin, `internal/plugin/gputopology/plugin.go` | the topology request in the cycle state | `PreFilter`, `Filter`, `PreScore`, `Score` | kube-scheduler; annotations the controller writes |
| Measures, `internal/lab/calculate.go` | none | `FreeGPUs`, `CalculateFragmentation`, `UnschedulableCount` | Nodes and Pods |
| Benchmark runner, `internal/lab/benchmark.go`, waits in `cluster.go`, checks in `validate.go` | result of the run, errors, captured Scheduler configuration | switch profile, submit holders and probe, measure, release, collect, write, clean up, restore | Scheduler ConfigMap and Deployment, AIJobs, Pods, the user's signals |
| Evidence collector, `internal/lab/evidence.go`, and worker reports, `worker_reports.go` | manifest of the bundle | `Collect`, merge of container state and worker records | cluster, files |
| Exercises, `internal/lab/exercise.go`, and E2E scenarios, `e2e.go` | expected and observed conditions | three exercises, three scenarios, `replaceController` | controller, evidence, cleanup |
| Synthetic worker, `internal/worker/worker.go` | its configuration | parse, start, wait or complete, fail by index, terminate | stdout records, signals |
| Device plugin, `internal/deviceplugin/plugin.go` | devices, socket | `Run`, `register`, `ListAndWatch`, `Allocate` | kubelet |
| Metrics, manifests, entry points, YAML, scripts | | | |

What is hard, and what makes each part correct:

* **Controller.** Its reads lag, its writes can be refused, fail, or take effect
  without an answer; Kueue and the JobSet controller write the same JobSet; the
  process may die anywhere and, as there is no leader election, run twice
  during a Pod replacement. Correct means: a status write describes the stored
  AIJob, an AIJob reports only a JobSet it controls, a terminal condition stays,
  nothing Kueue suspended is resumed, an existing template is not rewritten,
  and after any disturbance controller and cluster converge and go quiet.
* **Scheduling.** Requirements travel through annotations that omit the
  unconstrained case; scores are small integers with weights. Correct means:
  only requirements exclude Nodes, preferences decide between equals within
  their weight, and the fragmentation measure tells whether a Pod fits.
* **Benchmark.** Each run is a dozen calls and waits followed by deferred steps
  under one deadline, between profile switches that are several writes each.
  Correct means: a result marked complete is one, under its own profile; no
  error is lost; a run leaves nothing to the next; the Scheduler gets back its
  configuration.
* **Exercises and E2E.** Chains of objects appear and go one by one while the
  command looks; the controller is replaced under it; evidence is read call by
  call while what it describes goes away; signals cancel one context of three.
  Correct means: a success has seen what it claims, whatever happened is on
  record before it is deleted, every command ends, and nothing of it stays.
* **Worker and reports.** Timer and termination race, the process may be killed
  between record and exit, and the collector sees a snapshot and a later, perhaps
  torn, log. Correct means: an outcome was earned, a termination is honoured,
  the Job ends as configured, the report does not contradict the exit.
* **Device plugin.** Processes and the kubelet restart independently, and
  registration happens once per process. Correct means: what a Node advertises
  is served or soon withdrawn, what is granted exists, the Node gets its GPUs back.

`PROJECT.json` lists the hazards one by one, each with its source line.

## 2. Modules

| Module | Models | Runs |
| --- | --- | --- |
| `AIJobController` | the controller and its cluster, for one name | `ctl_*` |
| `AIJobLifecycle` | what an AIJob promises, in six actions | refined in `ctl_history` and `exercises` |
| `Scheduling` | topology request, filter, scores, free GPUs, fragmentation, as operators | through the next two |
| `Placement` | AIJob Pods submitted, bound and finished in any order | `placement` |
| `BenchmarkRunner` | `labctl benchmark` and the cluster it drives | `bench_*` |
| `Worker` | the workers of an Indexed Job, with kubelet, Job controller and user | through the next |
| `WorkerReports` | the collection of their container states and logs | `worker` |
| `DevicePlugin` | the device plugin of a Node, with kubelet and DaemonSet | `device_plugin` |
| `Exercises` | `labctl exercise` and `labctl e2e` with evidence and cleanup, and the cluster they drive | `exercises` |
| `MC...` | constants of the runs | |
| `AIJobControllerProofs`, `LifecycleProofs` | theorems about `AIJobController`, and that it implements `AIJobLifecycle` | |
| `SchedulingProofs` | lemmas about sums over finite sets, scores, free GPUs and fragmentation | |
| `PlacementProofs`, `BenchmarkRunnerProofs` | theorems about the two modules that use them | |
| `WorkerReportsProofs`, `DevicePluginProofs`, `ExercisesProofs` | theorems about the module of that name | |

`AIJobLifecycle` says what a command may take from an AIJob: Completed or Failed
only as the JobSet it controls has ended, until it is deleted. `AIJobController`
implements it with one process (`ImplementsLifecycle`). `Exercises` has a
coarser controller, of up to three Pods, and its AIJobs stay within the same
lifecycle (`AIJobsFollow`). Both facts are proved, in `LifecycleProofs` and
`ExercisesProofs`. They do not make the second controller an abstraction of the
first: the Pods of `Exercises` cache AIJobs but read JobSets as stored, and
`AIJobController` with two processes does not implement `AIJobLifecycle`
(section 3). So of a replaced controller the exercises show what follows from its stale
AIJobs, not what an older copy of a JobSet might make it report.
`WorkerReports` EXTENDS `Worker`: its collection runs beside the workers.
`Placement` and `BenchmarkRunner` both EXTEND `Scheduling`, so the placement the
benchmark waits for is the one the plugin and the profiles compute.

Operators called *Variant* in a comment are deliberately wrong forms of the
definition that follows them; nothing uses them. They are what the mutation
entries of `PROJECT.json` put in place of a definition to show that a property
depends on it.

### AIJobController

One namespaced name is followed: the AIJob (`job`), the JobSet of that name
(`jobSet`), the LocalQueue (`queue`) and Kueue's reservation (`admitted`). A
controller process `c` has caches `seen[c]`, the local variables of the current
call `local[c]`, a position `pc[c]`, the workqueue entry `dirty[c]` and the
delayed requeue `timer[c]`.

| Code | Actions |
| --- | --- |
| `Reconcile` up to its first write: three cached reads, `desiredJobSet`, `reconcileOwnedFields`, `statusWithQueue` | `BeginReconcile` |
| `reconcileJobSet`: create or update, refused on AlreadyExists, NotFound, Conflict | `CreateJobSet`, `UpdateJobSet` |
| `reconcileStatus` and the return of `Reconcile` | `UpdateStatus` |
| an error, an error after a committed write | `CallFails`, `ResponseLost` |
| `SetupWithManager`: AIJob and JobSet watches; the queue is cached and not watched | `SyncJob`, `SyncJobSet`, `SyncQueue`, `RequeueTimer` |
| process start and end | `StartController`, `CrashController` |

Resource versions are replaced by what they are used for: `freshJob` and
`freshJobSet` are the copies that still carry the stored version; each write
empties the set and an update is accepted from a member only. This keeps
optimistic concurrency exact without counting versions. The statuses keep the
observed generation, one lifecycle condition, and QueueReady.
Templates, labels and overrides are opaque values; an override is `run`
(suspend = false, also when only a policy is set) or `hold`.

Not the repository's code, and modelled from how it is used: a JobSet is stored
suspended because Kueue's webhook suspends queued JobSets at creation; Kueue
resumes what it admitted and suspends what runs without admission; eviction
suspends first; the garbage collector removes a JobSet whose owner UID is gone.

### Scheduling and Placement

`SchedulingAnnotations` is the controller's half (no requirement for "any"),
`TopologyRequirementMet` and `TopologyPreferenceScore` the plugin's,
`AllocationScore` the NodeResourcesFit strategy of the profiles, and `NodeScore`
their weighted sum (10 and 5, from `deploy/scheduler-profiles`). `Candidates`
are the Nodes kube-scheduler may pick. `Placement` submits, binds and finishes
Pods in any order and compares what was decided with what was free then.

### BenchmarkRunner

`pc` walks through `Run` and `runOne`. A call that writes is `WriteCall` with its
`Effect`; it may also fail without effect (`StepFails`) or with it
(`ResponseLost`). A wait that ends well is an `Await...` action, one that does
not is `StepFails`, as is any step after a signal. The deferred function is
`Collect` (twice: result, evidence), `WriteResult`, `CleanupDeletes` or
`CleanupFails`, and `CleanupAwaits`; `CleanupExpires` is the deadline they share,
after which `CallFails` is the only outcome. `EndRun` goes on to the next run, or
to `Restore`.

The cluster runs beside it: the Deployment's rollout (`Rollout`,
`SchedulerStarts`), a restart of the Scheduler's container that reads the
ConfigMap again (`SchedulerRestarts`), AIJob controller, Kueue with a quota of
12 GPUs, scheduling cycles with the profile the running Scheduler had loaded,
the probe's end, and garbage collection. `ControllerCreates` may act on an
AIJob already deleted, from its stale cache.

`boundBy`, `shared`, `unwritten`, `restarted` and the field `placedBy` of a result are
history: no action depends on them.

### AIJobLifecycle

An AIJob is `present`, its status describes its current generation (`observed`),
it controls a JobSet (`owned`), which has `ended` in a final condition or not, and
reports a `condition`. `Submit` and `Delete` start and end it, `Edit` makes the
status outdated, `Own` is a successful `reconcileJobSet`, `End` the end of the
JobSet, `Report` a status write: a condition needs an owned JobSet, a final one
that this JobSet has ended so, and is not unset again, nor withdrawn once it is
final. `AIJobController` maps `observed` to equal generations, `owned` to the
owner reference of the stored JobSet and `ended` to its terminal condition;
`Exercises` maps them to its coarser state of each run, where Pods and Job end
before the JobSet does (`jobSetEnded`), which is what `Reportable` waits for.

### Worker and WorkerReports

`pc[w]` walks through `main` and `Run`: `InstallHandler`, `Parse` (`ParseConfig` and the
start record), `EndDelay`, `Finish` (result record and return value) and `Exit`.
The two selects are `WaitElapses` and `WaitInterrupted`; with timer and signal both
ready both are enabled. An argument list is reduced to what the checks of
`ParseConfig` tell apart; durations only matter as negative, none, or some. The
container's end reaches the Pod status by `KubeletReports`; `JobFails` is the
template's backoffLimit 0, which deletes the other Pods; `Signal` before the
handler is installed ends the process as the Go runtime does.

`TakeSnapshot` is the Pod as `Discover` saw it, `ReadLog` the later call for its log:
any prefix of the records, possibly with a torn one, or an error. The reports
are functions of these two: `FromContainer`, then `WithRecords`.

### DevicePlugin

`pc` walks through `Run`: `Prepare` (count, stale socket), `Listen`, `Register` or
`RegisterFails`, `Stops`. `Returns` runs the deferred functions; `Killed` does not, and
leaves the socket. Either breaks the stream, and the Node goes on advertising the
devices until the kubelet notices (`KubeletNotices`) or the next process has
registered. The kubelet dials the socket (`KubeletConnects`), takes the list
of `ListAndWatch`, picks devices from it (`KubeletAllocates`), and the call reaches
whichever process listens then (`Allocate`), or none (`Unanswered`). `KubeletStarts` empties the plugin
directory, as kubelets do; `wiped` remembers whether that hit a running process.

### Exercises

`setup` says which scenarios a command runs and what cluster it finds. `Path` is
the sequence of calls of each scenario, `pc` the current one: writes are
`WriteCall`, reads and waits the disjuncts of `Observation`, a failure of any of
them, with or without effect, `ScenarioFails`. `Collect` follows
`EvidenceCollector.Collect` read by read (`ReadResources`, `ReadWorkerLogs`,
`ListControllers`, `ReadComponentLogs`, or `ReadFails`) up to `WriteManifest`; an
exercise always collects, an E2E scenario when it failed. `CleanupDeletes`,
`CleanupAwaits` and `CleanupFails` are `cleanup`, after which `EndRun` takes the next
scenario. Three contexts: a signal only reaches the scenario's.

The cluster keeps, per run, the objects whose owner exists (`live`) and those
the garbage collector will take (`garbage`), one at a time down the chain AIJob,
JobSet, Workload and Job, Pods. `progress` is how far the JobSet has come. Controller
Pods are `Replicas`: the one found, its replacement, and one still terminating
from an earlier exercise; each reconciles from its own `cache`, so two can act at
once. Without a readiness probe in `deploy/controller.yaml` a Pod is Ready as soon
as its container runs. `Found` is `Discover`, including that a Workload is found
through the name of its AIJob or JobSet only.

`excuses` and `disturbed` are history: which failures have a cause other than a
failing call.

## 3. Runs

All runs disable the deadlock check: the user, the runs, the uids, the edits
and the disturbances are bounded, so each model stops when they are used up
and the cluster is quiet. The liveness runs state what must have happened by
then.

| Run | Question | Instance |
| --- | --- | --- |
| `ctl_history` | does an AIJob ever report another's JobSet or generation, lose a terminal condition, get its template rewritten, or run what Kueue suspended? | one process, two AIJobs of one name, edits between two overrides, one crash, failure, lost response, eviction or queue deletion |
| `ctl_liveness` | does everything converge, go quiet and get cleaned up? | `FairSpec`, one process, two label values, one disturbance |
| `placement` | are requirements, preferences and fragmentation as documented? | three Nodes of four GPUs with classes nvlink-capable, pcie-only and none, three Pods of one or three GPUs, both strategies |
| `bench_undisturbed` | does the benchmark succeed and leave nothing? | `FairSpec`, both profiles once, no failure, one JobSet recreated from a stale cache |
| `bench_disturbed` | is anything claimed that is not so, does every run leave its result, does a run spoil the next? | with and without another user's Pod on a Node, any two disturbances: a failing call, a lost response, a missed deadline, a signal, a Scheduler restart |
| `worker` | does a worker claim only what it did, end when told, and is the Job's end and the report in accordance? | `FairSpec`, two workers, ten argument lists: each mode with and without delay, duration and a selected index, each way to be refused; one kill, one deletion, one collection |
| `device_plugin` | does a Node advertise, grant and regain exactly the devices of its plugin? | `FairSpec`, flags for the default, two devices and a refused count, any four kills, failures, kubelet restarts or redeployments; the kubelet notices a broken stream at any time |
| `exercises` | does a success mean what it says, is evidence recorded, does every command end and clean up, and do its AIJobs report an outcome only as their JobSet has ended? | `FairSpec`, each exercise, each E2E scenario and two pairs of consecutive ones, quota below and above the capacity AIJob, a lingering controller Pod, failing calls in one run, one signal |

**Bounds.** `MaxUid` 2 is what it takes for an AIJob to have a predecessor,
`MaxGeneration` 2 for a copy to be of an older generation; one disturbance puts
a crash, error or eviction at every point of every interleaving (pairs of them
are covered by the theorems only). Two processes at once, the overlap of a rolling
update, are beyond TLC's reach with these bounds: for them the theorems of
section 4 hold, which do not depend on the number of processes. In the
benchmark one repetition gives both profiles in the order of the code, so that
the first run can spoil the second and the last one the restore; two
disturbances allow a failing step and a failing cleanup or restore of the same
run, or a signal between them. JobSets recreated from a stale cache
(`MaxRecreated`) occur in `bench_undisturbed` only: combined with two disturbances
they exceed what TLC can finish, and such a JobSet may hold GPUs while the next
run measures, which is why `RunsAreIsolated` excepts it. Three holders, four
GPUs per Node and a quota of 12 are the numbers of the code. Nodes are
symmetric in the safety runs of the benchmark because its AIJobs ask for no
topology, and templates in `ctl_history` because nothing compares them with a
constant. In `worker` two workers are what it takes for one to fail and the
other to be deleted for it; a third adds only another deleted one. In
`device_plugin` four disturbances allow, for instance, a kubelet restart, a
redeployment, a kill and a failing registration in any order. In `exercises` two
runs are enough for what one may leave to the next: the error, the controller's
Pods, and objects that the garbage collector has not taken yet; failing calls are not counted, but stay in
one run and, for the pairs and the restart scenario of e2e, out of evidence and
cleanup, whose code the single ones share. A JobSet that a stale cache recreates
for a deleted AIJob is collected before Kueue admits it.

**Fairness.** Controller: weak fairness of the reconcile loop, of each watch,
of the requeue timer and of the restart of a dead container, which
controller-runtime and the kubelet provide, and of the garbage collector and
Kueue. The user, failures, evictions and the outcome of a job are not fair.
Failures are finite (`MaxDisturbances`), so convergence means: once calls stop
failing. Benchmark: weak
fairness of each cluster component per workload and of the runner, which is
sequential and whose polls are repeated until their deadline. Exercises: the same;
and as every wait has a deadline, a command that was interrupted, or whose run
was disturbed, eventually gives a wait up (`GivesUp`), while without either the
deadlines are taken to be long enough. Worker: processes and timers run, signals and status
reports arrive, the Job controller acts. Device plugin: kubelet and plugin are
restarted when they end, and a process makes its next step.

### What the documents say and the code does otherwise

Each of these runs checks one statement of a document or comment and finds a
behaviour of the code that contradicts it; `PROJECT.json` quotes the statement.

| Run | Statement | What happens |
| --- | --- | --- |
| `ctl_policy_override` | a job gets Pods only once Kueue has admitted it, and what Kueue wrote is not overwritten | overrides that only set a policy carry suspend = false, and the next reconcile resumes the JobSet Kueue had suspended |
| `ctl_recreated_template` | delete and apply to change workers, image or topology | applied before the old JobSet is collected, the new AIJob adopts it with the old template |
| `bench_incomplete_exit` | an incomplete run exits non-zero | a failing collection marks the result incomplete, and labctl exits with 0 |
| `bench_restore` | the Scheduler configuration is restored on failure paths too | if the switch failed between ConfigMap and Deployment, the restore rolls nothing out, and a Scheduler that restarted meanwhile keeps the benchmark profile |

More differences were met while modelling and have no run, because the models
show them as exceptions of a property, or because they are plain once said:

* With its LocalQueue missing, an edited AIJob gets the new observed generation
  while its lifecycle condition is carried over from the old one
  (`aijob_controller.go:71`, against the comment at `aijob_types.go:71`).
* LocalQueues are not watched, so QueueReady of a settled AIJob stays True when
  its queue is deleted (`aijob_controller.go:156`, against `aijob_types.go:11`);
  `Converges` asks only for what the delayed requeue gives.
* The benchmark computes free GPUs from its own Pods alone (`benchmark.go:168`,
  against `design.md:104`), so `ProfilesToldApart` excepts the runs that share the
  Nodes.
* A benchmark run that fails between its first holder and the snapshot writes a
  partial result with a target of 0 GPUs, which `ValidateResult` rejects
  (`validate.go:53`, against the comment at `validate.go:30`).
* `cleanup` and `Discover` look for Workloads, but find them only through an AIJob
  or JobSet; once those are gone the check says nothing (`cluster.go:113`).
  `NothingStays` holds because the garbage collector goes on after the command.
* A replaced controller counts as restarted as soon as its Pod is Ready, which
  without a readiness probe is before it has read anything; the one JobSet
  counted is the one the old process made (`exercise.go:221`). `SuccessMeansShown`
  claims no more than that.
* Right after a replacement the component logs may fail, because the old Pod is
  listed and then gone (`cluster.go:289`): the exercise ends with an error and an
  incomplete bundle although nothing is wrong. And an exercise started while a
  Pod of an earlier one still terminates refuses to start (`exercise.go:201`).
  `CommandEnds` excepts both by `excuses`.
* The capacity exercise tells the wrong stage when admission and Pod creation
  take longer than its three seconds (`exercise.go:187`); `DiagnosisIsRight` says
  that it is right otherwise.
* The device plugin "serves and registers the plugin until the context is
  cancelled" (`plugin.go:54`), but registers once: after a kubelet restart the Node
  has no GPUs until the plugin is restarted. `NodeGetsItsGPUs` excepts this.

`ImplementsLifecycle` is checked and proved for one controller process. With two, an older
process may still write a status from an older copy of the JobSet; the next
reconcile corrects it. The controller Pods of `Exercises` act at once, but read
JobSets as stored, so this does not occur there. `NeverRunsUnadmitted` is
checked with overrides that do not ask for suspend = false;
`RestoredSchedulerRuns` is the part of the restore that does hold.

## 4. Proofs

Where the table names no condition, a theorem holds for every value of the
constants that meets the assumptions below: any number of processes,
Nodes, Pods, workers, runs and scenarios, and any number of crashes, failures and
disturbances. Each module proves an inductive invariant of its own and derives
the properties the runs check.

| Module | Theorem | States |
| --- | --- | --- |
| `AIJobControllerProofs` | `TypeCorrect` | `TypeOK` |
| | `ObservedGenerationCorrect` | `ObservedGenerationIsCurrent` |
| | `TemplateStable` | `TemplateNeverRewritten` |
| | `OnlyKueueResumes` | `NeverRunsUnadmitted`, when `"run"` is not among the overrides |
| `LifecycleProofs` | `LifecycleImplemented` | `ImplementsLifecycle`, for at most one controller process |
| `PlacementProofs` | `TypeCorrect` | `TypeOK` |
| | `RequirementsMet` | `RequirementsHonoured` |
| | `NeverOversubscribed` | `NoOversubscription` |
| | `FragmentationPredicts` | `FragmentationPredictsFit` |
| | `NothingElseExcludes` | `OnlyRequirementsExclude` |
| | `TiesGoToTheBetterClass` | `PreferenceBreaksTies` |
| | `PreferenceMovesHalfANode` | `PreferenceIsBounded`, for Nodes of at most 50 GPUs |
| `BenchmarkRunnerProofs` | `TypeCorrect` | `TypeOK` |
| | `RunsAreRecorded` | `EveryRunIsRecorded` |
| | `SuccessIsClean` | `SuccessLeavesNothing` |
| | `RestoreIsReal` | `RestoredSchedulerRuns` |
| | `RunsStayApart` | `RunsAreIsolated` |
| | `CompleteIsMeasured` | `CompleteMeansMeasured` |
| | `ProfilesDiffer` | `ProfilesToldApart`, on three Nodes of four GPUs |
| `WorkerReportsProofs` | `TypeCorrect` | `TypeOK` |
| | `OutcomesEarned` | `OutcomeIsEarned` |
| | `ReportsTellTheExit` | `ReportTellsTheExit` |
| `DevicePluginProofs` | `TypeCorrect` | `TypeOK` |
| | `AdvertisedServed` | `AdvertisedAreServed` |
| | `AllocationsAreBacked` | `AllocationsFit` |
| `ExercisesProofs` | `TypeCorrect` | `TypeOK` |
| | `SuccessShown` | `SuccessMeansShown` |
| | `EvidenceRecorded` | `EvidenceIsRecorded` |
| | `DiagnosisRight` | `DiagnosisIsRight` |
| | `AIJobsLive` | `AIJobsFollow` |

They rest on the modules' named assumptions, each as weak as the code justifies
and evaluated by TLC in the runs: bounds are natural numbers and sets of flags,
arguments and setups have the members the code can meet (`BoundsAssumption`,
`ReportedAssumption`, `OverridesAssumption`, `WorkerAssumption`,
`DevicePluginAssumption`, `BenchmarkAssumption`, `ExercisesAssumption`); Nodes and Pods
are finitely many and a request fits a Node (`NodesAssumption`, `PodsAssumption`,
`SizesAssumption`); and `None` is none of the values it stands beside
(`NoneAssumption` of three modules, `NoLogAssumption`).

### AIJobControllerProofs

The inductive invariant is `TypeOK /\ LocalsComplete /\ FreshCopies`.
`LocalsComplete` says what a call in progress has computed: a write of the
JobSet is pending only with an AIJob and a JobSet at hand, a create only with a
suspended one, a status write only with a status of the generation that was
read. `FreshCopies` is what makes optimistic concurrency work: a cache or a
local AIJob that still carries the stored version is the stored object, and a
JobSet about to be updated differs from it only in what `reconcileOwnedFields`
owns. Without `FreshCopies` an accepted update may change anything; without
`LocalsComplete` it may write a value that is not there. The lemmas treat the
types, the locals and the copies action by action, and each theorem about steps
reduces to the write it is about. `OnlyKueueResumes` needs the last conjunct of
`FreshCopies`: a fresh pending update that is not suspended meets a stored
JobSet that is not suspended either.

### LifecycleProofs

Every step of the controller and its cluster is a step of `AIJobLifecycle` or a
stutter. Three facts are added to the invariant: uids only grow, so a cached
object of a deleted AIJob is not mistaken for one of its successor
(`UidsGrow`); a pending write of the JobSet writes one the AIJob it was computed
from controls (`WritesOwn`); and of the same AIJob conditions follow each other from
what is reported over what is cached and about to be written to what the JobSet
it controls has (`Told`), where a condition follows another unless that would unset
it or withdraw a terminal one: a terminal one is therefore reported only as that
JobSet has ended. The theorem assumes that any two members of `Controllers` are equal.
That is what the deployment has outside a Pod replacement, and it is needed:
there is no leader election, and a second process whose cached AIJob is an
older one of the same name may take the JobSet back, or report what its older
copy says. The other four theorems do not need it.

### SchedulingProofs

`MapThenSumSet` is recursive over sets, and the induction theorems of the
library take a predicate as a parameter, which none of the provers
instantiates. The lemmas therefore state induction with a set of good cases
(`NumberInduction`, `SubsetInduction`), show that the function the operator chooses
exists (`SumsExist`) and that a total may be split at any member
(`TotalSplit`), and from there that totals are bounded, positive and kept by a
renaming. On these rest `FreeGPUsType`, `FragmentationBounds` and, through
`SomeMaximum`, `CandidatesExist`: ranking excludes no Node. `CandidateLoad` bounds what a
preference is worth. On Nodes of four GPUs `HalfNodePlaced` says where each profile
puts a Pod of two, and `FragmentationOfThree`, through `TotalOfOne` to `TotalOfThree`,
what the metric makes of three such Nodes.

### PlacementProofs

The invariant says that annotations are those of the request, that running Pods
and only those have a Node, which meets the requirement, and that on every Node
the requests of its Pods fit. That last part lets `FreeGPUs`, which stops at zero, be
exact (`NeverOversubscribed`).

`PreferenceMovesHalfANode` holds up to 50 GPUs per Node and not beyond: the
preference outweighs at most 50 of the 100 points of the resource score, but that
score is rounded down, and on a Node of, say, 101 GPUs the best one may be fuller
by 51. `CandidateLoad` has the exact bound, less than 51 hundredths of a Node.

### BenchmarkRunnerProofs

Layers of invariants, each proved from those before it:

1. `Types`, with the workloads counted so far: a result lists at most four.
2. `Recorded` and `NothingLeftBehind`: an earlier run has its result or is among the
   unwritten; without an error the AIJobs of earlier runs are gone.
3. `SchedulerKnown`: at the steps after the rollout the running Scheduler has the
   profile of the run, because each run changes the ConfigMap before it
   annotates the Deployment, and a Scheduler of the current generation started
   after that. The same for the restore, whose stamp is either new or was never
   replaced.
4. `Apart`: nothing exists of a run to come, and without an error nothing in use of
   one that is over.
5. `Told`: the holders seen to run keep running and were bound under the profile
   of the run; the result says how far the run came.
6. `Placed`: no Pod of others runs during a run that is not `shared`, so the free
   GPUs the Scheduler sees are those the run's own holders leave; the spreading
   profile then puts each on an empty Node, the packing one the second beside the
   first and the third elsewhere. `ProfilesDiffer` assumes the lab's three Nodes of
   four GPUs, as the numbers in it do.

### WorkerReportsProofs and DevicePluginProofs

`WorkerInv` relates the position of each worker to its log, return value and exit
code (`Progress`, `Ending`), and these to what the waits have earned it (`Earned`);
`CollectorInv` says that the log that was read is a prefix of the worker's, and
that a snapshot taken earlier saw no more than is true now. A report that
contradicts the exit would need a record the worker did not write.

For the device plugin, what a Node advertises is what the process at the other
end of the stream has, or, after a disturbance, had (`AdvertisedAreServed`); a
socket that is not stale has a process that listens (`SocketIsServed`); a kubelet
that is down has no endpoint (`DownKubeletForgets`); and as long as nothing was
disturbed no stream breaks and a request meets the process that advertised its
devices (`Undisturbed`), which is the part of `AllocationsFit` about refusals.

### ExercisesProofs

The invariant has five parts. `Untouched`: nothing exists of a run that has not
begun. `Chains`: objects appear and disappear along the chain of owners, and
progress needs the object it is about. `Replaced`: which controller Pods may exist
at which step. `OnPath`, `Established` and `ObservedLast`: the step is one of the
scenario's, and each observation made before it still holds as far as a success
relies on it. `Diagnosed` and `EvidenceFollows`: what the capacity exercise was told,
and what of the evidence has been read, written and declared complete.
`ControllerFollowed` is what the restart scenario needs besides: a Ready Pod that was
not listed is the replacement. `AIJobsLive` follows from `Chains`: a Pod knows an
AIJob from its cache, but reports the outcome of the JobSet that has ended, which
stays (`EndedStays`) while the AIJob does.

### Only model-checked

Every safety property of the passing runs is a theorem. Liveness is out of the
prover's reach, as it needs fairness and ENABLED: `Converges`, `TerminalIsReported`,
`NothingLeftBehind` of the controller, `BenchmarkSucceeds`, `NothingRemains`,
`TerminationIsHonoured`, `JobEndsAsConfigured`, `NodeGetsItsGPUs`, `CommandEnds` and
`NothingStays` are checked by TLC only. So are the four statements of the documents that
the code does not keep, which are refuted by a behaviour of a small instance.

## 5. Not modelled

Controller and Scheduler metrics, which have no influence on control flow, and
`MetricsSnapshot`, whose failure is only a warning in the manifest; the rendering of manifests,
YAML, shell and generated deep copies; the content of the worker template
beyond its topology annotations; the errors of the plugin for states
kube-scheduler does not produce; `labctl`'s flag parsing and the check of the
kind context. Timestamps and latencies of a result are left out, as are the
fields that `ValidateResult` finds filled in any result. A call that labctl has
given up takes effect at once or never: a create that the API server accepts only
after the cleanup has listed the objects is left out. In `Exercises` the controller
Pods have no cache of JobSets, and a worker log that ends in the middle of a record
counts as a failing read (`ReadFails`), so `CommandEnds` excuses the error it
causes; what the torn log does to the reports is in `WorkerReports`.

## 6. Plan

Done, in this order: `AIJobController` with its proofs, `Scheduling` and
`Placement`, `BenchmarkRunner`, `Worker` and `WorkerReports`, `DevicePlugin`,
`AIJobLifecycle` and its refinement, `Exercises`, and the proofs of section 4, from the
worker's to the exercises'.

Next:

1. The parts of liveness that are safety: that the controller never goes quiet
   while its status is out of date, which the convergence of `ctl_liveness` rests on,
   as an invariant and a theorem about `AIJobController` with any number of
   processes.
2. What two overlapping controllers still promise: an abstract specification
   weaker than `AIJobLifecycle`, in which a condition may be corrected.
3. Bounds of the quota: that Kueue's admission in `BenchmarkRunner` keeps the
   benchmark within 12 GPUs, with the lemmas about totals.
