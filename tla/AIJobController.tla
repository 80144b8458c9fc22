--------------------------- MODULE AIJobController ---------------------------
(***************************************************************************)
(* The AIJob controller: src/internal/controller/aijob_controller.go.      *)
(*                                                                         *)
(* One namespaced name is followed: the AIJob that carries it, the JobSet  *)
(* of the same name, and the LocalQueue the AIJob selects.  Each running   *)
(* controller process reads these objects from informer caches that may    *)
(* lag, and writes them through the API server, which accepts an update    *)
(* only from a copy that carries the stored resourceVersion.  Around the   *)
(* controller act the user, the garbage collector, Kueue and the JobSet    *)
(* controller; they are external to the repository and are modelled from   *)
(* what the controller's code, tests and docs rely on.                     *)
(*                                                                         *)
(* Resource versions are abstracted to what the API server does with them: *)
(* freshJob and freshJobSet are the copies that still carry the version    *)
(* stored in the API server.  Every write empties the set.                 *)
(***************************************************************************)
EXTENDS Naturals

CONSTANTS
    Controllers,     \* controller processes; a rollout may run two at once
    Templates,       \* values of the immutable AIJob spec fields
    Labels,          \* values of the AIJob's lab labels
    Reported,        \* the lifecycle conditions the JobSet controller reports
    Overrides,       \* subset of {"none", "run", "hold"}: spec.jobSetOverrides
    MaxUid,          \* bound: AIJobs created under the name
    MaxGeneration,   \* bound: generation of one AIJob
    MaxDisturbances, \* bound: crashes, API errors, evictions, queue deletions
    None             \* the absent object

ASSUME BoundsAssumption == MaxUid \in Nat /\ MaxGeneration \in Nat /\ MaxDisturbances \in Nat
ASSUME ReportedAssumption == Reported \subseteq {"Suspended", "Resumed", "Completed", "Failed"}
ASSUME OverridesAssumption == Overrides \subseteq {"none", "run", "hold"}

VARIABLES
    job,           \* the stored AIJob, or None
    jobSet,        \* the stored JobSet, or None
    queue,         \* does the LocalQueue exist?
    admitted,      \* has Kueue reserved quota for the JobSet's Workload?
    lastUid,       \* UID of the last AIJob created under the name
    seen,          \* informer cache of each controller
    freshJob,      \* copies of the AIJob that carry the stored version
    freshJobSet,   \* copies of the JobSet that carry the stored version
    pc,            \* where each controller is in Reconcile
    local,         \* the local variables of that Reconcile call
    dirty,         \* is the request in the controller's workqueue?
    timer,         \* is a delayed requeue pending?
    disturbances   \* disturbances so far

cluster == <<job, jobSet, queue, admitted, lastUid>>
process == <<seen, pc, local, dirty, timer>>
vars == <<cluster, freshJob, freshJobSet, process, disturbances>>

-----------------------------------------------------------------------------
(* The objects. *)

JobSetConditions == {"Unset"} \cup Reported
Terminal == Reported \cap {"Completed", "Failed"}

\* AIJobStatus: gen is ObservedGeneration, cond the JobSet lifecycle condition,
\* queue the QueueReady condition.
Statuses == [gen : Nat, cond : JobSetConditions, queue : {"Unset", "Ready", "NotFound"}]
NoStatus == [gen |-> 0, cond |-> "Unset", queue |-> "Unset"]

AIJobs == [uid : Nat, gen : Nat, template : Templates, label : Labels,
           override : Overrides, status : Statuses]
JobSets == [owner : Nat, template : Templates, label : Labels,
            suspend : BOOLEAN, cond : JobSetConditions]

ASSUME NoneAssumption == None \notin AIJobs \cup JobSets \cup Statuses

NoOwner == 0   \* no owner reference; UIDs start at 1

Copies == Controllers \X {"cache", "local"}
NoLocals == [job |-> None, jobSet |-> None, status |-> None]

\* The versions a read carries along: the copy is as fresh as its source.
CopyFreshness(fresh, from, to) ==
    IF from \in fresh THEN fresh \cup {to} ELSE fresh \ {to}

-----------------------------------------------------------------------------
(* What the controller computes. *)

\* Variant: the JobSet is created without an owner reference.
DesiredJobSetUnowned(j) ==
    [owner |-> NoOwner, template |-> j.template, label |-> j.label,
     suspend |-> TRUE, cond |-> "Unset"]

\* desiredJobSet: the JobSet for a new AIJob.  Without overrides Suspend stays
\* unset; the JobSet is stored suspended either way, because Kueue's webhook
\* suspends every queued JobSet at creation.
DesiredJobSet(j) ==
    [owner |-> j.uid, template |-> j.template, label |-> j.label,
     suspend |-> TRUE, cond |-> "Unset"]

\* Variant: the template is copied on every reconcile, not only at creation.
ReconcileOwnedFieldsEveryTime(js, j) ==
    [js EXCEPT !.owner = j.uid, !.label = j.label, !.template = j.template,
               !.suspend = IF j.override = "none" THEN @ ELSE j.override = "hold"]

\* Variant: the labels are written only at creation.
ReconcileOwnedFieldsOnce(js, j) ==
    [js EXCEPT !.owner = j.uid,
               !.suspend = IF j.override = "none" THEN @ ELSE j.override = "hold"]

\* The mutate function of CreateOrUpdate on an existing JobSet.
\* SetControllerReference replaces a reference to the same kind and name,
\* whatever its UID; the labels follow the AIJob; Suspend is written exactly
\* when the AIJob has overrides (an override that only sets a policy carries
\* suspend = false); the spec written at creation stays.
ReconcileOwnedFields(js, j) ==
    [js EXCEPT !.owner = j.uid,
               !.label = j.label,
               !.suspend = IF j.override = "none" THEN @ ELSE j.override = "hold"]

\* Variant: QueueReady is not added to the projected conditions.
StatusFromJobSetOnly(j, js) ==
    [gen |-> j.gen, cond |-> js.cond]

\* statusFromJobSet then statusWithQueue(ready = true).
StatusFromJobSet(j, js) ==
    [gen |-> j.gen, cond |-> js.cond, queue |-> "Ready"]

\* Variant: the earlier conditions are dropped.
StatusQueueNotFoundOnly(j) ==
    [NoStatus EXCEPT !.gen = j.gen, !.queue = "NotFound"]

\* The status of an AIJob whose LocalQueue is missing: the earlier conditions
\* are carried over, QueueReady turns False.
StatusQueueNotFound(j) ==
    [j.status EXCEPT !.gen = j.gen, !.queue = "NotFound"]


-----------------------------------------------------------------------------
(* Reconcile, one action per call that can interleave with the cluster. *)

\* Reconcile up to its first write: the AIJob, its LocalQueue and, in
\* CreateOrUpdate, the JobSet are read from the caches, and what is to be
\* written is computed.  Reads of the caches do not touch the cluster, and each
\* cache lags on its own, so the three reads are taken in one step.  A missing
\* AIJob ends the call, a missing LocalQueue leaves the JobSet alone, and an
\* unchanged JobSet is not written.
BeginReconcile(c) ==
    LET j       == seen[c].job
        found   == seen[c].jobSet
        mutated == IF found = None THEN DesiredJobSet(j) ELSE ReconcileOwnedFields(found, j)
        status  == IF seen[c].queue THEN StatusFromJobSet(j, mutated)
                                    ELSE StatusQueueNotFound(j)
    IN
    /\ pc[c] = "idle"
    /\ dirty[c]
    /\ dirty' = [dirty EXCEPT ![c] = FALSE]
    /\ IF j = None
       THEN UNCHANGED <<pc, local, freshJob, freshJobSet>>
       ELSE /\ freshJob' = CopyFreshness(freshJob, <<c, "cache">>, <<c, "local">>)
            /\ IF ~seen[c].queue \/ mutated = found
               THEN /\ pc' = [pc EXCEPT ![c] = "status"]
                    /\ local' = [local EXCEPT ![c] =
                                   [job |-> j, jobSet |-> None, status |-> status]]
                    /\ UNCHANGED freshJobSet
               ELSE /\ pc' = [pc EXCEPT ![c] = IF found = None THEN "create" ELSE "update"]
                    /\ local' = [local EXCEPT ![c] =
                                   [job |-> j, jobSet |-> mutated, status |-> None]]
                    /\ freshJobSet' =
                           CopyFreshness(freshJobSet, <<c, "cache">>, <<c, "local">>)
    /\ UNCHANGED <<cluster, seen, timer, disturbances>>

\* The call ends and its copies are dropped.
Return(c) ==
    /\ pc' = [pc EXCEPT ![c] = "idle"]
    /\ local' = [local EXCEPT ![c] = NoLocals]

DropCopies(c) ==
    /\ freshJob' = freshJob \ {<<c, "local">>}
    /\ freshJobSet' = freshJobSet \ {<<c, "local">>}

\* Reconcile returns an error: the rate limiter puts the request back.
Retry(c) ==
    /\ Return(c)
    /\ DropCopies(c)
    /\ dirty' = [dirty EXCEPT ![c] = TRUE]
    /\ UNCHANGED <<cluster, seen, timer>>

\* What the API server stores: an update leaves the status subresource alone.
Stored(js) == IF jobSet = None THEN js ELSE [js EXCEPT !.cond = jobSet.cond]

\* The JobSet write is accepted; the status is computed from the response.
JobSetWritten(c) ==
    /\ jobSet' = Stored(local[c].jobSet)
    /\ freshJobSet' = {}
    /\ pc' = [pc EXCEPT ![c] = "status"]
    /\ local' = [local EXCEPT
                   ![c].jobSet = None,
                   ![c].status = StatusFromJobSet(local[c].job, Stored(local[c].jobSet))]
    /\ UNCHANGED <<job, queue, admitted, lastUid, freshJob, seen, dirty, timer>>

\* Create fails with AlreadyExists when the cache missed an existing JobSet.
CreateJobSet(c) ==
    /\ pc[c] = "create"
    /\ IF jobSet = None THEN JobSetWritten(c) ELSE Retry(c)
    /\ UNCHANGED disturbances

\* Variant: the update ignores the stored version.
UpdateJobSetUnchecked(c) ==
    /\ pc[c] = "update"
    /\ IF jobSet # None THEN JobSetWritten(c) ELSE Retry(c)
    /\ UNCHANGED disturbances

\* Update fails with NotFound or Conflict unless the copy is the stored version.
UpdateJobSet(c) ==
    /\ pc[c] = "update"
    /\ IF jobSet # None /\ <<c, "local">> \in freshJobSet
          THEN JobSetWritten(c)
          ELSE Retry(c)
    /\ UNCHANGED disturbances

\* Variant: a missing queue is reported and not looked for again.
FinishWithoutRequeue(c) ==
    /\ Return(c)
    /\ UNCHANGED timer

\* Reconcile returns without error; a missing queue schedules a delayed requeue.
Finish(c) ==
    /\ Return(c)
    /\ timer' = [timer EXCEPT ![c] = @ \/ local[c].status.queue = "NotFound"]

\* Variant: the status is written whatever version the AIJob has.
UpdateStatusUnchecked(c) ==
    /\ pc[c] = "status"
    /\ IF job # None
       THEN /\ job' = [job EXCEPT !.status = local[c].status]
            /\ freshJob' = {}
            /\ freshJobSet' = freshJobSet \ {<<c, "local">>}
            /\ Finish(c)
            /\ UNCHANGED <<jobSet, queue, admitted, lastUid, seen, dirty>>
       ELSE Retry(c)
    /\ UNCHANGED disturbances

\* reconcileStatus and the end of Reconcile.  An equal status is not written;
\* a status update is refused unless the copy is the stored version.
UpdateStatus(c) ==
    /\ pc[c] = "status"
    /\ \/ /\ local[c].job.status = local[c].status
          /\ Finish(c)
          /\ DropCopies(c)
          /\ UNCHANGED <<cluster, seen, dirty>>
       \/ /\ local[c].job.status # local[c].status
          /\ job # None
          /\ <<c, "local">> \in freshJob
          /\ job' = [job EXCEPT !.status = local[c].status]
          /\ freshJob' = {}
          /\ freshJobSet' = freshJobSet \ {<<c, "local">>}
          /\ Finish(c)
          /\ UNCHANGED <<jobSet, queue, admitted, lastUid, seen, dirty>>
       \/ /\ local[c].job.status # local[c].status
          /\ ~(job # None /\ <<c, "local">> \in freshJob)
          /\ Retry(c)
    /\ UNCHANGED disturbances

\* A write fails for a reason of its own and does not take effect.  (A failing
\* read puts the request back too, which leaves the state as it was.)
CallFails(c) ==
    /\ pc[c] \in {"create", "update", "status"}
    /\ disturbances < MaxDisturbances
    /\ disturbances' = disturbances + 1
    /\ Retry(c)

\* A write takes effect but its response is lost: to Reconcile it has failed.
ResponseLost(c) ==
    /\ disturbances < MaxDisturbances
    /\ disturbances' = disturbances + 1
    /\ \/ /\ \/ pc[c] = "create" /\ jobSet = None
             \/ pc[c] = "update" /\ jobSet # None /\ <<c, "local">> \in freshJobSet
          /\ jobSet' = Stored(local[c].jobSet)
          /\ freshJobSet' = {}
          /\ freshJob' = freshJob \ {<<c, "local">>}
          /\ UNCHANGED job
       \/ /\ pc[c] = "status"
          /\ local[c].job.status # local[c].status
          /\ job # None
          /\ <<c, "local">> \in freshJob
          /\ job' = [job EXCEPT !.status = local[c].status]
          /\ freshJob' = {}
          /\ freshJobSet' = freshJobSet \ {<<c, "local">>}
          /\ UNCHANGED jobSet
    /\ Return(c)
    /\ dirty' = [dirty EXCEPT ![c] = TRUE]
    /\ UNCHANGED <<queue, admitted, lastUid, seen, timer>>

ReconcileStep(c) ==
    \/ BeginReconcile(c)
    \/ CreateJobSet(c)
    \/ UpdateJobSet(c)
    \/ UpdateStatus(c)

-----------------------------------------------------------------------------
(* The controller process: caches, watches, requeue timer, restarts. *)

\* SetupWithManager: AIJob and owned JobSet events put the request in the
\* queue; LocalQueues are cached because they are read, but not watched.
SyncJob(c) ==
    /\ pc[c] # "down"
    /\ <<c, "cache">> \notin freshJob
    /\ seen' = [seen EXCEPT ![c].job = job]
    /\ freshJob' = freshJob \cup {<<c, "cache">>}
    /\ dirty' = [dirty EXCEPT ![c] = TRUE]
    /\ UNCHANGED <<cluster, freshJobSet, pc, local, timer, disturbances>>

\* Variant: the controller does not watch the JobSets it owns.
SyncJobSetUnwatched(c) ==
    /\ pc[c] # "down"
    /\ <<c, "cache">> \notin freshJobSet
    /\ seen' = [seen EXCEPT ![c].jobSet = jobSet]
    /\ freshJobSet' = freshJobSet \cup {<<c, "cache">>}
    /\ UNCHANGED <<cluster, freshJob, pc, local, dirty, timer, disturbances>>

SyncJobSet(c) ==
    /\ pc[c] # "down"
    /\ <<c, "cache">> \notin freshJobSet
    /\ seen' = [seen EXCEPT ![c].jobSet = jobSet]
    /\ freshJobSet' = freshJobSet \cup {<<c, "cache">>}
    /\ dirty' = [dirty EXCEPT ![c] = TRUE]
    /\ UNCHANGED <<cluster, freshJob, pc, local, timer, disturbances>>

SyncQueue(c) ==
    /\ pc[c] # "down"
    /\ seen[c].queue # queue
    /\ seen' = [seen EXCEPT ![c].queue = queue]
    /\ UNCHANGED <<cluster, freshJob, freshJobSet, pc, local, dirty, timer, disturbances>>

RequeueTimer(c) ==
    /\ timer[c]
    /\ timer' = [timer EXCEPT ![c] = FALSE]
    /\ dirty' = [dirty EXCEPT ![c] = TRUE]
    /\ UNCHANGED <<cluster, freshJob, freshJobSet, seen, pc, local, disturbances>>

\* A starting manager lists the objects before it reconciles any of them; the
\* listed objects are queued.
StartController(c) ==
    /\ pc[c] = "down"
    /\ pc' = [pc EXCEPT ![c] = "idle"]
    /\ seen' = [seen EXCEPT ![c] = [job |-> job, jobSet |-> jobSet, queue |-> queue]]
    /\ freshJob' = freshJob \cup {<<c, "cache">>}
    /\ freshJobSet' = freshJobSet \cup {<<c, "cache">>}
    /\ dirty' = [dirty EXCEPT ![c] = job # None \/ jobSet # None]
    /\ UNCHANGED <<cluster, local, timer, disturbances>>

\* The process dies between any two calls; what it had written stays.
CrashController(c) ==
    /\ pc[c] # "down"
    /\ disturbances < MaxDisturbances
    /\ disturbances' = disturbances + 1
    /\ pc' = [pc EXCEPT ![c] = "down"]
    /\ local' = [local EXCEPT ![c] = NoLocals]
    /\ seen' = [seen EXCEPT ![c] = [job |-> None, jobSet |-> None, queue |-> FALSE]]
    /\ freshJob' = freshJob \ {<<c, "cache">>, <<c, "local">>}
    /\ freshJobSet' = freshJobSet \ {<<c, "cache">>, <<c, "local">>}
    /\ dirty' = [dirty EXCEPT ![c] = FALSE]
    /\ timer' = [timer EXCEPT ![c] = FALSE]
    /\ UNCHANGED cluster

-----------------------------------------------------------------------------
(* The user, who creates, edits, deletes and recreates the AIJob. *)

UserCreates ==
    /\ job = None
    /\ lastUid < MaxUid
    /\ lastUid' = lastUid + 1
    /\ \E t \in Templates, l \in Labels, o \in Overrides :
          job' = [uid |-> lastUid + 1, gen |-> 1, template |-> t, label |-> l,
                  override |-> o, status |-> NoStatus]
    /\ freshJob' = {}
    /\ UNCHANGED <<jobSet, queue, admitted, freshJobSet, process, disturbances>>

\* jobSetOverrides is the only mutable part of the spec; labels are metadata
\* and leave the generation alone.
UserEdits ==
    /\ job # None
    /\ \/ \E l \in Labels \ {job.label} : job' = [job EXCEPT !.label = l]
       \/ /\ job.gen < MaxGeneration
          /\ \E o \in Overrides \ {job.override} :
                job' = [job EXCEPT !.override = o, !.gen = @ + 1]
    /\ freshJob' = {}
    /\ UNCHANGED <<jobSet, queue, admitted, lastUid, freshJobSet, process, disturbances>>

UserDeletes ==
    /\ job # None
    /\ job' = None
    /\ freshJob' = {}
    /\ UNCHANGED <<jobSet, queue, admitted, lastUid, freshJobSet, process, disturbances>>

QueueCreated ==
    /\ ~queue
    /\ queue' = TRUE
    /\ UNCHANGED <<job, jobSet, admitted, lastUid, freshJob, freshJobSet, process,
                   disturbances>>

QueueDeleted ==
    /\ queue
    /\ disturbances < MaxDisturbances
    /\ disturbances' = disturbances + 1
    /\ queue' = FALSE
    /\ UNCHANGED <<job, jobSet, admitted, lastUid, freshJob, freshJobSet, process>>

-----------------------------------------------------------------------------
(* The garbage collector, Kueue and the JobSet controller. *)

\* The garbage collector deletes a JobSet whose owner UID no longer exists.
GarbageCollect ==
    /\ jobSet # None
    /\ jobSet.owner # NoOwner
    /\ ~(job # None /\ job.uid = jobSet.owner)
    /\ jobSet' = None
    /\ admitted' = FALSE
    /\ freshJobSet' = {}
    /\ UNCHANGED <<job, queue, lastUid, freshJob, process, disturbances>>

JobSetChanges(js) ==
    /\ jobSet' = js
    /\ freshJobSet' = {}
    /\ UNCHANGED <<job, queue, lastUid, freshJob, process>>

Unfinished == jobSet # None /\ jobSet.cond \notin Terminal

\* Kueue reserves quota for the whole Workload.
KueueAdmits ==
    /\ Unfinished
    /\ queue
    /\ ~admitted
    /\ admitted' = TRUE
    /\ UNCHANGED <<job, jobSet, queue, lastUid, freshJob, freshJobSet, process, disturbances>>

\* An admitted JobSet is resumed, one that runs without admission is suspended.
KueueSetsSuspend ==
    /\ Unfinished
    /\ jobSet.suspend = admitted
    /\ JobSetChanges([jobSet EXCEPT !.suspend = ~admitted])
    /\ UNCHANGED <<admitted, disturbances>>

\* Preemption suspends the JobSet before its quota is given away.
KueueEvicts ==
    /\ Unfinished
    /\ admitted
    /\ disturbances < MaxDisturbances
    /\ disturbances' = disturbances + 1
    /\ admitted' = FALSE
    /\ JobSetChanges([jobSet EXCEPT !.suspend = TRUE])

JobSetReports ==
    /\ Unfinished
    /\ \E cond \in Reported \cap (IF jobSet.suspend THEN {"Suspended"}
                                  ELSE IF jobSet.cond = "Resumed" THEN Terminal
                                  ELSE {"Resumed"}) :
          /\ cond # jobSet.cond
          /\ JobSetChanges([jobSet EXCEPT !.cond = cond])
    /\ UNCHANGED <<admitted, disturbances>>

-----------------------------------------------------------------------------

Init ==
    /\ job = None
    /\ jobSet = None
    /\ queue \in BOOLEAN
    /\ admitted = FALSE
    /\ lastUid = 0
    /\ seen = [c \in Controllers |-> [job |-> None, jobSet |-> None, queue |-> FALSE]]
    /\ freshJob = {}
    /\ freshJobSet = {}
    /\ pc = [c \in Controllers |-> "down"]
    /\ local = [c \in Controllers |-> NoLocals]
    /\ dirty = [c \in Controllers |-> FALSE]
    /\ timer = [c \in Controllers |-> FALSE]
    /\ disturbances = 0

Process(c) ==
    \/ ReconcileStep(c)
    \/ CallFails(c)
    \/ ResponseLost(c)
    \/ SyncJob(c)
    \/ SyncJobSet(c)
    \/ SyncQueue(c)
    \/ RequeueTimer(c)
    \/ StartController(c)
    \/ CrashController(c)

Environment ==
    \/ UserCreates
    \/ UserEdits
    \/ UserDeletes
    \/ QueueCreated
    \/ QueueDeleted
    \/ GarbageCollect
    \/ KueueAdmits
    \/ KueueSetsSuspend
    \/ KueueEvicts
    \/ JobSetReports

Next == Environment \/ \E c \in Controllers : Process(c)

Spec == Init /\ [][Next]_vars

\* The manager keeps working: reconciles run, watches deliver, timers fire, a
\* dead container is restarted.  The garbage collector and Kueue do their part;
\* the user and the outcome of a run are under no obligation.
Fairness ==
    /\ \A c \in Controllers :
          /\ WF_vars(ReconcileStep(c))
          /\ WF_vars(SyncJob(c))
          /\ WF_vars(SyncJobSet(c))
          /\ WF_vars(SyncQueue(c))
          /\ WF_vars(RequeueTimer(c))
          /\ WF_vars(StartController(c))
    /\ WF_vars(GarbageCollect)
    /\ WF_vars(KueueAdmits)
    /\ WF_vars(KueueSetsSuspend)

FairSpec == Spec /\ Fairness

-----------------------------------------------------------------------------
(* Safety. *)

TypeOK ==
    /\ job \in AIJobs \cup {None}
    /\ jobSet \in JobSets \cup {None}
    /\ queue \in BOOLEAN
    /\ admitted \in BOOLEAN
    /\ lastUid \in Nat
    /\ seen \in [Controllers -> [job : AIJobs \cup {None},
                                 jobSet : JobSets \cup {None},
                                 queue : BOOLEAN]]
    /\ freshJob \subseteq Copies
    /\ freshJobSet \subseteq Copies
    /\ pc \in [Controllers -> {"down", "idle", "create", "update", "status"}]
    /\ local \in [Controllers -> [job : AIJobs \cup {None},
                                  jobSet : JobSets \cup {None},
                                  status : Statuses \cup {None}]]
    /\ dirty \in [Controllers -> BOOLEAN]
    /\ timer \in [Controllers -> BOOLEAN]
    /\ disturbances \in Nat

\* Whatever the caches missed, an accepted status write describes the AIJob
\* that is stored at that moment: its observed generation is the current one,
\* so it never goes back and never belongs to an earlier AIJob of the name
\* (reconcileStatus writes with the version that Reconcile read).
ObservedGenerationIsCurrent ==
    [][ (job # None /\ job' # None /\ job'.uid = job.uid /\ job'.status # job.status)
        => job'.status.gen = job.gen /\ job'.gen = job.gen ]_vars

\* The worker template of an existing JobSet is never rewritten, whichever
\* AIJob, override or stale copy a reconcile works from (reconcileOwnedFields
\* initialises the spec only while CreationTimestamp is zero).
TemplateNeverRewritten ==
    [][ (jobSet # None /\ jobSet' # None) => jobSet'.template = jobSet.template ]_vars

\* A JobSet that may create Pods holds quota: the controller does not resume
\* what Kueue suspended, not even by writing back a stale copy.
NeverRunsUnadmitted ==
    jobSet # None /\ ~jobSet.suspend => admitted

-----------------------------------------------------------------------------
(* The abstract lifecycle this controller implements, for one process. *)

Lifecycle == INSTANCE AIJobLifecycle WITH
    Conditions <- Reported,
    Final      <- Terminal,
    present    <- job # None,
    observed   <- job # None /\ job.status.gen = job.gen,
    owned      <- job # None /\ jobSet # None /\ jobSet.owner = job.uid,
    ended      <- IF job # None /\ jobSet # None /\ jobSet.owner = job.uid
                     /\ jobSet.cond \in Terminal
                  THEN jobSet.cond ELSE "Unset",
    condition  <- IF job = None THEN "Unset" ELSE job.status.cond

\* Seen through its AIJob, every step of the controller, the user, the garbage
\* collector and Kueue is a step of the lifecycle or none: through adoption,
\* collection, a missing queue and lost responses an AIJob reports only about a
\* JobSet it controls, keeps it, says Completed or Failed only as that JobSet has
\* ended, and never withdraws it (Reconcile as a whole).  One controller process.
ImplementsLifecycle == Lifecycle!Spec

-----------------------------------------------------------------------------
(* Liveness, under FairSpec. *)

Projected ==
    /\ job # None
    /\ jobSet # None
    /\ jobSet.owner = job.uid
    /\ jobSet.label = job.label
    /\ job.status.gen = job.gen
    /\ job.status.queue = "Ready"

Finished == jobSet # None /\ jobSet.cond \in Terminal

Settled ==
    /\ job # None
    /\ jobSet # None
    /\ job.status = StatusFromJobSet(job, jobSet)
    /\ \A c \in Controllers : pc[c] = "idle" /\ ~dirty[c]

\* The user leaves the AIJob alone and its queue exists.
Undisturbed(l) == job # None /\ job.label = l /\ queue

\* While the AIJob stays and its LocalQueue exists, the controller ends with
\* one JobSet that carries the AIJob's owner reference and labels and a status
\* of the current generation, after any crash, lost response or conflict, and
\* although nothing notifies it that the queue has come back.
Converges ==
    \A l \in Labels : <>[]Undisturbed(l) => <>[]Projected

\* A JobSet that has finished is reported, and then the controller is quiet:
\* its own writes do not keep it reconciling.
TerminalIsReported ==
    \A l \in Labels : <>[](Undisturbed(l) /\ Finished) => <>[]Settled

\* Once the AIJob is gone for good no JobSet of it remains, although a
\* reconcile that still had the AIJob may create one after the collection.
NothingLeftBehind ==
    <>[](job = None) => <>[](jobSet = None)

-----------------------------------------------------------------------------
(* What a document of the repository says and the code does not ensure. *)

\* docs/tutorial.md: to change workers, image or topology, delete the AIJob and
\* apply it again.  A JobSet controlled by an AIJob runs that AIJob's template.
RunsItsOwnTemplate ==
    job # None /\ jobSet # None /\ jobSet.owner = job.uid
        => jobSet.template = job.template

=============================================================================
