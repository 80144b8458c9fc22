------------------------ MODULE AIJobControllerProofs ------------------------
(***************************************************************************)
(* Theorems about AIJobController for every set of controller processes,   *)
(* templates, labels and overrides and every value of the bounds.          *)
(***************************************************************************)
EXTENDS AIJobController, TLAPS

-----------------------------------------------------------------------------
(* The inductive invariant. *)

\* What a Reconcile call holds between its writes.
LocalsComplete ==
    \A c \in Controllers :
       /\ pc[c] \in {"create", "update"} => /\ local[c].job # None
                                            /\ local[c].jobSet # None
       /\ pc[c] = "create" => local[c].jobSet.suspend
       /\ pc[c] = "status" => /\ local[c].job # None
                              /\ local[c].status # None
                              /\ local[c].status.gen = local[c].job.gen

\* A copy that carries the stored version is the stored object; the JobSet
\* about to be updated differs from it only in what reconcileOwnedFields owns.
FreshCopies ==
    \A c \in Controllers :
       /\ <<c, "cache">> \in freshJob => seen[c].job = job
       /\ <<c, "cache">> \in freshJobSet => seen[c].jobSet = jobSet
       /\ <<c, "local">> \in freshJob /\ pc[c] \in {"create", "update", "status"}
             => local[c].job = job
       /\ <<c, "local">> \in freshJobSet /\ pc[c] = "update" /\ jobSet # None
             => /\ local[c].jobSet.template = jobSet.template
                /\ "run" \notin Overrides /\ ~local[c].jobSet.suspend => ~jobSet.suspend

IInv == TypeOK /\ LocalsComplete /\ FreshCopies

-----------------------------------------------------------------------------
(* Types of what the controller computes. *)

LEMMA ComputedTypes ==
    ASSUME NEW j \in AIJobs
    PROVE  /\ DesiredJobSet(j) \in JobSets
           /\ StatusQueueNotFound(j) \in Statuses
           /\ \A js \in JobSets : /\ ReconcileOwnedFields(js, j) \in JobSets
                                  /\ StatusFromJobSet(j, js) \in Statuses
<1>1. DesiredJobSet(j) \in JobSets
  BY DEF AIJobs, JobSets, DesiredJobSet, JobSetConditions
<1>2. StatusQueueNotFound(j) \in Statuses
  BY DEF AIJobs, StatusQueueNotFound, Statuses
<1>3. \A js \in JobSets : ReconcileOwnedFields(js, j) \in JobSets
  BY DEF AIJobs, JobSets, ReconcileOwnedFields
<1>4. \A js \in JobSets : StatusFromJobSet(j, js) \in Statuses
  BY DEF AIJobs, JobSets, StatusFromJobSet, Statuses
<1> QED BY <1>1, <1>2, <1>3, <1>4

LEMMA NoneIsNoObject == \A x \in AIJobs \cup JobSets \cup Statuses : x # None
BY NoneAssumption

-----------------------------------------------------------------------------

LEMMA InitIInv == Init => IInv
<1> SUFFICES ASSUME Init PROVE IInv
  OBVIOUS
<1>1. TypeOK
  BY DEF Init, TypeOK, NoLocals, Copies
<1>2. LocalsComplete
  BY DEF Init, LocalsComplete
<1>3. FreshCopies
  BY DEF Init, FreshCopies
<1> QED BY <1>1, <1>2, <1>3 DEF IInv

-----------------------------------------------------------------------------
(* Type correctness, one step per action. *)

LEMMA RetryTypes ==
    ASSUME TypeOK, NEW c \in Controllers, Retry(c), disturbances' \in Nat
    PROVE  TypeOK'
BY DEF TypeOK, Retry, Return, DropCopies, NoLocals, cluster, Copies

LEMMA StoredTypes ==
    ASSUME TypeOK, NEW js \in JobSets
    PROVE  Stored(js) \in JobSets
<1>1. CASE jobSet = None
  BY <1>1 DEF Stored
<1>2. CASE jobSet # None
  BY <1>2 DEF Stored, TypeOK, JobSets
<1> QED BY <1>1, <1>2

LEMMA JobSetWrittenTypes ==
    ASSUME TypeOK, NEW c \in Controllers, JobSetWritten(c), disturbances' \in Nat,
           local[c].job # None, local[c].jobSet # None
    PROVE  TypeOK'
<1>1. local[c].job \in AIJobs /\ local[c].jobSet \in JobSets
  BY DEF TypeOK
<1>2. Stored(local[c].jobSet) \in JobSets
  BY <1>1, StoredTypes
<1>3. StatusFromJobSet(local[c].job, Stored(local[c].jobSet)) \in Statuses
  BY <1>1, <1>2, ComputedTypes
<1> QED BY <1>2, <1>3 DEF TypeOK, JobSetWritten, Copies

LEMMA BeginTypes ==
    ASSUME TypeOK, NEW c \in Controllers, BeginReconcile(c)
    PROVE  TypeOK'
<1> DEFINE j == seen[c].job
           found == seen[c].jobSet
           mutated == IF found = None THEN DesiredJobSet(j) ELSE ReconcileOwnedFields(found, j)
           status == IF seen[c].queue THEN StatusFromJobSet(j, mutated)
                                      ELSE StatusQueueNotFound(j)
<1>1. CASE j = None
  BY <1>1 DEF BeginReconcile, TypeOK, cluster
<1>2. CASE j # None
  <2>1. j \in AIJobs
    BY <1>2 DEF TypeOK
  <2>2. mutated \in JobSets
    BY <2>1, ComputedTypes DEF TypeOK
  <2>3. status \in Statuses
    BY <2>1, <2>2, ComputedTypes
  <2>4. CopyFreshness(freshJob, <<c, "cache">>, <<c, "local">>) \subseteq Copies
        /\ CopyFreshness(freshJobSet, <<c, "cache">>, <<c, "local">>) \subseteq Copies
    BY DEF CopyFreshness, Copies, TypeOK
  <2> HIDE DEF mutated, status
  <2>5. freshJob' \subseteq Copies /\ freshJobSet' \subseteq Copies
    BY <1>2, <2>4 DEF BeginReconcile, TypeOK
  <2>6. /\ pc' \in [Controllers -> {"down", "idle", "create", "update", "status"}]
        /\ dirty' \in [Controllers -> BOOLEAN]
    BY <1>2 DEF BeginReconcile, TypeOK
  <2>7. local' \in [Controllers -> [job : AIJobs \cup {None},
                                    jobSet : JobSets \cup {None},
                                    status : Statuses \cup {None}]]
    <3>1. \/ local' = [local EXCEPT ![c] = [job |-> j, jobSet |-> None, status |-> status]]
          \/ local' = [local EXCEPT ![c] = [job |-> j, jobSet |-> mutated, status |-> None]]
      BY <1>2 DEF BeginReconcile, mutated, status
    <3> QED BY <2>1, <2>2, <2>3, <3>1 DEF TypeOK
  <2> QED BY <2>5, <2>6, <2>7 DEF BeginReconcile, TypeOK, cluster
<1> QED BY <1>1, <1>2

LEMMA WriteTypes ==
    ASSUME TypeOK, LocalsComplete, NEW c \in Controllers,
           \/ CreateJobSet(c) \/ UpdateJobSet(c) \/ UpdateStatus(c)
           \/ CallFails(c) \/ ResponseLost(c)
    PROVE  TypeOK'
<1>1. CASE CreateJobSet(c)
  BY <1>1, RetryTypes, JobSetWrittenTypes DEF CreateJobSet, LocalsComplete, TypeOK
<1>2. CASE UpdateJobSet(c)
  BY <1>2, RetryTypes, JobSetWrittenTypes DEF UpdateJobSet, LocalsComplete, TypeOK
<1>3. CASE UpdateStatus(c)
  <2>1. local[c].status \in Statuses
    BY <1>3 DEF UpdateStatus, LocalsComplete, TypeOK
  <2>2. timer' \in [Controllers -> BOOLEAN] \/ Retry(c)
    BY <1>3, <2>1 DEF UpdateStatus, Finish, TypeOK, Statuses
  <2>3. CASE Retry(c)
    BY <1>3, <2>3, RetryTypes DEF UpdateStatus, TypeOK
  <2>4. CASE ~Retry(c)
    <3>1. Finish(c)
      BY <1>3, <2>4 DEF UpdateStatus
    <3>2. pc' \in [Controllers -> {"down", "idle", "create", "update", "status"}]
      BY <3>1 DEF Finish, Return, TypeOK
    <3>3. local' \in [Controllers -> [job : AIJobs \cup {None},
                                      jobSet : JobSets \cup {None},
                                      status : Statuses \cup {None}]]
      BY <3>1 DEF Finish, Return, TypeOK, NoLocals
    <3>4. job' \in AIJobs \cup {None}
      <4>1. job' = job \/ (job # None /\ job' = [job EXCEPT !.status = local[c].status])
        BY <1>3, <2>4 DEF UpdateStatus, cluster
      <4> QED BY <2>1, <4>1 DEF TypeOK, AIJobs
    <3>5. freshJob' \subseteq Copies /\ freshJobSet' \subseteq Copies
      BY <1>3, <2>4 DEF UpdateStatus, DropCopies, TypeOK
    <3>6. UNCHANGED <<jobSet, queue, admitted, lastUid, seen, dirty, disturbances>>
      BY <1>3, <2>4 DEF UpdateStatus, cluster
    <3> QED BY <2>2, <2>4, <3>2, <3>3, <3>4, <3>5, <3>6 DEF TypeOK
  <2> QED BY <2>3, <2>4
<1>4. CASE CallFails(c)
  BY <1>4, RetryTypes DEF CallFails, TypeOK
<1>5. CASE ResponseLost(c)
  <2>1. jobSet' \in JobSets \cup {None}
    <3>1. jobSet' = jobSet \/ (local[c].jobSet \in JobSets /\ jobSet' = Stored(local[c].jobSet))
      BY <1>5 DEF ResponseLost, LocalsComplete, TypeOK
    <3> QED BY <3>1, StoredTypes DEF TypeOK
  <2>2. job' \in AIJobs \cup {None}
    <3>1. \/ job' = job
          \/ /\ local[c].status \in Statuses
             /\ job # None
             /\ job' = [job EXCEPT !.status = local[c].status]
      BY <1>5 DEF ResponseLost, LocalsComplete, TypeOK
    <3> QED BY <3>1 DEF TypeOK, AIJobs
  <2>3. freshJob' \subseteq Copies /\ freshJobSet' \subseteq Copies
    BY <1>5 DEF ResponseLost, TypeOK
  <2>4. /\ pc' \in [Controllers -> {"down", "idle", "create", "update", "status"}]
        /\ dirty' \in [Controllers -> BOOLEAN]
        /\ local' \in [Controllers -> [job : AIJobs \cup {None},
                                       jobSet : JobSets \cup {None},
                                       status : Statuses \cup {None}]]
    BY <1>5 DEF ResponseLost, Return, TypeOK, NoLocals
  <2>5. UNCHANGED <<queue, admitted, lastUid, seen, timer>> /\ disturbances' \in Nat
    BY <1>5 DEF ResponseLost, TypeOK
  <2> QED BY <2>1, <2>2, <2>3, <2>4, <2>5 DEF TypeOK
<1> QED BY <1>1, <1>2, <1>3, <1>4, <1>5

LEMMA ProcessTypes ==
    ASSUME TypeOK, NEW c \in Controllers,
           \/ SyncJob(c) \/ SyncJobSet(c) \/ SyncQueue(c) \/ RequeueTimer(c)
           \/ StartController(c) \/ CrashController(c)
    PROVE  TypeOK'
<1>1. CASE SyncJob(c)
  BY <1>1 DEF SyncJob, TypeOK, cluster, Copies
<1>2. CASE SyncJobSet(c)
  <2>1. seen' \in [Controllers -> [job : AIJobs \cup {None},
                                   jobSet : JobSets \cup {None},
                                   queue : BOOLEAN]]
    BY <1>2 DEF SyncJobSet, TypeOK
  <2>2. freshJobSet' \subseteq Copies /\ dirty' \in [Controllers -> BOOLEAN]
    BY <1>2 DEF SyncJobSet, TypeOK, Copies
  <2> QED BY <1>2, <2>1, <2>2 DEF SyncJobSet, TypeOK, cluster
<1>3. CASE SyncQueue(c)
  BY <1>3 DEF SyncQueue, TypeOK, cluster
<1>4. CASE RequeueTimer(c)
  BY <1>4 DEF RequeueTimer, TypeOK, cluster
<1>5. CASE StartController(c)
  BY <1>5 DEF StartController, TypeOK, cluster, Copies
<1>6. CASE CrashController(c)
  BY <1>6 DEF CrashController, TypeOK, cluster, NoLocals
<1> QED BY <1>1, <1>2, <1>3, <1>4, <1>5, <1>6

LEMMA EnvironmentTypes ==
    ASSUME TypeOK, Environment
    PROVE  TypeOK'
<1> USE DEF process
<1>1. CASE UserCreates
  BY <1>1 DEF UserCreates, TypeOK, AIJobs, NoStatus, Statuses, JobSetConditions
<1>2. CASE UserEdits
  <2>1. job' \in AIJobs
    <3>1. job \in AIJobs
      BY <1>2 DEF UserEdits, TypeOK
    <3>2. CASE \E l \in Labels : job' = [job EXCEPT !.label = l]
      BY <3>1, <3>2 DEF AIJobs
    <3>3. CASE \E o \in Overrides : job' = [job EXCEPT !.override = o, !.gen = @ + 1]
      <4>1. PICK o \in Overrides : job' = [job EXCEPT !.override = o, !.gen = @ + 1]
        BY <3>3
      <4>2. job' = [job EXCEPT !.override = o, !.gen = job.gen + 1] /\ job.gen + 1 \in Nat
        BY <3>1, <4>1 DEF AIJobs
      <4> QED BY <3>1, <4>2 DEF AIJobs
    <3> QED BY <1>2, <3>2, <3>3 DEF UserEdits
  <2>2. freshJob' = {} /\ UNCHANGED <<jobSet, queue, admitted, lastUid, freshJobSet, disturbances>>
    BY <1>2 DEF UserEdits
  <2>3. UNCHANGED <<seen, pc, local, dirty, timer>>
    BY <1>2 DEF UserEdits
  <2> QED BY <2>1, <2>2, <2>3 DEF TypeOK
<1>3. CASE UserDeletes
  BY <1>3 DEF UserDeletes, TypeOK
<1>4. CASE QueueCreated \/ QueueDeleted
  <2>0. queue' \in BOOLEAN
    BY <1>4 DEF QueueCreated, QueueDeleted
  <2>1. disturbances' \in Nat
    <3>1. disturbances' = disturbances \/ disturbances' = disturbances + 1
      BY <1>4 DEF QueueCreated, QueueDeleted
    <3> QED BY <3>1 DEF TypeOK
  <2>2. UNCHANGED <<job, jobSet, admitted, lastUid, freshJob, freshJobSet>>
    BY <1>4 DEF QueueCreated, QueueDeleted
  <2>3. UNCHANGED <<seen, pc, local, dirty, timer>>
    BY <1>4 DEF QueueCreated, QueueDeleted
  <2> QED BY <2>0, <2>1, <2>2, <2>3 DEF TypeOK
<1>5. CASE GarbageCollect
  BY <1>5 DEF GarbageCollect, TypeOK
<1>6. CASE KueueAdmits
  BY <1>6 DEF KueueAdmits, TypeOK
<1>7. CASE KueueSetsSuspend
  BY <1>7 DEF KueueSetsSuspend, JobSetChanges, Unfinished, TypeOK, JobSets
<1>8. CASE KueueEvicts
  <2>0. jobSet' \in JobSets
    <3>1. jobSet \in JobSets /\ jobSet' = [jobSet EXCEPT !.suspend = TRUE]
      BY <1>8 DEF KueueEvicts, JobSetChanges, Unfinished, TypeOK
    <3> QED BY <3>1 DEF JobSets
  <2>1. disturbances' \in Nat
    <3>1. disturbances' = disturbances + 1
      BY <1>8 DEF KueueEvicts
    <3> QED BY <3>1 DEF TypeOK
  <2>2. freshJobSet' = {} /\ admitted' = FALSE /\ UNCHANGED <<job, queue, lastUid, freshJob>>
    BY <1>8 DEF KueueEvicts, JobSetChanges
  <2>3. UNCHANGED <<seen, pc, local, dirty, timer>>
    BY <1>8 DEF KueueEvicts, JobSetChanges
  <2> QED BY <2>0, <2>1, <2>2, <2>3 DEF TypeOK
<1>9. CASE JobSetReports
  BY <1>9 DEF JobSetReports, JobSetChanges, Unfinished, TypeOK, JobSets, JobSetConditions
<1> QED BY <1>1, <1>2, <1>3, <1>4, <1>5, <1>6, <1>7, <1>8, <1>9 DEF Environment

LEMMA NextTypes ==
    ASSUME TypeOK, LocalsComplete, [Next]_vars
    PROVE  TypeOK'
<1>1. CASE Environment
  BY <1>1, EnvironmentTypes
<1>2. ASSUME NEW c \in Controllers, Process(c) PROVE TypeOK'
  BY <1>2, BeginTypes, WriteTypes, ProcessTypes DEF Process, ReconcileStep
<1>3. CASE UNCHANGED vars
  BY <1>3 DEF vars, cluster, process, TypeOK
<1> QED BY <1>1, <1>2, <1>3 DEF Next

-----------------------------------------------------------------------------
(* The generation a status carries, and what a Reconcile call holds. *)

LEMMA ComputedValues ==
    ASSUME NEW j \in AIJobs
    PROVE  /\ StatusQueueNotFound(j).gen = j.gen
           /\ DesiredJobSet(j).suspend
           /\ \A js \in JobSets :
                 /\ StatusFromJobSet(j, js).gen = j.gen
                 /\ ReconcileOwnedFields(js, j).template = js.template
                 /\ "run" \notin Overrides /\ ~ReconcileOwnedFields(js, j).suspend
                       => ~js.suspend
<1>1. StatusQueueNotFound(j).gen = j.gen
  BY DEF StatusQueueNotFound, AIJobs, Statuses
<1>2. DesiredJobSet(j).suspend
  BY DEF DesiredJobSet
<1>3. ASSUME NEW js \in JobSets
      PROVE  /\ StatusFromJobSet(j, js).gen = j.gen
             /\ ReconcileOwnedFields(js, j).template = js.template
  BY DEF StatusFromJobSet, ReconcileOwnedFields, JobSets
<1>4. ASSUME NEW js \in JobSets, "run" \notin Overrides,
             ~ReconcileOwnedFields(js, j).suspend
      PROVE  ~js.suspend
  <2>1. j.override = "none" \/ j.override = "hold"
    BY <1>4, OverridesAssumption DEF AIJobs
  <2>2. ReconcileOwnedFields(js, j).suspend
          = IF j.override = "none" THEN js.suspend ELSE j.override = "hold"
    BY DEF ReconcileOwnedFields, JobSets
  <2> QED BY <1>4, <2>1, <2>2
<1> QED BY <1>1, <1>2, <1>3, <1>4

\* What BeginReconcile leaves behind, in the terms of the invariant.
LEMMA BeginEffect ==
    ASSUME TypeOK, NEW c \in Controllers, BeginReconcile(c)
    PROVE  /\ \A x \in Controllers \ {c} : pc'[x] = pc[x] /\ local'[x] = local[x]
           /\ \/ pc'[c] = "idle"
              \/ /\ pc'[c] = "status"
                 /\ local'[c].job = seen[c].job /\ seen[c].job # None
                 /\ local'[c].status # None
                 /\ local'[c].status.gen = seen[c].job.gen
              \/ /\ pc'[c] = "create"
                 /\ local'[c].job = seen[c].job /\ seen[c].job # None
                 /\ local'[c].jobSet # None /\ local'[c].jobSet.suspend
              \/ /\ pc'[c] = "update"
                 /\ local'[c].job = seen[c].job /\ seen[c].job # None
                 /\ seen[c].jobSet # None
                 /\ local'[c].jobSet # None
                 /\ local'[c].jobSet.template = seen[c].jobSet.template
                 /\ "run" \notin Overrides /\ ~local'[c].jobSet.suspend
                       => ~seen[c].jobSet.suspend
<1> DEFINE j == seen[c].job
           found == seen[c].jobSet
           mutated == IF found = None THEN DesiredJobSet(j) ELSE ReconcileOwnedFields(found, j)
           status == IF seen[c].queue THEN StatusFromJobSet(j, mutated)
                                      ELSE StatusQueueNotFound(j)
<1>1. pc \in [Controllers -> {"down", "idle", "create", "update", "status"}]
      /\ DOMAIN local = Controllers
  BY DEF TypeOK
<1>2. CASE j = None
  BY <1>1, <1>2 DEF BeginReconcile
<1>3. CASE j # None
  <2>1. j \in AIJobs
    BY <1>3 DEF TypeOK
  <2>2. mutated \in JobSets
    BY <2>1, ComputedTypes DEF TypeOK
  <2>3. status \in Statuses /\ status.gen = j.gen
    BY <2>1, <2>2, ComputedTypes, ComputedValues
  <2>4. mutated # None /\ status # None
    BY <2>2, <2>3, NoneIsNoObject
  <2>5. found = None => mutated.suspend
    BY <2>1, ComputedValues
  <2>6. found # None => /\ mutated.template = found.template
                        /\ "run" \notin Overrides /\ ~mutated.suspend => ~found.suspend
    BY <2>1, ComputedValues DEF TypeOK
  <2> HIDE DEF mutated, status
  <2>7. \/ /\ pc' = [pc EXCEPT ![c] = "status"]
           /\ local' = [local EXCEPT ![c] = [job |-> j, jobSet |-> None, status |-> status]]
        \/ /\ found = None
           /\ pc' = [pc EXCEPT ![c] = "create"]
           /\ local' = [local EXCEPT ![c] = [job |-> j, jobSet |-> mutated, status |-> None]]
        \/ /\ found # None
           /\ pc' = [pc EXCEPT ![c] = "update"]
           /\ local' = [local EXCEPT ![c] = [job |-> j, jobSet |-> mutated, status |-> None]]
    BY <1>3 DEF BeginReconcile, mutated, status
  <2> QED BY <1>1, <1>3, <2>3, <2>4, <2>5, <2>6, <2>7
<1> QED BY <1>2, <1>3

LEMMA ReturnLocals ==
    ASSUME TypeOK, LocalsComplete, NEW c \in Controllers, Return(c)
    PROVE  LocalsComplete'
BY DEF TypeOK, LocalsComplete, Return

LEMMA JobSetWrittenLocals ==
    ASSUME TypeOK, LocalsComplete, NEW c \in Controllers, JobSetWritten(c),
           local[c].job # None, local[c].jobSet # None
    PROVE  LocalsComplete'
<1>1. local[c].job \in AIJobs /\ local[c].jobSet \in JobSets
  BY DEF TypeOK
<1> DEFINE status == StatusFromJobSet(local[c].job, Stored(local[c].jobSet))
<1>2. status \in Statuses /\ status.gen = local[c].job.gen
  BY <1>1, StoredTypes, ComputedTypes, ComputedValues
<1>3. status # None
  BY <1>2, NoneIsNoObject
<1> HIDE DEF status
<1>4. /\ pc' = [pc EXCEPT ![c] = "status"]
      /\ local' = [local EXCEPT ![c].jobSet = None, ![c].status = status]
  BY DEF JobSetWritten, status
<1> QED BY <1>1, <1>2, <1>3, <1>4 DEF TypeOK, LocalsComplete

LEMMA NextLocals ==
    ASSUME TypeOK, LocalsComplete, [Next]_vars
    PROVE  LocalsComplete'
<1>1. CASE UNCHANGED <<pc, local>>
  BY <1>1 DEF LocalsComplete
<1>2. ASSUME NEW c \in Controllers, Process(c) PROVE LocalsComplete'
  <2>1. CASE BeginReconcile(c)
    BY <2>1, BeginEffect DEF LocalsComplete
  <2>2. CASE CreateJobSet(c)
    BY <2>2, JobSetWrittenLocals, ReturnLocals DEF CreateJobSet, Retry, LocalsComplete
  <2>3. CASE UpdateJobSet(c)
    BY <2>3, JobSetWrittenLocals, ReturnLocals DEF UpdateJobSet, Retry, LocalsComplete
  <2>4. CASE UpdateStatus(c) \/ CallFails(c) \/ ResponseLost(c)
    BY <2>4, ReturnLocals DEF UpdateStatus, CallFails, ResponseLost, Finish, Retry
  <2>5. CASE SyncJob(c) \/ SyncJobSet(c) \/ SyncQueue(c) \/ RequeueTimer(c)
    BY <2>5, <1>1 DEF SyncJob, SyncJobSet, SyncQueue, RequeueTimer
  <2>6. CASE StartController(c) \/ CrashController(c)
    BY <2>6 DEF StartController, CrashController, LocalsComplete, TypeOK
  <2> QED BY <1>2, <2>1, <2>2, <2>3, <2>4, <2>5, <2>6 DEF Process, ReconcileStep
<1>3. CASE Environment
  BY <1>1, <1>3 DEF Environment, UserCreates, UserEdits, UserDeletes, QueueCreated,
     QueueDeleted, GarbageCollect, KueueAdmits, KueueSetsSuspend, KueueEvicts,
     JobSetReports, JobSetChanges, process
<1>4. CASE UNCHANGED vars
  BY <1>1, <1>4 DEF vars, process
<1> QED BY <1>2, <1>3, <1>4 DEF Next

-----------------------------------------------------------------------------
(* Copies that carry the stored version. *)

LEMMA FreshnessIsInherited ==
    ASSUME NEW fresh, NEW c \in Controllers
    PROVE  LET after == CopyFreshness(fresh, <<c, "cache">>, <<c, "local">>) IN
           /\ <<c, "local">> \in after => <<c, "cache">> \in fresh
           /\ \A x \in Controllers : <<x, "cache">> \in after <=> <<x, "cache">> \in fresh
           /\ \A x \in Controllers \ {c} :
                 <<x, "local">> \in after <=> <<x, "local">> \in fresh
BY DEF CopyFreshness

LEMMA ReturnCopies ==
    ASSUME TypeOK, FreshCopies, NEW c \in Controllers, Return(c),
           freshJob' \subseteq freshJob, freshJobSet' \subseteq freshJobSet, seen' = seen,
           job' = job \/ freshJob' = {}, jobSet' = jobSet \/ freshJobSet' = {}
    PROVE  FreshCopies'
BY DEF TypeOK, FreshCopies, Return

LEMMA BeginCopies ==
    ASSUME TypeOK, FreshCopies, NEW c \in Controllers, BeginReconcile(c)
    PROVE  FreshCopies'
<1>1. UNCHANGED <<job, jobSet, seen>>
  BY DEF BeginReconcile, cluster
<1>2. CASE seen[c].job = None
  BY <1>1, <1>2 DEF BeginReconcile, FreshCopies
<1>3. CASE seen[c].job # None
  <2>1. freshJob' = CopyFreshness(freshJob, <<c, "cache">>, <<c, "local">>)
    BY <1>3 DEF BeginReconcile
  <2>2. \/ freshJobSet' = CopyFreshness(freshJobSet, <<c, "cache">>, <<c, "local">>)
        \/ freshJobSet' = freshJobSet /\ pc'[c] = "status"
    BY <1>3 DEF BeginReconcile, TypeOK
  <2>3. ASSUME NEW x \in Controllers
        PROVE  /\ <<x, "cache">> \in freshJob' => seen'[x].job = job'
               /\ <<x, "cache">> \in freshJobSet' => seen'[x].jobSet = jobSet'
    BY <1>1, <2>1, <2>2, FreshnessIsInherited DEF FreshCopies
  <2>4. ASSUME NEW x \in Controllers,
               <<x, "local">> \in freshJob', pc'[x] \in {"create", "update", "status"}
        PROVE  local'[x].job = job'
    <3>1. CASE x = c
      <4>1. <<c, "cache">> \in freshJob
        BY <2>1, <2>4, <3>1, FreshnessIsInherited
      <4>2. seen[c].job = job
        BY <4>1 DEF FreshCopies
      <4> QED BY <1>1, <2>4, <3>1, <4>2, BeginEffect
    <3>2. CASE x # c
      <4>1. <<x, "local">> \in freshJob
        BY <2>1, <2>4, <3>2, FreshnessIsInherited
      <4>2. pc'[x] = pc[x] /\ local'[x] = local[x]
        BY <3>2, BeginEffect
      <4> QED BY <1>1, <2>4, <4>1, <4>2 DEF FreshCopies
    <3> QED BY <3>1, <3>2
  <2>5. ASSUME NEW x \in Controllers,
               <<x, "local">> \in freshJobSet', pc'[x] = "update", jobSet' # None
        PROVE  /\ local'[x].jobSet.template = jobSet'.template
               /\ "run" \notin Overrides /\ ~local'[x].jobSet.suspend => ~jobSet'.suspend
    <3>1. CASE x = c
      <4>1. <<c, "cache">> \in freshJobSet
        BY <2>2, <2>5, <3>1, FreshnessIsInherited
      <4>2. seen[c].jobSet = jobSet
        BY <4>1 DEF FreshCopies
      <4> QED BY <1>1, <2>5, <3>1, <4>2, BeginEffect
    <3>2. CASE x # c
      <4>1. <<x, "local">> \in freshJobSet
        BY <2>2, <2>5, <3>2, FreshnessIsInherited
      <4>2. pc'[x] = pc[x] /\ local'[x] = local[x]
        BY <3>2, BeginEffect
      <4> QED BY <1>1, <2>5, <4>1, <4>2 DEF FreshCopies
    <3> QED BY <3>1, <3>2
  <2> QED BY <2>3, <2>4, <2>5 DEF FreshCopies
<1> QED BY <1>2, <1>3

LEMMA JobSetWrittenCopies ==
    ASSUME TypeOK, FreshCopies, NEW c \in Controllers, JobSetWritten(c),
           pc[c] \in {"create", "update"}
    PROVE  FreshCopies'
<1>1. freshJobSet' = {} /\ UNCHANGED <<job, freshJob, seen>>
  BY DEF JobSetWritten
<1>2. ASSUME NEW x \in Controllers,
             <<x, "local">> \in freshJob', pc'[x] \in {"create", "update", "status"}
      PROVE  pc[x] \in {"create", "update", "status"} /\ local'[x].job = local[x].job
  <2>1. CASE x = c
    BY <2>1 DEF JobSetWritten, TypeOK
  <2>2. CASE x # c
    BY <1>2, <2>2 DEF JobSetWritten, TypeOK
  <2> QED BY <2>1, <2>2
<1> QED BY <1>1, <1>2 DEF FreshCopies

LEMMA NextCopies ==
    ASSUME TypeOK, FreshCopies, [Next]_vars
    PROVE  FreshCopies'
<1>1. ASSUME NEW c \in Controllers, Process(c) PROVE FreshCopies'
  <2>1. CASE BeginReconcile(c)
    BY <2>1, BeginCopies
  <2>2. CASE Retry(c)
    BY <2>2, ReturnCopies DEF Retry, DropCopies, cluster
  <2>3. CASE CreateJobSet(c) \/ UpdateJobSet(c)
    BY <2>2, <2>3, JobSetWrittenCopies DEF CreateJobSet, UpdateJobSet
  <2>4. CASE UpdateStatus(c)
    BY <2>2, <2>4, ReturnCopies DEF UpdateStatus, Finish, DropCopies, cluster
  <2>5. CASE CallFails(c)
    BY <2>2, <2>5 DEF CallFails
  <2>6. CASE ResponseLost(c)
    BY <2>6, ReturnCopies DEF ResponseLost
  <2>7. CASE SyncJob(c)
    <3>1. \A x \in Controllers :
             /\ seen'[x].jobSet = seen[x].jobSet
             /\ seen'[x].job = IF x = c THEN job ELSE seen[x].job
             /\ <<x, "local">> \in freshJob' => <<x, "local">> \in freshJob
             /\ x # c /\ <<x, "cache">> \in freshJob' => <<x, "cache">> \in freshJob
      BY <2>7 DEF SyncJob, TypeOK
    <3> QED BY <2>7, <3>1 DEF SyncJob, FreshCopies, cluster
  <2>8. CASE SyncJobSet(c)
    <3>1. \A x \in Controllers :
             /\ seen'[x].job = seen[x].job
             /\ seen'[x].jobSet = IF x = c THEN jobSet ELSE seen[x].jobSet
             /\ <<x, "local">> \in freshJobSet' => <<x, "local">> \in freshJobSet
             /\ x # c /\ <<x, "cache">> \in freshJobSet' => <<x, "cache">> \in freshJobSet
      BY <2>8 DEF SyncJobSet, TypeOK
    <3> QED BY <2>8, <3>1 DEF SyncJobSet, FreshCopies, cluster
  <2>9. CASE SyncQueue(c)
    BY <2>9 DEF SyncQueue, FreshCopies, TypeOK, cluster
  <2>10. CASE RequeueTimer(c)
    BY <2>10 DEF RequeueTimer, FreshCopies, cluster
  <2>11. CASE StartController(c)
    BY <2>11 DEF StartController, FreshCopies, TypeOK, cluster
  <2>12. CASE CrashController(c)
    BY <2>12 DEF CrashController, FreshCopies, TypeOK, cluster
  <2> QED BY <1>1, <2>1, <2>3, <2>4, <2>5, <2>6, <2>7, <2>8, <2>9, <2>10, <2>11, <2>12
          DEF Process, ReconcileStep
<1>2. CASE Environment
  <2>1. UNCHANGED <<seen, pc, local>>
    BY <1>2 DEF Environment, UserCreates, UserEdits, UserDeletes, QueueCreated,
       QueueDeleted, GarbageCollect, KueueAdmits, KueueSetsSuspend, KueueEvicts,
       JobSetReports, JobSetChanges, process
  <2>2. freshJob' = {} \/ UNCHANGED <<freshJob, job>>
    BY <1>2 DEF Environment, UserCreates, UserEdits, UserDeletes, QueueCreated,
       QueueDeleted, GarbageCollect, KueueAdmits, KueueSetsSuspend, KueueEvicts,
       JobSetReports, JobSetChanges
  <2>3. freshJobSet' = {} \/ UNCHANGED <<freshJobSet, jobSet>>
    BY <1>2 DEF Environment, UserCreates, UserEdits, UserDeletes, QueueCreated,
       QueueDeleted, GarbageCollect, KueueAdmits, KueueSetsSuspend, KueueEvicts,
       JobSetReports, JobSetChanges
  <2> QED BY <2>1, <2>2, <2>3 DEF FreshCopies
<1>3. CASE UNCHANGED vars
  BY <1>3 DEF vars, cluster, process, FreshCopies
<1> QED BY <1>1, <1>2, <1>3 DEF Next

-----------------------------------------------------------------------------

LEMMA InductiveInvariant == Spec => []IInv
<1>1. IInv /\ [Next]_vars => IInv'
  BY NextTypes, NextLocals, NextCopies DEF IInv
<1> QED BY InitIInv, <1>1, PTL DEF Spec

\* Every state of every behaviour has well-typed objects, caches and locals.
THEOREM TypeCorrect == Spec => []TypeOK
<1>1. IInv => TypeOK
  BY DEF IInv
<1> QED BY InductiveInvariant, <1>1, PTL

-----------------------------------------------------------------------------
(* The writes of the controller. *)

\* The AIJob's status changes only in an accepted status write, which is made
\* from a copy of the stored AIJob.
LEMMA StatusWrites ==
    ASSUME IInv, [Next]_vars, job # None, job' # None, job'.uid = job.uid,
           job'.status # job.status
    PROVE  job'.status.gen = job.gen /\ job'.gen = job.gen
<1> DEFINE Written(c) == /\ <<c, "local">> \in freshJob
                         /\ pc[c] = "status"
                         /\ job' = [job EXCEPT !.status = local[c].status]
<1>1. ASSUME NEW c \in Controllers, Process(c) PROVE Written(c)
  <2>1. job' # job
    OBVIOUS
  <2>2. CASE UpdateStatus(c)
    BY <2>1, <2>2 DEF UpdateStatus, Retry, cluster
  <2>3. CASE ResponseLost(c)
    BY <2>1, <2>3 DEF ResponseLost
  <2> QED BY <1>1, <2>1, <2>2, <2>3 DEF Process, ReconcileStep, BeginReconcile,
          CreateJobSet, UpdateJobSet, JobSetWritten, Retry, CallFails, SyncJob,
          SyncJobSet, SyncQueue, RequeueTimer, StartController, CrashController, cluster
<1>2. ASSUME NEW c \in Controllers, Written(c)
      PROVE  job'.status.gen = job.gen /\ job'.gen = job.gen
  <2>1. local[c].job = job /\ local[c].status.gen = local[c].job.gen
    BY <1>2 DEF IInv, FreshCopies, LocalsComplete
  <2>2. job \in AIJobs
    BY DEF IInv, TypeOK
  <2> QED BY <1>2, <2>1, <2>2 DEF AIJobs
<1>3. CASE Environment
  <2>1. job \in AIJobs
    BY DEF IInv, TypeOK
  <2>2. job' = job \/ UserEdits
    BY <1>3 DEF Environment, UserCreates, UserDeletes, QueueCreated,
       QueueDeleted, GarbageCollect, KueueAdmits, KueueSetsSuspend, KueueEvicts,
       JobSetReports, JobSetChanges
  <2>3. CASE UserEdits
    BY <2>1, <2>3 DEF UserEdits, AIJobs
  <2> QED BY <2>2, <2>3
<1>4. CASE UNCHANGED vars
  BY <1>4 DEF vars, cluster
<1> QED BY <1>1, <1>2, <1>3, <1>4 DEF Next

\* Whatever the caches missed, an accepted status write describes the stored
\* generation of the stored AIJob.
THEOREM ObservedGenerationCorrect == Spec => ObservedGenerationIsCurrent
<1>1. IInv /\ [Next]_vars
        => [ (job # None /\ job' # None /\ job'.uid = job.uid /\ job'.status # job.status)
             => job'.status.gen = job.gen /\ job'.gen = job.gen ]_vars
  BY StatusWrites
<1> QED BY InductiveInvariant, <1>1, PTL DEF Spec, ObservedGenerationIsCurrent

\* What a controller does to a JobSet: it creates one, suspended, where none is
\* stored, or updates the stored one from a copy of it.
LEMMA ControllerJobSetWrites ==
    ASSUME IInv, NEW c \in Controllers, Process(c)
    PROVE  /\ admitted' = admitted
           /\ \/ jobSet' = jobSet
              \/ jobSet = None /\ jobSet'.suspend
              \/ /\ jobSet # None
                 /\ jobSet'.template = jobSet.template
                 /\ "run" \notin Overrides /\ ~jobSet'.suspend => ~jobSet.suspend
<1>1. admitted' = admitted
  BY DEF Process, ReconcileStep, BeginReconcile, CreateJobSet, UpdateJobSet, JobSetWritten,
     UpdateStatus, Retry, CallFails, ResponseLost, SyncJob, SyncJobSet, SyncQueue,
     RequeueTimer, StartController, CrashController, cluster
<1>2. \/ jobSet' = jobSet
      \/ /\ pc[c] = "create" /\ jobSet = None
         /\ jobSet' = Stored(local[c].jobSet)
      \/ /\ pc[c] = "update" /\ jobSet # None /\ <<c, "local">> \in freshJobSet
         /\ jobSet' = Stored(local[c].jobSet)
  BY DEF Process, ReconcileStep, BeginReconcile, CreateJobSet, UpdateJobSet, JobSetWritten,
     UpdateStatus, Retry, CallFails, ResponseLost, SyncJob, SyncJobSet, SyncQueue,
     RequeueTimer, StartController, CrashController, cluster
<1>3. CASE pc[c] = "create" /\ jobSet = None /\ jobSet' = Stored(local[c].jobSet)
  BY <1>1, <1>3 DEF IInv, LocalsComplete, Stored
<1>4. CASE /\ pc[c] = "update" /\ jobSet # None /\ <<c, "local">> \in freshJobSet
           /\ jobSet' = Stored(local[c].jobSet)
  <2>1. local[c].jobSet \in JobSets
    BY <1>4 DEF IInv, LocalsComplete, TypeOK
  <2>2. jobSet' = [local[c].jobSet EXCEPT !.cond = jobSet.cond]
    BY <1>4 DEF Stored
  <2>3. jobSet'.template = local[c].jobSet.template /\ jobSet'.suspend = local[c].jobSet.suspend
    BY <2>1, <2>2 DEF JobSets
  <2> QED BY <1>1, <1>4, <2>3 DEF IInv, FreshCopies
<1> QED BY <1>1, <1>2, <1>3, <1>4

LEMMA EnvironmentJobSetWrites ==
    ASSUME IInv, Environment
    PROVE  \/ UNCHANGED <<jobSet, admitted>>
           \/ jobSet' = None
           \/ /\ jobSet # None
              /\ jobSet'.template = jobSet.template
              /\ \/ ~jobSet'.suspend => admitted'
                 \/ UNCHANGED admitted /\ jobSet'.suspend = jobSet.suspend
<1>1. CASE UNCHANGED <<jobSet, admitted>>
  BY <1>1
<1>2. CASE GarbageCollect
  BY <1>2 DEF GarbageCollect
<1>3. CASE KueueAdmits
  BY <1>3 DEF KueueAdmits, Unfinished
<1>4. CASE KueueSetsSuspend \/ KueueEvicts \/ JobSetReports
  <2>1. jobSet \in JobSets
    BY <1>4 DEF KueueSetsSuspend, KueueEvicts, JobSetReports, Unfinished, IInv, TypeOK
  <2>2. CASE KueueSetsSuspend
    BY <2>1, <2>2 DEF KueueSetsSuspend, JobSetChanges, Unfinished, JobSets
  <2>3. CASE KueueEvicts
    BY <2>1, <2>3 DEF KueueEvicts, JobSetChanges, Unfinished, JobSets
  <2>4. CASE JobSetReports
    BY <2>1, <2>4 DEF JobSetReports, JobSetChanges, Unfinished, JobSets
  <2> QED BY <1>4, <2>2, <2>3, <2>4
<1> QED BY <1>1, <1>2, <1>3, <1>4 DEF Environment, UserCreates, UserEdits, UserDeletes,
        QueueCreated, QueueDeleted

\* No reconcile, from whatever copy it starts, rewrites the worker template of
\* an existing JobSet.
THEOREM TemplateStable == Spec => TemplateNeverRewritten
<1>1. IInv /\ [Next]_vars
        => [(jobSet # None /\ jobSet' # None) => jobSet'.template = jobSet.template]_vars
  BY ControllerJobSetWrites, EnvironmentJobSetWrites DEF Next, vars, cluster
<1> QED BY InductiveInvariant, <1>1, PTL DEF Spec, TemplateNeverRewritten

\* As long as no AIJob asks for suspend = false, a JobSet that is not suspended
\* holds quota: no controller undoes what Kueue decided.
THEOREM OnlyKueueResumes ==
    ASSUME "run" \notin Overrides
    PROVE  Spec => []NeverRunsUnadmitted
<1>1. Init => NeverRunsUnadmitted
  BY DEF Init, NeverRunsUnadmitted
<1>2. IInv /\ NeverRunsUnadmitted /\ [Next]_vars => NeverRunsUnadmitted'
  <2> SUFFICES ASSUME IInv, NeverRunsUnadmitted, [Next]_vars, jobSet' # None, ~jobSet'.suspend
               PROVE  admitted'
    BY DEF NeverRunsUnadmitted
  <2>1. CASE Environment
    BY <2>1, EnvironmentJobSetWrites DEF NeverRunsUnadmitted
  <2>2. ASSUME NEW c \in Controllers, Process(c) PROVE admitted'
    BY <2>2, ControllerJobSetWrites DEF NeverRunsUnadmitted
  <2>3. CASE UNCHANGED vars
    BY <2>3 DEF NeverRunsUnadmitted, vars, cluster
  <2> QED BY <2>1, <2>2, <2>3 DEF Next
<1> QED BY InductiveInvariant, <1>1, <1>2, PTL DEF Spec

=============================================================================
