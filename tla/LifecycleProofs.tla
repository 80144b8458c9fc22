---------------------------- MODULE LifecycleProofs ----------------------------
(***************************************************************************)
(* AIJobController implements AIJobLifecycle, for every set of templates,  *)
(* labels, overrides and reported conditions and every value of the        *)
(* bounds, as long as one controller process reconciles the name.          *)
(***************************************************************************)
EXTENDS AIJobControllerProofs

-----------------------------------------------------------------------------
(* The inductive invariant. *)

\* UIDs grow, and one process never looks back: what it works from is no older
\* than the owner of the stored JobSet, which that process wrote itself.
UidsGrow ==
    /\ job # None => job.uid = lastUid /\ job.status.gen <= job.gen
    /\ jobSet # None => jobSet.owner <= lastUid
    /\ \A c \in Controllers :
          /\ seen[c].job # None =>
                /\ seen[c].job.uid <= lastUid
                /\ jobSet # None => jobSet.owner <= seen[c].job.uid
          /\ seen[c].jobSet # None => seen[c].jobSet.owner <= lastUid
          /\ local[c].job # None =>
                /\ local[c].job.uid <= lastUid
                /\ jobSet # None => jobSet.owner <= local[c].job.uid
                /\ seen[c].job # None => local[c].job.uid <= seen[c].job.uid

\* The JobSet to be written is the one of the AIJob that was read, and its
\* version is the stored one only if the cache shows the stored JobSet.
WritesOwn ==
    \A c \in Controllers :
       /\ pc[c] \in {"create", "update"} => local[c].jobSet.owner = local[c].job.uid
       /\ pc[c] = "create" => local[c].jobSet.cond = "Unset"
       /\ <<c, "local">> \in freshJobSet => <<c, "cache">> \in freshJobSet

Owned == job # None /\ jobSet # None /\ jobSet.owner = job.uid

\* A condition that may be reported after another: none is withdrawn for
\* nothing, and a terminal one not at all.
Follows(earlier, later) ==
    /\ earlier # "Unset" => later # "Unset"
    /\ earlier \in Terminal => later = earlier

\* What the AIJob reports comes from the JobSet it controls.
StatusTold ==
    job # None /\ job.status.cond # "Unset"
       => Owned /\ Follows(job.status.cond, jobSet.cond)

\* What the caches show of the AIJob and of its JobSet lies between what the
\* AIJob reports and what is stored.
CachesTold ==
    \A c \in Controllers : job # None =>
       /\ seen[c].jobSet # None /\ seen[c].jobSet.owner = job.uid =>
             /\ Owned
             /\ Follows(job.status.cond, seen[c].jobSet.cond)
             /\ Follows(seen[c].jobSet.cond, jobSet.cond)
       /\ seen[c].job # None /\ seen[c].job.uid = job.uid =>
             Follows(seen[c].job.status.cond, job.status.cond)
       /\ local[c].job # None /\ local[c].job.uid = job.uid =>
             Follows(local[c].job.status.cond, job.status.cond)

\* The status about to be written reports a JobSet the AIJob controls and
\* withdraws nothing that the AIJob it was computed from reports.
StatusFollows ==
    \A c \in Controllers :
       job # None /\ pc[c] = "status" /\ local[c].job.uid = job.uid =>
          /\ Follows(local[c].job.status.cond, local[c].status.cond)
          /\ local[c].status.cond # "Unset" => Owned
          /\ Owned => Follows(local[c].status.cond, jobSet.cond)
          /\ seen[c].jobSet # None /\ seen[c].jobSet.owner = job.uid
                => Follows(local[c].status.cond, seen[c].jobSet.cond)

Told == StatusTold /\ CachesTold /\ StatusFollows

LInv == IInv /\ UidsGrow /\ WritesOwn /\ Told

-----------------------------------------------------------------------------
(* What one step does to what the invariant is about. *)

\* Nothing, or a change that only concerns the queue or the workqueue.
Quiet(c) ==
    /\ UNCHANGED <<job, jobSet, lastUid>>
    /\ seen'[c].job = seen[c].job /\ seen'[c].jobSet = seen[c].jobSet
    /\ pc'[c] = pc[c] /\ local'[c] = local[c]

\* A Reconcile call has read its objects.
Begun(c) ==
    /\ UNCHANGED <<job, jobSet, lastUid, seen>>
    /\ seen[c].job # None
    /\ local'[c].job = seen[c].job
    /\ \/ /\ pc'[c] = "status"
          /\ local'[c].status.cond = seen[c].job.status.cond
       \/ /\ pc'[c] = "status"
          /\ seen[c].jobSet # None
          /\ seen[c].jobSet.owner = seen[c].job.uid
          /\ local'[c].status.cond = seen[c].jobSet.cond
       \/ /\ pc'[c] = "create"
          /\ local'[c].jobSet.owner = seen[c].job.uid
          /\ local'[c].jobSet.cond = "Unset"
       \/ /\ pc'[c] = "update"
          /\ local'[c].jobSet.owner = seen[c].job.uid

Dropped(c) == pc'[c] \in {"idle", "down"} /\ local'[c] = NoLocals

\* A JobSet write is accepted, and its response arrives or not.
JobSetStored(c) ==
    /\ UNCHANGED <<job, lastUid, seen>>
    /\ jobSet' # None
    /\ jobSet'.owner = local[c].jobSet.owner
    /\ \/ /\ pc[c] = "create"
          /\ jobSet = None
          /\ jobSet'.cond = local[c].jobSet.cond
       \/ /\ pc[c] = "update"
          /\ jobSet # None
          /\ <<c, "local">> \in freshJobSet
          /\ jobSet'.cond = jobSet.cond
    /\ \/ Dropped(c)
       \/ /\ pc'[c] = "status"
          /\ local'[c].job = local[c].job
          /\ local'[c].status.cond = jobSet'.cond

\* A status write is accepted.
StatusStored(c) ==
    /\ UNCHANGED <<jobSet, lastUid, seen>>
    /\ pc[c] = "status"
    /\ job # None
    /\ local[c].job = job
    /\ job' = [job EXCEPT !.status = local[c].status]
    /\ Dropped(c)

\* The call ends, or the process does.
Ended(c) ==
    /\ UNCHANGED <<job, jobSet, lastUid>>
    /\ \/ seen'[c].job = seen[c].job /\ seen'[c].jobSet = seen[c].jobSet
       \/ seen'[c].job = None /\ seen'[c].jobSet = None
    /\ Dropped(c)

\* A cache catches up.
Synced(c) ==
    /\ UNCHANGED <<job, jobSet, lastUid>>
    /\ seen'[c].job \in {seen[c].job, job}
    /\ seen'[c].jobSet \in {seen[c].jobSet, jobSet}
    /\ local'[c] = local[c]
    /\ pc'[c] \in {pc[c], "idle"}

LEMMA ComputedStatus ==
    ASSUME NEW j \in AIJobs
    PROVE  /\ StatusQueueNotFound(j).cond = j.status.cond
           /\ DesiredJobSet(j).owner = j.uid
           /\ DesiredJobSet(j).cond = "Unset"
           /\ \A js \in JobSets : /\ StatusFromJobSet(j, js).cond = js.cond
                                  /\ ReconcileOwnedFields(js, j).owner = j.uid
                                  /\ ReconcileOwnedFields(js, j).cond = js.cond
BY DEF StatusQueueNotFound, DesiredJobSet, StatusFromJobSet, ReconcileOwnedFields,
   AIJobs, JobSets, Statuses

LEMMA BeginIsBegun ==
    ASSUME TypeOK, NEW c \in Controllers, BeginReconcile(c)
    PROVE  Quiet(c) \/ Begun(c)
<1> DEFINE j == seen[c].job
           found == seen[c].jobSet
           mutated == IF found = None THEN DesiredJobSet(j) ELSE ReconcileOwnedFields(found, j)
           status == IF seen[c].queue THEN StatusFromJobSet(j, mutated)
                                      ELSE StatusQueueNotFound(j)
<1>1. UNCHANGED <<job, jobSet, lastUid, seen>>
  BY DEF BeginReconcile, cluster
<1>2. c \in DOMAIN pc /\ c \in DOMAIN local
  BY DEF TypeOK
<1>3. CASE j = None
  BY <1>1, <1>3 DEF BeginReconcile, Quiet
<1>4. CASE j # None
  <2>1. j \in AIJobs /\ (found # None => found \in JobSets)
    BY <1>4 DEF TypeOK
  <2>2. mutated \in JobSets
    BY <2>1, ComputedTypes
  <2>3. mutated.owner = j.uid
    BY <2>1, ComputedStatus
  <2>4. mutated.cond = IF found = None THEN "Unset" ELSE found.cond
    BY <2>1, ComputedStatus
  <2>5. status.cond = IF seen[c].queue THEN mutated.cond ELSE j.status.cond
    <3> HIDE DEF mutated
    <3> QED BY <2>1, <2>2, ComputedStatus
  <2>6. mutated = found => found # None
    BY <2>2, NoneIsNoObject
  <2>7. \/ /\ ~seen[c].queue \/ mutated = found
           /\ pc' = [pc EXCEPT ![c] = "status"]
           /\ local' = [local EXCEPT ![c] = [job |-> j, jobSet |-> None, status |-> status]]
        \/ /\ found = None
           /\ pc' = [pc EXCEPT ![c] = "create"]
           /\ local' = [local EXCEPT ![c] = [job |-> j, jobSet |-> mutated, status |-> None]]
        \/ /\ pc' = [pc EXCEPT ![c] = "update"]
           /\ local' = [local EXCEPT ![c] = [job |-> j, jobSet |-> mutated, status |-> None]]
    BY <1>4 DEF BeginReconcile
  <2> HIDE DEF mutated, status
  <2>8. CASE /\ ~seen[c].queue \/ mutated = found
             /\ pc' = [pc EXCEPT ![c] = "status"]
             /\ local' = [local EXCEPT ![c] = [job |-> j, jobSet |-> None, status |-> status]]
    <3>1. pc'[c] = "status" /\ local'[c].job = j /\ local'[c].status = status
      BY <1>2, <2>8
    <3> QED BY <1>1, <1>4, <2>3, <2>4, <2>5, <2>6, <2>8, <3>1 DEF Begun
  <2>9. CASE /\ found = None
             /\ pc' = [pc EXCEPT ![c] = "create"]
             /\ local' = [local EXCEPT ![c] = [job |-> j, jobSet |-> mutated, status |-> None]]
    <3>1. pc'[c] = "create" /\ local'[c].job = j /\ local'[c].jobSet = mutated
      BY <1>2, <2>9
    <3> QED BY <1>1, <1>4, <2>3, <2>4, <2>9, <3>1 DEF Begun
  <2>10. CASE /\ pc' = [pc EXCEPT ![c] = "update"]
              /\ local' = [local EXCEPT ![c] = [job |-> j, jobSet |-> mutated, status |-> None]]
    <3>1. pc'[c] = "update" /\ local'[c].job = j /\ local'[c].jobSet = mutated
      BY <1>2, <2>10
    <3> QED BY <1>1, <1>4, <2>3, <3>1 DEF Begun
  <2> QED BY <2>7, <2>8, <2>9, <2>10
<1> QED BY <1>3, <1>4

LEMMA RetryEnds ==
    ASSUME TypeOK, NEW c \in Controllers, Retry(c)
    PROVE  Ended(c)
BY DEF TypeOK, Retry, Return, Ended, Dropped, cluster

LEMMA WriteIsStored ==
    ASSUME TypeOK, LocalsComplete, NEW c \in Controllers,
           JobSetWritten(c) \/ ResponseLost(c),
           \/ pc[c] = "create" /\ jobSet = None
           \/ pc[c] = "update" /\ jobSet # None /\ <<c, "local">> \in freshJobSet
    PROVE  JobSetStored(c)
<1>1. local[c].job \in AIJobs /\ local[c].jobSet \in JobSets
  BY DEF TypeOK, LocalsComplete
<1>2. Stored(local[c].jobSet) \in JobSets
  BY <1>1, StoredTypes
<1>3. Stored(local[c].jobSet).owner = local[c].jobSet.owner
  BY <1>1 DEF Stored, JobSets
<1>4. Stored(local[c].jobSet).cond
         = IF jobSet = None THEN local[c].jobSet.cond ELSE jobSet.cond
  BY <1>1 DEF Stored, JobSets
<1>5. UNCHANGED <<job, lastUid, seen>> /\ jobSet' = Stored(local[c].jobSet)
  BY DEF JobSetWritten, ResponseLost
<1>6. CASE JobSetWritten(c)
  <2>1. StatusFromJobSet(local[c].job, Stored(local[c].jobSet)).cond
           = Stored(local[c].jobSet).cond
    BY <1>1, <1>2, ComputedStatus
  <2>2. /\ pc'[c] = "status"
        /\ local'[c].job = local[c].job
        /\ local'[c].status
              = StatusFromJobSet(local[c].job, Stored(local[c].jobSet))
    BY <1>6 DEF JobSetWritten, TypeOK
  <2> QED BY <1>2, <1>3, <1>4, <1>5, <2>1, <2>2, NoneIsNoObject DEF JobSetStored
<1>7. CASE ResponseLost(c)
  <2>1. Dropped(c)
    BY <1>7 DEF ResponseLost, Return, Dropped, TypeOK
  <2> QED BY <1>2, <1>3, <1>4, <1>5, <2>1, NoneIsNoObject DEF JobSetStored
<1> QED BY <1>6, <1>7

LEMMA ProcessStep ==
    ASSUME TypeOK, LocalsComplete, FreshCopies, NEW c \in Controllers, Process(c)
    PROVE  \/ Quiet(c) \/ Begun(c) \/ JobSetStored(c) \/ StatusStored(c)
           \/ Ended(c) \/ Synced(c)
<1>1. CASE BeginReconcile(c)
  BY <1>1, BeginIsBegun
<1>2. CASE CreateJobSet(c) \/ UpdateJobSet(c)
  BY <1>2, WriteIsStored, RetryEnds DEF CreateJobSet, UpdateJobSet
<1>3. CASE UpdateStatus(c)
  <2>1. CASE Retry(c)
    BY <2>1, RetryEnds
  <2>2. CASE /\ Finish(c)
             /\ UNCHANGED <<cluster, seen>>
    BY <2>2 DEF Finish, Return, Ended, Dropped, cluster, TypeOK
  <2>3. CASE /\ job # None
             /\ <<c, "local">> \in freshJob
             /\ job' = [job EXCEPT !.status = local[c].status]
             /\ Finish(c)
             /\ UNCHANGED <<jobSet, lastUid, seen>>
    <3>1. pc[c] = "status"
      BY <1>3 DEF UpdateStatus
    <3>2. local[c].job = job
      BY <2>3, <3>1 DEF FreshCopies
    <3> QED BY <2>3, <3>1, <3>2 DEF Finish, Return, StatusStored, Dropped, TypeOK
  <2> QED BY <1>3, <2>1, <2>2, <2>3 DEF UpdateStatus
<1>4. CASE CallFails(c)
  BY <1>4, RetryEnds DEF CallFails
<1>5. CASE ResponseLost(c)
  <2>1. CASE \/ pc[c] = "create" /\ jobSet = None
             \/ pc[c] = "update" /\ jobSet # None /\ <<c, "local">> \in freshJobSet
    BY <1>5, <2>1, WriteIsStored
  <2>2. CASE /\ pc[c] = "status"
             /\ job # None
             /\ <<c, "local">> \in freshJob
             /\ job' = [job EXCEPT !.status = local[c].status]
             /\ UNCHANGED jobSet
    <3>1. local[c].job = job
      BY <2>2 DEF FreshCopies
    <3> QED BY <1>5, <2>2, <3>1 DEF ResponseLost, Return, StatusStored, Dropped, TypeOK
  <2> QED BY <1>5, <2>1, <2>2 DEF ResponseLost
<1>6. CASE SyncJob(c)
  BY <1>6 DEF SyncJob, Synced, TypeOK, cluster
<1>7. CASE SyncJobSet(c)
  BY <1>7 DEF SyncJobSet, Synced, TypeOK, cluster
<1>8. CASE SyncQueue(c)
  BY <1>8 DEF SyncQueue, Quiet, TypeOK, cluster
<1>9. CASE RequeueTimer(c)
  BY <1>9 DEF RequeueTimer, Quiet, cluster
<1>10. CASE StartController(c)
  BY <1>10 DEF StartController, Synced, TypeOK, cluster
<1>11. CASE CrashController(c)
  BY <1>11 DEF CrashController, Ended, Dropped, TypeOK, cluster
<1> QED BY <1>1, <1>2, <1>3, <1>4, <1>5, <1>6, <1>7, <1>8, <1>9, <1>10, <1>11
        DEF Process, ReconcileStep

\* The user creates, edits or deletes the AIJob; the garbage collector deletes
\* a JobSet the AIJob does not control; Kueue and the JobSet controller move on.
Created ==
    /\ job = None
    /\ lastUid' = lastUid + 1
    /\ job' # None
    /\ job'.uid = lastUid + 1 /\ job'.gen = 1 /\ job'.status = NoStatus
    /\ UNCHANGED jobSet

Edited ==
    /\ job # None /\ job' # None
    /\ job'.uid = job.uid /\ job'.status = job.status
    /\ job'.gen \in {job.gen, job.gen + 1}
    /\ UNCHANGED <<jobSet, lastUid>>

Deleted == job # None /\ job' = None /\ UNCHANGED <<jobSet, lastUid>>

Collected ==
    /\ jobSet # None /\ jobSet' = None
    /\ ~Owned
    /\ UNCHANGED <<job, lastUid>>

Moved ==
    /\ jobSet # None /\ jobSet' # None
    /\ jobSet'.owner = jobSet.owner
    /\ Follows(jobSet.cond, jobSet'.cond)
    /\ UNCHANGED <<job, lastUid>>

LEMMA EnvironmentStep ==
    ASSUME TypeOK, Environment
    PROVE  /\ UNCHANGED <<seen, pc, local>>
           /\ \/ Created \/ Edited \/ Deleted \/ Collected \/ Moved
              \/ UNCHANGED <<job, jobSet, lastUid>>
<1>1. UNCHANGED <<seen, pc, local>>
  BY DEF Environment, UserCreates, UserEdits, UserDeletes, QueueCreated,
     QueueDeleted, GarbageCollect, KueueAdmits, KueueSetsSuspend, KueueEvicts,
     JobSetReports, JobSetChanges, process
<1>2. CASE UserCreates
  <2>1. job' \in AIJobs
    BY <1>2, EnvironmentTypes DEF Environment, UserCreates, TypeOK,
       AIJobs, NoStatus, Statuses, JobSetConditions
  <2> QED BY <1>1, <1>2, <2>1, NoneIsNoObject DEF UserCreates, Created
<1>3. CASE UserEdits
  <2>1. job \in AIJobs /\ job # None
    BY <1>3 DEF UserEdits, TypeOK
  <2>2. job' \in AIJobs \cup {None}
    BY <1>3, EnvironmentTypes DEF Environment, TypeOK
  <2>3. \/ \E l \in Labels : job' = [job EXCEPT !.label = l]
        \/ \E o \in Overrides : job' = [job EXCEPT !.override = o, !.gen = job.gen + 1]
    BY <1>3, <2>1 DEF UserEdits, AIJobs
  <2>4. /\ job'.uid = job.uid /\ job'.status = job.status
        /\ job'.gen \in {job.gen, job.gen + 1}
    BY <2>1, <2>3 DEF AIJobs
  <2>5. job' # None
    <3>1. ASSUME NEW l \in Labels, job' = [job EXCEPT !.label = l] PROVE job' \in AIJobs
      BY <2>1, <3>1 DEF AIJobs
    <3>2. ASSUME NEW o \in Overrides, job' = [job EXCEPT !.override = o, !.gen = job.gen + 1]
          PROVE  job' \in AIJobs
      <4>1. job.gen + 1 \in Nat
        BY <2>1 DEF AIJobs
      <4> QED BY <2>1, <3>2, <4>1 DEF AIJobs
    <3> QED BY <2>3, <3>1, <3>2, NoneIsNoObject
  <2> QED BY <1>1, <1>3, <2>1, <2>4, <2>5 DEF UserEdits, Edited
<1>4. CASE UserDeletes
  BY <1>1, <1>4 DEF UserDeletes, Deleted
<1>5. CASE GarbageCollect
  BY <1>1, <1>5 DEF GarbageCollect, Collected, Owned
<1>6. CASE KueueSetsSuspend \/ KueueEvicts
  <2>1. jobSet \in JobSets /\ jobSet # None
    BY <1>6 DEF KueueSetsSuspend, KueueEvicts, Unfinished, TypeOK
  <2>2. PICK b \in BOOLEAN : jobSet' = [jobSet EXCEPT !.suspend = b]
    BY <1>6 DEF KueueSetsSuspend, KueueEvicts, JobSetChanges, TypeOK
  <2>3. jobSet' \in JobSets /\ jobSet'.owner = jobSet.owner /\ jobSet'.cond = jobSet.cond
    BY <2>1, <2>2 DEF JobSets
  <2>4. UNCHANGED <<job, lastUid>>
    BY <1>6 DEF KueueSetsSuspend, KueueEvicts, JobSetChanges
  <2> QED BY <1>1, <2>1, <2>3, <2>4, NoneIsNoObject DEF Moved, Follows
<1>7. CASE JobSetReports
  <2>1. jobSet \in JobSets /\ jobSet # None /\ jobSet.cond \notin Terminal
    BY <1>7 DEF JobSetReports, Unfinished, TypeOK
  <2>2. PICK cond \in Reported : jobSet' = [jobSet EXCEPT !.cond = cond]
    BY <1>7 DEF JobSetReports, JobSetChanges
  <2>3. jobSet' \in JobSets /\ jobSet'.owner = jobSet.owner /\ jobSet'.cond = cond
    BY <2>1, <2>2 DEF JobSets, JobSetConditions
  <2>4. cond # "Unset"
    BY ReportedAssumption
  <2>5. UNCHANGED <<job, lastUid>>
    BY <1>7 DEF JobSetReports, JobSetChanges
  <2> QED BY <1>1, <2>1, <2>3, <2>4, <2>5, NoneIsNoObject DEF Moved, Follows
<1>8. CASE KueueAdmits \/ QueueCreated \/ QueueDeleted
  BY <1>1, <1>8 DEF KueueAdmits, QueueCreated, QueueDeleted
<1> QED BY <1>2, <1>3, <1>4, <1>5, <1>6, <1>7, <1>8 DEF Environment

-----------------------------------------------------------------------------
(* Layer one: UIDs. *)

\* The numbers in the objects, where there are objects.
LEMMA NumbersInObjects ==
    ASSUME TypeOK
    PROVE  /\ lastUid \in Nat
           /\ job # None => job.uid \in Nat /\ job.gen \in Nat /\ job.status.gen \in Nat
           /\ jobSet # None => jobSet.owner \in Nat
           /\ \A c \in Controllers :
                 /\ seen[c].job # None => seen[c].job.uid \in Nat
                 /\ seen[c].jobSet # None => seen[c].jobSet.owner \in Nat
                 /\ local[c].job # None => local[c].job.uid \in Nat
<1>1. lastUid \in Nat /\ (job # None => job \in AIJobs) /\ (jobSet # None => jobSet \in JobSets)
  BY DEF TypeOK
<1>2. ASSUME NEW c \in Controllers
      PROVE  /\ seen[c].job # None => seen[c].job \in AIJobs
             /\ seen[c].jobSet # None => seen[c].jobSet \in JobSets
             /\ local[c].job # None => local[c].job \in AIJobs
  BY DEF TypeOK
<1>3. \A x \in AIJobs : x.uid \in Nat /\ x.gen \in Nat /\ x.status.gen \in Nat
  BY DEF AIJobs, Statuses
<1>4. \A x \in JobSets : x.owner \in Nat
  BY DEF JobSets
<1> QED BY <1>1, <1>2, <1>3, <1>4

LEMMA EnvironmentUids ==
    ASSUME TypeOK, UidsGrow, Environment
    PROVE  UidsGrow'
<1>1. UNCHANGED <<seen, pc, local>>
  BY EnvironmentStep
<1>2. CASE Created
  <2>1. job'.status.gen = 0 /\ job'.gen = 1 /\ job'.uid = lastUid' /\ lastUid' = lastUid + 1
    BY <1>2 DEF Created, NoStatus
  <2>2. jobSet' = jobSet
    BY <1>2 DEF Created
  <2> QED BY <1>1, <2>1, <2>2, NumbersInObjects DEF UidsGrow
<1>3. CASE Edited
  BY <1>1, <1>3, NumbersInObjects DEF Edited, UidsGrow
<1>4. CASE Deleted
  BY <1>1, <1>4 DEF Deleted, UidsGrow
<1>5. CASE Collected
  BY <1>1, <1>5 DEF Collected, UidsGrow
<1>6. CASE Moved
  BY <1>1, <1>6 DEF Moved, UidsGrow
<1>7. CASE UNCHANGED <<job, jobSet, lastUid>>
  BY <1>1, <1>7 DEF UidsGrow
<1> QED BY <1>2, <1>3, <1>4, <1>5, <1>6, <1>7, EnvironmentStep

\* This step needs the one process: a second one may still work for an AIJob
\* of an earlier UID.
LEMMA ProcessUids ==
    ASSUME TypeOK, LocalsComplete, FreshCopies, UidsGrow, WritesOwn,
           NEW c \in Controllers, Controllers = {c}, Process(c)
    PROVE  UidsGrow'
<1>1. CASE Quiet(c)
  BY <1>1 DEF Quiet, UidsGrow
<1>2. CASE Begun(c)
  BY <1>2, NumbersInObjects DEF Begun, UidsGrow
<1>3. CASE JobSetStored(c)
  <2>1. pc[c] \in {"create", "update"} /\ local[c].job # None
    BY <1>3 DEF JobSetStored, LocalsComplete
  <2>2. jobSet'.owner = local[c].job.uid
    BY <1>3, <2>1 DEF JobSetStored, WritesOwn
  <2>3. local'[c].job \in {None, local[c].job}
    BY <1>3 DEF JobSetStored, Dropped, NoLocals
  <2>4. UNCHANGED <<job, lastUid, seen>> /\ jobSet' # None
    BY <1>3 DEF JobSetStored
  <2> QED BY <2>1, <2>2, <2>3, <2>4, NumbersInObjects DEF UidsGrow
<1>4. CASE StatusStored(c)
  <2>1. job \in AIJobs /\ local[c].status \in Statuses /\ local[c].status.gen = job.gen
    BY <1>4 DEF StatusStored, LocalsComplete, TypeOK
  <2>2. job'.uid = job.uid /\ job'.gen = job.gen /\ job'.status = local[c].status
    BY <1>4, <2>1 DEF StatusStored, AIJobs
  <2>3. local'[c].job = None /\ UNCHANGED <<jobSet, lastUid, seen>> /\ job # None
    BY <1>4 DEF StatusStored, Dropped, NoLocals
  <2> QED BY <2>1, <2>2, <2>3, NumbersInObjects DEF UidsGrow
<1>5. CASE Ended(c)
  BY <1>5 DEF Ended, Dropped, NoLocals, UidsGrow
<1>6. CASE Synced(c)
  BY <1>6, NumbersInObjects DEF Synced, UidsGrow
<1> QED BY <1>1, <1>2, <1>3, <1>4, <1>5, <1>6, ProcessStep

LEMMA NextWritesOwn ==
    ASSUME TypeOK, LocalsComplete, FreshCopies, WritesOwn, [Next]_vars
    PROVE  WritesOwn'
<1>1. ASSUME NEW c \in Controllers, Process(c) PROVE WritesOwn'
  <2>1. ASSUME NEW x \in Controllers \ {c}
        PROVE  /\ pc'[x] = pc[x] /\ local'[x] = local[x]
    BY <1>1 DEF TypeOK, Process, ReconcileStep, BeginReconcile, CreateJobSet, UpdateJobSet,
       UpdateStatus, JobSetWritten, Finish, Return, Retry, CallFails, ResponseLost, SyncJob,
       SyncJobSet, SyncQueue, RequeueTimer, StartController, CrashController, cluster
  <2>2. ASSUME NEW x \in Controllers, <<x, "local">> \in freshJobSet'
        PROVE  <<x, "cache">> \in freshJobSet'
    <3>1. \/ freshJobSet' = freshJobSet
          \/ freshJobSet' = {}
          \/ freshJobSet' = CopyFreshness(freshJobSet, <<c, "cache">>, <<c, "local">>)
          \/ freshJobSet' = freshJobSet \ {<<c, "local">>}
          \/ freshJobSet' = freshJobSet \cup {<<c, "cache">>}
          \/ freshJobSet' = freshJobSet \ {<<c, "cache">>, <<c, "local">>}
      BY <1>1 DEF Process, ReconcileStep, BeginReconcile, CreateJobSet, UpdateJobSet,
         UpdateStatus, JobSetWritten, DropCopies, Retry, CallFails, ResponseLost, SyncJob,
         SyncJobSet, SyncQueue, RequeueTimer, StartController, CrashController
    <3>2. CASE freshJobSet' = CopyFreshness(freshJobSet, <<c, "cache">>, <<c, "local">>)
      <4>1. <<x, "cache">> \in freshJobSet
        BY <2>2, <3>2, FreshnessIsInherited DEF WritesOwn
      <4> QED BY <3>2, <4>1 DEF CopyFreshness
    <3> QED BY <2>2, <3>1, <3>2 DEF WritesOwn
  <2>3. /\ pc'[c] \in {"create", "update"} => local'[c].jobSet.owner = local'[c].job.uid
        /\ pc'[c] = "create" => local'[c].jobSet.cond = "Unset"
    <3>1. CASE Quiet(c)
      BY <3>1 DEF Quiet, WritesOwn
    <3>2. CASE Begun(c)
      BY <3>2 DEF Begun
    <3>3. CASE JobSetStored(c) \/ StatusStored(c) \/ Ended(c)
      BY <3>3 DEF JobSetStored, StatusStored, Ended, Dropped
    <3>4. CASE Synced(c)
      BY <3>4 DEF Synced, WritesOwn
    <3> QED BY <1>1, <3>1, <3>2, <3>3, <3>4, ProcessStep
  <2> QED BY <2>1, <2>2, <2>3 DEF WritesOwn
<1>2. CASE Environment
  <2>1. freshJobSet' = {} \/ freshJobSet' = freshJobSet
    BY <1>2 DEF Environment, UserCreates, UserEdits, UserDeletes, QueueCreated,
       QueueDeleted, GarbageCollect, KueueAdmits, KueueSetsSuspend, KueueEvicts,
       JobSetReports, JobSetChanges
  <2> QED BY <1>2, <2>1, EnvironmentStep DEF WritesOwn
<1>3. CASE UNCHANGED vars
  BY <1>3 DEF vars, process, WritesOwn
<1> QED BY <1>1, <1>2, <1>3 DEF Next

-----------------------------------------------------------------------------
(* Layer two: what is reported. *)

LEMMA FollowsOrder ==
    /\ \A a : Follows(a, a)
    /\ \A a, b, d : Follows(a, b) /\ Follows(b, d) => Follows(a, d)
    /\ \A b : Follows("Unset", b)
BY ReportedAssumption DEF Follows, Terminal

\* An AIJob that is new shows nothing: no copy carries its UID.
LEMMA EnvironmentTold ==
    ASSUME TypeOK, LocalsComplete, UidsGrow, Told, Environment
    PROVE  Told'
<1>1. UNCHANGED <<seen, pc, local>>
  BY EnvironmentStep
<1>2. CASE Created
  <2>1. job'.status.cond = "Unset" /\ job'.uid = lastUid + 1 /\ lastUid \in Nat
    BY <1>2, NumbersInObjects DEF Created, NoStatus
  <2>2. ASSUME NEW c \in Controllers
        PROVE  /\ seen[c].job # None => seen[c].job.uid # job'.uid
               /\ seen[c].jobSet # None => seen[c].jobSet.owner # job'.uid
               /\ local[c].job # None => local[c].job.uid # job'.uid
               /\ pc[c] = "status" => local[c].job # None
    BY <2>1, <2>2, NumbersInObjects DEF UidsGrow, LocalsComplete
  <2> QED BY <1>1, <2>1, <2>2 DEF Told, StatusTold, CachesTold, StatusFollows
<1>3. CASE Edited
  <2>1. /\ job # None /\ job' # None /\ job'.uid = job.uid /\ job'.status = job.status
        /\ UNCHANGED jobSet
    BY <1>3 DEF Edited
  <2>2. Owned' <=> Owned
    BY <2>1 DEF Owned
  <2> QED BY <1>1, <2>1, <2>2 DEF Told, StatusTold, CachesTold, StatusFollows
<1>4. CASE Deleted
  BY <1>1, <1>4 DEF Deleted, Told, StatusTold, CachesTold, StatusFollows
<1>5. CASE Collected
  <2>1. ~Owned /\ ~Owned' /\ UNCHANGED job
    BY <1>5 DEF Collected, Owned
  <2> QED BY <1>1, <2>1 DEF Told, StatusTold, CachesTold, StatusFollows
<1>6. CASE Moved
  <2>1. (Owned' <=> Owned) /\ UNCHANGED job /\ Follows(jobSet.cond, jobSet'.cond)
    BY <1>6 DEF Moved, Owned
  <2>2. \A a : Follows(a, jobSet.cond) => Follows(a, jobSet'.cond)
    BY <2>1, FollowsOrder
  <2>3. StatusTold'
    BY <2>1, <2>2 DEF Told, StatusTold
  <2>4. CachesTold'
    BY <1>1, <2>1, <2>2 DEF Told, CachesTold
  <2>5. StatusFollows'
    BY <1>1, <2>1, <2>2 DEF Told, StatusFollows
  <2> QED BY <2>3, <2>4, <2>5 DEF Told
<1>7. CASE UNCHANGED <<job, jobSet, lastUid>>
  BY <1>1, <1>7 DEF Told, StatusTold, CachesTold, StatusFollows, Owned
<1> QED BY <1>2, <1>3, <1>4, <1>5, <1>6, <1>7, EnvironmentStep

LEMMA BegunTold ==
    ASSUME TypeOK, Told, NEW c \in Controllers, Controllers = {c}, Begun(c)
    PROVE  Told'
<1>1. UNCHANGED <<job, jobSet, lastUid, seen>> /\ local'[c].job = seen[c].job /\ seen[c].job # None
  BY DEF Begun
<1>2. Owned' <=> Owned
  BY <1>1 DEF Owned
<1>3. StatusTold'
  BY <1>1, <1>2 DEF Told, StatusTold
<1>4. CachesTold'
  BY <1>1, <1>2 DEF Told, CachesTold
<1>5. StatusFollows'
  <2> SUFFICES ASSUME job # None, pc'[c] = "status", seen[c].job.uid = job.uid
               PROVE  /\ Follows(seen[c].job.status.cond, local'[c].status.cond)
                      /\ local'[c].status.cond # "Unset" => Owned
                      /\ Owned => Follows(local'[c].status.cond, jobSet.cond)
                      /\ seen[c].jobSet # None /\ seen[c].jobSet.owner = job.uid
                            => Follows(local'[c].status.cond, seen[c].jobSet.cond)
    BY <1>1, <1>2 DEF StatusFollows
  <2>1. Follows(seen[c].job.status.cond, job.status.cond)
    BY <1>1 DEF Told, CachesTold
  <2>2. CASE local'[c].status.cond = seen[c].job.status.cond
    <3>1. local'[c].status.cond # "Unset" => job.status.cond # "Unset"
      BY <2>1, <2>2 DEF Follows
    <3>2. CASE local'[c].status.cond = "Unset"
      BY <2>2, <3>2, FollowsOrder
    <3>3. CASE local'[c].status.cond # "Unset"
      <4>1. Owned /\ Follows(job.status.cond, jobSet.cond)
        BY <3>1, <3>3 DEF Told, StatusTold
      <4>2. seen[c].jobSet # None /\ seen[c].jobSet.owner = job.uid
              => Follows(job.status.cond, seen[c].jobSet.cond)
        BY DEF Told, CachesTold
      <4> QED BY <2>1, <2>2, <4>1, <4>2, FollowsOrder
    <3> QED BY <3>2, <3>3
  <2>3. CASE /\ seen[c].jobSet # None
             /\ seen[c].jobSet.owner = seen[c].job.uid
             /\ local'[c].status.cond = seen[c].jobSet.cond
    <3>1. /\ Owned
          /\ Follows(job.status.cond, seen[c].jobSet.cond)
          /\ Follows(seen[c].jobSet.cond, jobSet.cond)
      BY <2>3 DEF Told, CachesTold
    <3> QED BY <2>1, <2>3, <3>1, FollowsOrder
  <2> QED BY <2>2, <2>3 DEF Begun
<1> QED BY <1>3, <1>4, <1>5 DEF Told

LEMMA JobSetStoredTold ==
    ASSUME TypeOK, LocalsComplete, FreshCopies, UidsGrow, WritesOwn, Told,
           NEW c \in Controllers, Controllers = {c}, JobSetStored(c)
    PROVE  Told'
<1>1. UNCHANGED <<job, lastUid, seen>> /\ jobSet' # None
  BY DEF JobSetStored
<1>2. pc[c] \in {"create", "update"} /\ local[c].job # None
  BY DEF JobSetStored, LocalsComplete
<1>3. jobSet'.owner = local[c].job.uid
  BY <1>2 DEF JobSetStored, WritesOwn
<1>4. Owned => Owned' /\ jobSet'.cond = jobSet.cond
  <2> SUFFICES ASSUME Owned PROVE Owned' /\ jobSet'.cond = jobSet.cond
    OBVIOUS
  <2>1. jobSet # None /\ jobSet'.cond = jobSet.cond
    BY DEF Owned, JobSetStored
  <2>2. jobSet.owner = lastUid /\ local[c].job.uid <= lastUid /\ jobSet.owner <= local[c].job.uid
    BY <1>2, <2>1 DEF Owned, UidsGrow
  <2>3. local[c].job.uid = job.uid
    BY <1>2, <2>2, NumbersInObjects DEF Owned
  <2> QED BY <1>1, <1>3, <2>1, <2>3 DEF Owned
\* What the cache shows of the JobSet is what was stored, if it was updated.
<1>5. job # None /\ seen[c].jobSet # None /\ seen[c].jobSet.owner = job.uid
        => Owned /\ seen[c].jobSet = jobSet
  <2> SUFFICES ASSUME job # None, seen[c].jobSet # None, seen[c].jobSet.owner = job.uid
               PROVE  Owned /\ seen[c].jobSet = jobSet
    OBVIOUS
  <2>1. Owned
    BY DEF Told, CachesTold
  <2>2. <<c, "local">> \in freshJobSet
    BY <2>1 DEF Owned, JobSetStored
  <2> QED BY <2>1, <2>2 DEF WritesOwn, FreshCopies
<1>6. StatusTold'
  BY <1>1, <1>4 DEF Told, StatusTold
<1>7. local'[c].job \in {None, local[c].job}
  BY DEF JobSetStored, Dropped, NoLocals
<1>8. CachesTold'
  <2>1. job # None /\ seen[c].jobSet # None /\ seen[c].jobSet.owner = job.uid
          => /\ Owned'
             /\ Follows(job.status.cond, seen[c].jobSet.cond)
             /\ Follows(seen[c].jobSet.cond, jobSet'.cond)
    BY <1>4, <1>5, FollowsOrder DEF Told, CachesTold
  <2>2. job # None =>
          /\ seen[c].job # None /\ seen[c].job.uid = job.uid =>
                Follows(seen[c].job.status.cond, job.status.cond)
          /\ local[c].job # None /\ local[c].job.uid = job.uid =>
                Follows(local[c].job.status.cond, job.status.cond)
    BY DEF Told, CachesTold
  <2> QED BY <1>1, <1>7, <2>1, <2>2 DEF CachesTold
<1>9. StatusFollows'
  <2> SUFFICES ASSUME job # None, pc'[c] = "status", local'[c].job.uid = job.uid
               PROVE  /\ Follows(local'[c].job.status.cond, local'[c].status.cond)
                      /\ local'[c].status.cond # "Unset" => Owned'
                      /\ Owned' => Follows(local'[c].status.cond, jobSet'.cond)
                      /\ seen[c].jobSet # None /\ seen[c].jobSet.owner = job.uid
                            => Follows(local'[c].status.cond, seen[c].jobSet.cond)
    BY <1>1 DEF StatusFollows
  <2>1. local'[c].job = local[c].job /\ local'[c].status.cond = jobSet'.cond
    BY DEF JobSetStored, Dropped
  <2>2. Owned'
    BY <1>1, <1>3, <2>1 DEF Owned
  <2>3. Follows(local[c].job.status.cond, job.status.cond)
    BY <1>2, <2>1 DEF Told, CachesTold
  <2>4. CASE job.status.cond = "Unset"
    <3>1. local[c].job.status.cond = "Unset"
      BY <2>3, <2>4 DEF Follows
    <3> QED BY <1>4, <1>5, <2>1, <2>2, <3>1, FollowsOrder
  <2>5. CASE job.status.cond # "Unset"
    <3>1. Owned /\ Follows(job.status.cond, jobSet.cond)
      BY <2>5 DEF Told, StatusTold
    <3> QED BY <1>4, <1>5, <2>1, <2>2, <2>3, <3>1, FollowsOrder
  <2> QED BY <2>4, <2>5
<1> QED BY <1>6, <1>8, <1>9 DEF Told

LEMMA StatusStoredTold ==
    ASSUME TypeOK, LocalsComplete, Told, NEW c \in Controllers, Controllers = {c}, StatusStored(c)
    PROVE  Told'
<1>1. /\ UNCHANGED <<jobSet, lastUid, seen>> /\ pc[c] = "status" /\ job # None
      /\ local[c].job = job /\ local'[c].job = None /\ pc'[c] # "status"
  BY DEF StatusStored, Dropped, NoLocals
<1>2. job'.uid = job.uid /\ job'.status = local[c].status /\ job' # None
  <2>1. job \in AIJobs /\ local[c].status \in Statuses
    BY <1>1 DEF TypeOK, LocalsComplete
  <2>2. job' \in AIJobs /\ job'.uid = job.uid /\ job'.status = local[c].status
    BY <2>1 DEF StatusStored, AIJobs
  <2> QED BY <2>2, NoneIsNoObject
<1>3. Owned' <=> Owned
  BY <1>1, <1>2 DEF Owned
<1>4. /\ Follows(job.status.cond, job'.status.cond)
      /\ job'.status.cond # "Unset" => Owned
      /\ Owned => Follows(job'.status.cond, jobSet.cond)
      /\ seen[c].jobSet # None /\ seen[c].jobSet.owner = job.uid
            => Follows(job'.status.cond, seen[c].jobSet.cond)
  BY <1>1, <1>2 DEF Told, StatusFollows
<1>5. StatusTold'
  BY <1>1, <1>3, <1>4 DEF StatusTold
<1>6. CachesTold'
  BY <1>1, <1>2, <1>3, <1>4, FollowsOrder DEF Told, CachesTold
<1>7. StatusFollows'
  BY <1>1 DEF StatusFollows
<1> QED BY <1>5, <1>6, <1>7 DEF Told

LEMMA ProcessTold ==
    ASSUME TypeOK, LocalsComplete, FreshCopies, UidsGrow, WritesOwn, Told,
           NEW c \in Controllers, Controllers = {c}, Process(c)
    PROVE  Told'
<1>1. CASE Quiet(c)
  BY <1>1 DEF Quiet, Told, StatusTold, CachesTold, StatusFollows, Owned
<1>2. CASE Ended(c)
  BY <1>2 DEF Ended, Dropped, NoLocals, Told, StatusTold, CachesTold, StatusFollows, Owned
<1>3. CASE Synced(c)
  <2>1. UNCHANGED <<job, jobSet>> /\ local'[c] = local[c] /\ (pc'[c] = "status" => pc[c] = "status")
    BY <1>3 DEF Synced
  <2>2. (Owned' <=> Owned) /\ StatusTold'
    BY <2>1 DEF Told, StatusTold, Owned
  <2>3. job # None /\ seen'[c].jobSet # None /\ seen'[c].jobSet.owner = job.uid
          => /\ Owned
             /\ Follows(job.status.cond, seen'[c].jobSet.cond)
             /\ Follows(seen'[c].jobSet.cond, jobSet.cond)
    <3>1. CASE seen'[c].jobSet = seen[c].jobSet
      BY <3>1 DEF Told, CachesTold
    <3>2. CASE seen'[c].jobSet = jobSet
      <4> SUFFICES ASSUME job # None, jobSet # None, jobSet.owner = job.uid
                   PROVE  Owned /\ Follows(job.status.cond, jobSet.cond)
        BY <3>2, FollowsOrder
      <4>1. Owned
        BY DEF Owned
      <4> QED BY <4>1, FollowsOrder DEF Told, StatusTold
    <3> QED BY <1>3, <3>1, <3>2 DEF Synced
  <2>4. job # None =>
          /\ seen'[c].job # None /\ seen'[c].job.uid = job.uid =>
                Follows(seen'[c].job.status.cond, job.status.cond)
          /\ local[c].job # None /\ local[c].job.uid = job.uid =>
                Follows(local[c].job.status.cond, job.status.cond)
    BY <1>3, FollowsOrder DEF Synced, Told, CachesTold
  <2>5. CachesTold'
    BY <2>1, <2>2, <2>3, <2>4 DEF CachesTold
  <2>6. StatusFollows'
    <3> SUFFICES ASSUME job # None, pc[c] = "status", local[c].job.uid = job.uid
                 PROVE  /\ Follows(local[c].job.status.cond, local[c].status.cond)
                        /\ local[c].status.cond # "Unset" => Owned
                        /\ Owned => Follows(local[c].status.cond, jobSet.cond)
                        /\ seen'[c].jobSet # None /\ seen'[c].jobSet.owner = job.uid
                              => Follows(local[c].status.cond, seen'[c].jobSet.cond)
      BY <2>1, <2>2 DEF StatusFollows
    <3>1. /\ Follows(local[c].job.status.cond, local[c].status.cond)
          /\ local[c].status.cond # "Unset" => Owned
          /\ Owned => Follows(local[c].status.cond, jobSet.cond)
          /\ seen[c].jobSet # None /\ seen[c].jobSet.owner = job.uid
                => Follows(local[c].status.cond, seen[c].jobSet.cond)
      BY DEF Told, StatusFollows
    <3>2. seen'[c].jobSet = seen[c].jobSet \/ seen'[c].jobSet = jobSet
      BY <1>3 DEF Synced
    <3> QED BY <2>3, <3>1, <3>2
  <2> QED BY <2>2, <2>5, <2>6 DEF Told
<1> QED BY <1>1, <1>2, <1>3, BegunTold, JobSetStoredTold, StatusStoredTold, ProcessStep

-----------------------------------------------------------------------------
(* The refinement. *)

LEMMA InitLInv == Init => LInv
<1> SUFFICES ASSUME Init PROVE LInv
  OBVIOUS
<1>1. UidsGrow /\ WritesOwn
  BY DEF Init, UidsGrow, WritesOwn, NoLocals
<1>2. Told
  BY DEF Init, Told, StatusTold, CachesTold, StatusFollows
<1> QED BY <1>1, <1>2, InitIInv DEF LInv

LEMMA NextLInv ==
    ASSUME \A c, d \in Controllers : c = d
    PROVE  LInv /\ [Next]_vars => LInv'
<1> SUFFICES ASSUME LInv, [Next]_vars PROVE LInv'
  OBVIOUS
<1>1. IInv'
  BY NextTypes, NextLocals, NextCopies DEF LInv, IInv
<1>2. WritesOwn'
  BY NextWritesOwn DEF LInv, IInv
<1>3. UidsGrow' /\ Told'
  <2>1. CASE Environment
    BY <2>1, EnvironmentUids, EnvironmentTold DEF LInv, IInv
  <2>2. ASSUME NEW c \in Controllers, Process(c) PROVE UidsGrow' /\ Told'
    <3>1. Controllers = {c}
      OBVIOUS
    <3> QED BY <2>2, <3>1, ProcessUids, ProcessTold DEF LInv, IInv
  <2>3. CASE UNCHANGED vars
    <3>1. UNCHANGED <<job, jobSet, lastUid, seen, pc, local>>
      BY <2>3 DEF vars, cluster, process
    <3> QED BY <3>1 DEF LInv, UidsGrow, Told, StatusTold, CachesTold, StatusFollows, Owned
  <2> QED BY <2>1, <2>2, <2>3 DEF Next
<1> QED BY <1>1, <1>2, <1>3 DEF LInv

\* What the JobSet of the AIJob has ended in.
Ending == IF Owned /\ jobSet.cond \in Terminal THEN jobSet.cond ELSE "Unset"

\* Every step of the system is a step of the lifecycle or leaves it alone.
LEMMA LifecycleStep ==
    ASSUME LInv, [Next]_vars, \A c, d \in Controllers : c = d
    PROVE  [Lifecycle!Next]_(Lifecycle!lifecycleVars)
<1> USE DEF LInv, IInv
<1>1. "Unset" \notin Terminal /\ (Ending # "Unset" => Owned)
  BY ReportedAssumption DEF Terminal, Ending
<1>2. CASE UNCHANGED job /\ (Owned' <=> Owned) /\ (Owned => jobSet'.cond = jobSet.cond)
  BY <1>2 DEF Lifecycle!lifecycleVars, Owned
<1>3. CASE UNCHANGED job /\ ~Owned /\ Owned'
  <2>1. Ending' \in Terminal \cup {"Unset"}
    BY DEF Ending
  <2>2. Lifecycle!Own
    BY <1>3, <2>1 DEF Lifecycle!Own, Owned, Ending
  <2> QED BY <2>2 DEF Lifecycle!Next
<1>4. CASE UNCHANGED job /\ Owned /\ Owned' /\ Follows(jobSet.cond, jobSet'.cond)
  <2>1. CASE Ending' = Ending
    BY <1>4, <2>1 DEF Lifecycle!lifecycleVars, Owned, Ending
  <2>2. CASE Ending' # Ending
    <3>1. Ending = "Unset" /\ Ending' \in Terminal
      BY <1>4, <2>2 DEF Ending, Follows
    <3>2. Lifecycle!End
      BY <1>4, <3>1 DEF Lifecycle!End, Owned, Ending
    <3> QED BY <3>2 DEF Lifecycle!Next
  <2> QED BY <2>1, <2>2
<1>5. CASE Created
  <2>1. job = None /\ job' # None /\ job'.status.gen # job'.gen /\ job'.status.cond = "Unset"
    BY <1>5 DEF Created, NoStatus
  <2>2. jobSet' # None => jobSet'.owner # job'.uid
    BY <1>5, NumbersInObjects DEF Created, UidsGrow
  <2>3. Lifecycle!Submit
    BY <1>5, <2>1, <2>2 DEF Lifecycle!Submit, Lifecycle!Fresh, Created
  <2> QED BY <2>3 DEF Lifecycle!Next
<1>6. CASE Edited
  <2>1. /\ job # None /\ job' # None /\ job'.status = job.status
        /\ UNCHANGED jobSet /\ (Owned' <=> Owned)
    BY <1>6 DEF Edited, Owned
  <2>2. CASE job'.gen = job.gen
    BY <2>1, <2>2 DEF Lifecycle!lifecycleVars, Owned
  <2>3. CASE job'.gen = job.gen + 1
    <3>1. job'.status.gen # job'.gen
      BY <2>1, <2>3, NumbersInObjects DEF UidsGrow
    <3>2. Lifecycle!Edit
      BY <2>1, <3>1 DEF Lifecycle!Edit, Owned
    <3> QED BY <3>2 DEF Lifecycle!Next
  <2> QED BY <1>6, <2>2, <2>3 DEF Edited
<1>7. CASE Deleted
  <2>1. Lifecycle!Delete
    BY <1>7 DEF Deleted, Lifecycle!Delete, Lifecycle!Fresh
  <2> QED BY <2>1 DEF Lifecycle!Next
<1>8. ASSUME NEW c \in Controllers, StatusStored(c)
      PROVE  Lifecycle!Next
  <2> DEFINE cond == local[c].status.cond
  <2>1. /\ job \in AIJobs /\ job # None /\ pc[c] = "status" /\ local[c].job = job
        /\ local[c].status \in Statuses /\ local[c].status.gen = job.gen
    BY <1>8 DEF StatusStored, LocalsComplete, TypeOK
  <2>2. /\ job' \in AIJobs /\ job'.uid = job.uid /\ job'.gen = job.gen
        /\ job'.status = local[c].status
    BY <1>8, <2>1 DEF StatusStored, AIJobs
  <2>3. job' # None
    BY <2>2, NoneIsNoObject
  <2>4. (Owned' <=> Owned) /\ UNCHANGED jobSet
    BY <1>8, <2>1, <2>2, <2>3 DEF StatusStored, Owned
  <2>5. cond \in Reported \cup {"Unset"}
    BY <2>1 DEF Statuses, JobSetConditions
  <2>6. /\ Follows(job.status.cond, cond) /\ (cond # "Unset" => Owned)
        /\ cond \in Terminal => cond = Ending
    BY <1>1, <2>1 DEF Told, StatusFollows, Follows, Ending
  <2> HIDE DEF cond
  <2>7. job'.status.cond = cond /\ job'.status.gen = job'.gen
    BY <2>1, <2>2 DEF cond
  <2>8. Lifecycle!Report(cond)
    BY <2>1, <2>3, <2>4, <2>6, <2>7 DEF Lifecycle!Report, Follows, Owned, Ending
  <2> QED BY <2>5, <2>8 DEF Lifecycle!Next
<1>9. ASSUME NEW c \in Controllers, JobSetStored(c)
      PROVE  Owned => Owned' /\ jobSet'.cond = jobSet.cond
  <2>1. Controllers = {c}
    OBVIOUS
  <2>2. pc[c] \in {"create", "update"} /\ local[c].job # None
    BY <1>9 DEF JobSetStored, LocalsComplete
  <2> SUFFICES ASSUME Owned PROVE Owned' /\ jobSet'.cond = jobSet.cond
    OBVIOUS
  <2>3. jobSet # None /\ jobSet'.owner = local[c].job.uid
    BY <1>9, <2>2 DEF Owned, JobSetStored, WritesOwn
  <2>4. local[c].job.uid = job.uid
    BY <2>2, <2>3, NumbersInObjects DEF Owned, UidsGrow
  <2> QED BY <1>9, <2>3, <2>4 DEF JobSetStored, Owned
<1>10. CASE Environment
  <2>1. CASE Collected \/ UNCHANGED <<job, jobSet, lastUid>>
    BY <1>2, <2>1 DEF Collected, Owned
  <2>2. CASE Moved
    <3>1. CASE Owned
      BY <1>4, <2>2, <3>1 DEF Moved, Owned
    <3>2. CASE ~Owned
      BY <1>2, <2>2, <3>2 DEF Moved, Owned
    <3> QED BY <3>1, <3>2
  <2> QED BY <1>5, <1>6, <1>7, <1>10, <2>1, <2>2, EnvironmentStep
<1>11. ASSUME NEW c \in Controllers, Process(c)
      PROVE  [Lifecycle!Next]_(Lifecycle!lifecycleVars)
  <2>1. CASE StatusStored(c)
    BY <1>8, <2>1
  <2>2. CASE JobSetStored(c)
    BY <1>2, <1>3, <1>9, <2>2 DEF JobSetStored
  <2>3. CASE Quiet(c) \/ Begun(c) \/ Ended(c) \/ Synced(c)
    BY <1>2, <2>3 DEF Quiet, Begun, Ended, Synced, Owned
  <2> QED BY <1>11, <2>1, <2>2, <2>3, ProcessStep
<1>12. CASE UNCHANGED vars
  BY <1>2, <1>12 DEF vars, cluster, Owned
<1> QED BY <1>10, <1>11, <1>12 DEF Next

\* Through lagging caches, crashes, lost responses, adoption and collection,
\* one controller process shows the user of an AIJob the promised lifecycle: it
\* reports a condition only of a JobSet the AIJob controls, keeps that JobSet,
\* says Completed or Failed only as that JobSet has ended, and never withdraws it
\* (Reconcile as a whole).
THEOREM LifecycleImplemented ==
    ASSUME \A c, d \in Controllers : c = d
    PROVE  Spec => ImplementsLifecycle
<1>1. Init => Lifecycle!Init
  BY DEF Init, Lifecycle!Init
<1>2. LInv /\ [Next]_vars => LInv'
  BY NextLInv
<1>3. LInv /\ [Next]_vars => [Lifecycle!Next]_(Lifecycle!lifecycleVars)
  BY LifecycleStep
<1> QED BY InitLInv, <1>1, <1>2, <1>3, PTL DEF Spec, ImplementsLifecycle, Lifecycle!Spec

=============================================================================
