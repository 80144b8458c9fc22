---------------------------- MODULE ExercisesProofs ----------------------------
(***************************************************************************)
(* Theorems about Exercises for every number of scenarios in a command and *)
(* every set of setups.                                                    *)
(*                                                                         *)
(* The inductive invariant has four parts: types, the chain of objects of  *)
(* each AIJob, the controller Pods, and what the scenario of a run has     *)
(* established when labctl stands at a given call.                         *)
(***************************************************************************)
EXTENDS Exercises, FiniteSetTheorems, TLAPS

-----------------------------------------------------------------------------
(* The chain of objects. *)

NotYet(r) == r > run \/ (r = run /\ pc = "create")

\* Nothing of a run exists before labctl comes to create its AIJob.
Untouched ==
    \A r \in Runs : NotYet(r) =>
       /\ r \notin aijobs
       /\ live[r] = {} /\ garbage[r] = {}
       /\ progress[r] = "waiting" /\ outcome[r] = "Unset"
       /\ \A c \in Replicas : r \notin cache[c]

\* As long as the AIJob exists its objects appear one by one and stay, and
\* what is reported is the outcome of the JobSet that has ended.
Chain(r) ==
    /\ garbage[r] = {}
    /\ "JobSet" \notin live[r] => live[r] = {} /\ progress[r] = "waiting"
    /\ progress[r] = "waiting" => live[r] \subseteq {"JobSet", "Workload"}
    /\ progress[r] = "admitted" => {"JobSet", "Workload"} \subseteq live[r] /\ "Pods" \notin live[r]
    /\ progress[r] \notin {"waiting", "admitted"} => live[r] = Kinds
    /\ progress[r] # "waiting" => Fits(r)
    /\ progress[r] \notin {"exited", "jobEnded", "jobSetEnded"} => outcome[r] = "Unset"
    /\ progress[r] \in {"exited", "jobEnded", "jobSetEnded"} => outcome[r] # "Unset"
    /\ reported[r] # "Unset" => progress[r] = "jobSetEnded" /\ reported[r] = outcome[r]

Chains ==
    \A r \in Runs : /\ r \in aijobs => Chain(r)
                    /\ r \notin aijobs => reported[r] = "Unset"

-----------------------------------------------------------------------------
(* The controller Pods. *)

\* A replacement starts only for a Pod that is being deleted, and the Pod of an
\* earlier replacement is gone before this one is deleted.
Replaced ==
    /\ controller[0] \in {"ready", "terminating", "gone"}
    /\ controller[2] \in {"terminating", "gone"}
    /\ controller[1] # "gone" => controller[0] # "ready"
    /\ controller[0] # "ready" => controller[2] = "gone"

\* The scenario has ended without error and its evidence is good so far.
Succeeded ==
    /\ pc \in {"resources", "workers", "controllers", "logs", "manifest", "delete"}
    /\ ~runErr

\* One Pod was listed when labctl deleted it: another one that is Ready is the
\* replacement.
ControllerFollowed ==
    /\ pc \in {"kill", "ready"} =>
          /\ controller[2] = "gone"
          /\ \/ listed = {0} /\ controller[1] # "terminating"
             \/ listed = {1} /\ controller[0] = "gone"
    /\ pc = "ready" /\ listed = {0} => controller[0] # "ready"
    /\ Kind(run) = "restart" /\ (pc \in {"jobsets", "remove", "gone"} \/ Succeeded) =>
          controller[0] # "ready" /\ controller[1] = "ready"

-----------------------------------------------------------------------------
(* The scenario. *)

StepsOf(kind) ==
    CASE kind = "capacity" -> {"create", "diagnose"}
      [] kind = "restart"  -> {"create", "scheduled", "count", "kill", "ready", "jobsets"}
                              \cup (IF IsE2E THEN {"remove", "gone"} ELSE {})
      [] OTHER             -> {"create", "await"} \cup (IF IsE2E THEN {"verify"} ELSE {})

OnPath == pc \in Steps => pc \in StepsOf(Kind(run))

\* What holds of the AIJob while labctl works on it, and when it has succeeded.
Established ==
    /\ pc \in Steps \ {"create", "gone"} => run \in aijobs
    /\ Succeeded => (run \in aijobs <=> ~(IsE2E /\ Kind(run) = "restart"))
    /\ Kind(run) = "restart" /\ run \in aijobs /\ (pc \in {"count", "kill", "ready", "jobsets"} \/ Succeeded)
          => progress[run] \notin {"waiting", "admitted", "pending"}
    /\ Kind(run) \in {"success", "failure"} /\ (pc = "verify" \/ Succeeded)
          => Proves(Kind(run), reported[run])
    /\ Kind(run) = "capacity" /\ Succeeded =>
          \/ observed = {"at kube-scheduler"} /\ progress[run] = "unschedulable"
          \/ observed = {"at Kueue"} /\ {"JobSet", "Workload"} \subseteq live[run]

\* An exercise that has failed has not observed what it is about.
ObservedLast ==
    ~IsE2E /\ (pc \in Steps \/ (runErr /\ pc \in {"resources", "workers", "controllers",
                                                  "logs", "manifest"}))
       => IF Kind(run) = "restart" THEN "one JobSet" \notin observed ELSE observed = {}

\* An observation at Kueue that time does not explain has the quota for a cause.
Diagnosed ==
    Kind(run) = "capacity" /\ "slow" \notin excuses =>
       observed \in {{}, {IF Fits(run) THEN "at kube-scheduler" ELSE "at Kueue"}}

-----------------------------------------------------------------------------
(* The evidence. *)

EvidenceFollows ==
    /\ pc \in Steps \cup {"resources", "workers", "controllers", "logs", "manifest", "done"}
          => bundle.state = "none"
    /\ pc \in {"workers", "controllers", "logs", "manifest"} /\ ~runErr /\ ~missing =>
          /\ {"AIJob", "JobSet", "Workload"} \subseteq seen
          /\ "at Kueue" \in observed \/ seen = Kinds \cup {"AIJob"}
    /\ pc \in {"resources", "workers", "controllers", "logs", "manifest"} /\ ~runErr => ~IsE2E
    /\ pc \in {"delete", "cleaned"} /\ Complete =>
          ~runErr /\ ExpectedObserved /\ bundle.observed = observed
    /\ EvidenceIsRecorded

Work == OnPath /\ ControllerFollowed /\ Established /\ ObservedLast /\ Diagnosed /\ EvidenceFollows

IInv == TypeOK /\ Untouched /\ Chains /\ Replaced /\ Work

-----------------------------------------------------------------------------
(* The calls of a scenario, one after the other. *)

LEMMA IndexOfCall ==
    ASSUME Proceeds, \E k \in 1..Len(Path) : Path[k] = pc
    PROVE  \E i \in 1..Len(Path) :
              /\ Path[i] = pc
              /\ i = Len(Path) => ScenarioEnds(FALSE)
              /\ i # Len(Path) => pc' = Path[i + 1]
<1> DEFINE i == CHOOSE i \in 1..Len(Path) : Path[i] = pc
<1>1. i \in 1..Len(Path) /\ Path[i] = pc
  OBVIOUS
<1>2. /\ i = Len(Path) => ScenarioEnds(FALSE)
      /\ i # Len(Path) => pc' = Path[i + 1]
  BY DEF Proceeds
<1> HIDE DEF i
<1> QED BY <1>1, <1>2

LEMMA Paths ==
    /\ Kind(run) = "capacity" => Path = <<"create", "diagnose">>
    /\ Kind(run) = "restart" /\ ~IsE2E =>
          Path = <<"create", "scheduled", "count", "kill", "ready", "jobsets">>
    /\ Kind(run) = "restart" /\ IsE2E =>
          Path = <<"create", "scheduled", "count", "kill", "ready", "jobsets",
                   "remove", "gone">>
    /\ Kind(run) \notin {"capacity", "restart"} /\ ~IsE2E => Path = <<"create", "await">>
    /\ Kind(run) \notin {"capacity", "restart"} /\ IsE2E => Path = <<"create", "await", "verify">>
<1>1. <<"create", "await">> \o <<>> = <<"create", "await">>
  OBVIOUS
<1>2. <<"create", "await">> \o <<"verify">> = <<"create", "await", "verify">>
  <2> DEFINE s == <<"create", "await">> \o <<"verify">>
  <2>1. s \in Seq(Steps) /\ Len(s) = 3
    <3>1. <<"create", "await">> \in Seq(Steps) /\ <<"verify">> \in Seq(Steps)
      BY DEF Steps
    <3> QED BY <3>1
  <2>2. s[1] = "create" /\ s[2] = "await" /\ s[3] = "verify"
    OBVIOUS
  <2> HIDE DEF s
  <2>3. s = <<"create", "await", "verify">>
    BY <2>1, <2>2
  <2> QED BY <2>3 DEF s
<1>3. <<"create", "scheduled", "count", "kill", "ready", "jobsets">> \o <<>>
        = <<"create", "scheduled", "count", "kill", "ready", "jobsets">>
  OBVIOUS
<1>4. <<"create", "scheduled", "count", "kill", "ready", "jobsets">> \o <<"remove", "gone">>
        = <<"create", "scheduled", "count", "kill", "ready", "jobsets", "remove", "gone">>
  <2> DEFINE s == <<"create", "scheduled", "count", "kill", "ready", "jobsets">>
                     \o <<"remove", "gone">>
  <2>1. s \in Seq(Steps) /\ Len(s) = 8
    <3>1. <<"create", "scheduled", "count", "kill", "ready", "jobsets">> \in Seq(Steps)
          /\ <<"remove", "gone">> \in Seq(Steps)
      BY DEF Steps
    <3> QED BY <3>1
  <2>2. /\ s[1] = "create" /\ s[2] = "scheduled" /\ s[3] = "count" /\ s[4] = "kill"
        /\ s[5] = "ready" /\ s[6] = "jobsets" /\ s[7] = "remove" /\ s[8] = "gone"
    OBVIOUS
  <2> HIDE DEF s
  <2>3. s = <<"create", "scheduled", "count", "kill", "ready", "jobsets", "remove", "gone">>
    BY <2>1, <2>2
  <2> QED BY <2>3 DEF s
<1> QED BY <1>1, <1>2, <1>3, <1>4 DEF Path

\* What comes after each call.
Follow ==
    /\ pc = "create" =>
          pc' = CASE Kind(run) = "capacity" -> "diagnose"
                  [] Kind(run) = "restart"  -> "scheduled"
                  [] OTHER                  -> "await"
    /\ pc = "scheduled" => pc' = "count"
    /\ pc = "count" => pc' = "kill"
    /\ pc = "kill" => pc' = "ready"
    /\ pc = "ready" => pc' = "jobsets"
    /\ pc = "jobsets" => IF IsE2E THEN pc' = "remove" ELSE ScenarioEnds(FALSE)
    /\ pc = "remove" => pc' = "gone"
    /\ pc = "await" => IF IsE2E THEN pc' = "verify" ELSE ScenarioEnds(FALSE)
    /\ pc \in {"diagnose", "verify", "gone"} => ScenarioEnds(FALSE)

LEMMA PathFollowed ==
    ASSUME OnPath, pc \in Steps, Proceeds
    PROVE  Follow
<1>0. pc \in StepsOf(Kind(run))
  BY DEF OnPath
<1>1. CASE Kind(run) = "capacity"
  <2>1. Len(Path) = 2 /\ Path[1] = "create" /\ Path[2] = "diagnose"
    BY <1>1, Paths
  <2>2. \E k \in 1..Len(Path) : Path[k] = pc
    <3>1. pc = "create" \/ pc = "diagnose"
      BY <1>0, <1>1 DEF StepsOf
    <3> QED BY <2>1, <3>1
  <2>3. PICK i \in 1..Len(Path) :
           /\ Path[i] = pc
           /\ i = Len(Path) => ScenarioEnds(FALSE)
           /\ i # Len(Path) => pc' = Path[i + 1]
    BY <2>2, IndexOfCall
  <2>4. \/ pc = "create" /\ i # Len(Path) /\ Path[i + 1] = "diagnose"
        \/ pc = "diagnose" /\ i = Len(Path)
    <3>1. Path[i] = pc
      BY <2>3
    <3> QED BY <2>1, <3>1
  <2>5. CASE i # Len(Path)
    <3>1. pc = "create" /\ pc' = "diagnose"
      BY <2>3, <2>4, <2>5, Zenon
    <3> QED BY <1>1, <3>1 DEF Follow
  <2>6. CASE i = Len(Path)
    <3>1. pc = "diagnose" /\ ScenarioEnds(FALSE)
      BY <2>3, <2>4, <2>6, Zenon
    <3> QED BY <3>1 DEF Follow
  <2> QED BY <2>5, <2>6
<1>2. CASE Kind(run) = "restart"
  <2>1. /\ Len(Path) = IF IsE2E THEN 8 ELSE 6
        /\ Path[1] = "create" /\ Path[2] = "scheduled" /\ Path[3] = "count"
        /\ Path[4] = "kill" /\ Path[5] = "ready" /\ Path[6] = "jobsets"
        /\ IsE2E => Path[7] = "remove" /\ Path[8] = "gone"
    BY <1>2, Paths
  <2>2. \E k \in 1..Len(Path) : Path[k] = pc
    <3>1. \/ pc \in {"create", "scheduled", "count", "kill", "ready", "jobsets"}
          \/ IsE2E /\ pc \in {"remove", "gone"}
      BY <1>0, <1>2 DEF StepsOf
    <3>2. /\ 1 \in 1..Len(Path) /\ 2 \in 1..Len(Path) /\ 3 \in 1..Len(Path)
          /\ 4 \in 1..Len(Path) /\ 5 \in 1..Len(Path) /\ 6 \in 1..Len(Path)
          /\ IsE2E => 7 \in 1..Len(Path) /\ 8 \in 1..Len(Path)
      BY <2>1
    <3> QED BY <2>1, <3>1, <3>2
  <2>3. PICK i \in 1..Len(Path) :
           /\ Path[i] = pc
           /\ i = Len(Path) => ScenarioEnds(FALSE)
           /\ i # Len(Path) => pc' = Path[i + 1]
    BY <2>2, IndexOfCall
  <2>4. i \in 1..6 \/ (IsE2E /\ i \in {7, 8})
    BY <2>1
  <2>5. /\ i # Len(Path) =>
              \/ pc = "create" /\ Path[i + 1] = "scheduled"
              \/ pc = "scheduled" /\ Path[i + 1] = "count"
              \/ pc = "count" /\ Path[i + 1] = "kill"
              \/ pc = "kill" /\ Path[i + 1] = "ready"
              \/ pc = "ready" /\ Path[i + 1] = "jobsets"
              \/ IsE2E /\ pc = "jobsets" /\ Path[i + 1] = "remove"
              \/ pc = "remove" /\ Path[i + 1] = "gone"
        /\ i = Len(Path) => pc = "gone" \/ (~IsE2E /\ pc = "jobsets")
    <3>1. Path[i] = pc
      BY <2>3
    <3> QED BY <2>1, <2>4, <3>1
  <2>6. CASE i # Len(Path)
    <3>1. pc' = Path[i + 1]
      BY <2>3, <2>6, Zenon
    <3> QED BY <1>2, <2>5, <2>6, <3>1 DEF Follow
  <2>7. CASE i = Len(Path)
    <3>1. ScenarioEnds(FALSE)
      BY <2>3, <2>7, Zenon
    <3> QED BY <2>5, <2>7, <3>1 DEF Follow
  <2> QED BY <2>6, <2>7
<1>3. CASE Kind(run) \notin {"capacity", "restart"}
  <2>1. /\ Len(Path) = IF IsE2E THEN 3 ELSE 2
        /\ Path[1] = "create" /\ Path[2] = "await"
        /\ IsE2E => Path[3] = "verify"
    BY <1>3, Paths
  <2>2. \E k \in 1..Len(Path) : Path[k] = pc
    <3>1. pc \in {"create", "await"} \/ (IsE2E /\ pc = "verify")
      BY <1>0, <1>3 DEF StepsOf
    <3>2. 1 \in 1..Len(Path) /\ 2 \in 1..Len(Path) /\ (IsE2E => 3 \in 1..Len(Path))
      BY <2>1
    <3> QED BY <2>1, <3>1, <3>2
  <2>3. PICK i \in 1..Len(Path) :
           /\ Path[i] = pc
           /\ i = Len(Path) => ScenarioEnds(FALSE)
           /\ i # Len(Path) => pc' = Path[i + 1]
    BY <2>2, IndexOfCall
  <2>4. i \in {1, 2} \/ (IsE2E /\ i = 3)
    BY <2>1
  <2>5. /\ i # Len(Path) =>
              \/ pc = "create" /\ Path[i + 1] = "await"
              \/ IsE2E /\ pc = "await" /\ Path[i + 1] = "verify"
        /\ i = Len(Path) => pc = "verify" \/ (~IsE2E /\ pc = "await")
    <3>1. Path[i] = pc
      BY <2>3
    <3> QED BY <2>1, <2>4, <3>1
  <2>6. CASE i # Len(Path)
    <3>1. pc' = Path[i + 1]
      BY <2>3, <2>6, Zenon
    <3> QED BY <1>3, <2>5, <2>6, <3>1 DEF Follow
  <2>7. CASE i = Len(Path)
    <3>1. ScenarioEnds(FALSE)
      BY <2>3, <2>7, Zenon
    <3> QED BY <2>5, <2>7, <3>1 DEF Follow
  <2> QED BY <2>6, <2>7
<1> QED BY <1>1, <1>2, <1>3

-----------------------------------------------------------------------------
(* Types. *)

LEMMA SetupTypes ==
    ASSUME TypeOK
    PROVE  /\ Len(Scenarios) \in 1..RunCount
           /\ run \in 1..Len(Scenarios) /\ run \in Runs
           /\ Kind(run) \in {"capacity", "success", "failure", "restart"}
           /\ Kind(run) \in {"capacity"} => ~IsE2E
           /\ setup.quota \in Nat
<1>1. setup \in Setups /\ run \in 1..Len(Scenarios)
  BY DEF TypeOK
<1>2. Len(Scenarios) \in 1..RunCount /\ setup.quota \in Nat
  BY <1>1, ExercisesAssumption DEF Scenarios, Runs
<1>3. run \in Runs
  BY <1>1, <1>2, ExercisesAssumption DEF Runs
<1>4. Scenarios[run] \in IF IsE2E THEN {"success", "failure", "restart"}
                                  ELSE {"capacity", "failure", "restart"}
  BY <1>1, ExercisesAssumption DEF Scenarios, IsE2E
<1>5. Kind(run) = Scenarios[run]
  BY <1>1, <1>2 DEF Kind
<1> QED BY <1>1, <1>2, <1>3, <1>4, <1>5

\* The variables of the cluster, and those of labctl.
ClusterTypes ==
    /\ setup \in Setups
    /\ aijobs \subseteq Runs
    /\ live \in [Runs -> SUBSET Kinds]
    /\ garbage \in [Runs -> SUBSET Kinds]
    /\ progress \in [Runs -> {"waiting", "admitted", "pending", "unschedulable", "bound",
                               "exited", "jobEnded", "jobSetEnded"}]
    /\ outcome \in [Runs -> {"Unset", "Completed", "Failed"}]
    /\ reported \in [Runs -> {"Unset", "Completed", "Failed"}]
    /\ controller \in [Replicas -> {"gone", "starting", "ready", "terminating"}]
    /\ cache \in [Replicas -> SUBSET Runs]

RunnerTypes ==
    /\ pc \in Steps \cup {"resources", "workers", "controllers", "logs", "manifest",
                           "delete", "cleaned", "done"}
    /\ run \in 1..Len(Scenarios)
    /\ observed \subseteq Observations
    /\ listed \subseteq Replicas
    /\ seen \subseteq Kinds \cup {"AIJob"}
    /\ bundle \in Bundles
    /\ missing \in BOOLEAN /\ runErr \in BOOLEAN
    /\ failed \in BOOLEAN /\ signalled \in BOOLEAN
    /\ disturbed \in Runs \cup {0}
    /\ excuses \subseteq {"slow", "crowded", "vanished"}

LEMMA TypesSplit == TypeOK <=> ClusterTypes /\ RunnerTypes
<1>1. {outcome, reported} \subseteq [Runs -> {"Unset", "Completed", "Failed"}]
        <=> /\ outcome \in [Runs -> {"Unset", "Completed", "Failed"}]
            /\ reported \in [Runs -> {"Unset", "Completed", "Failed"}]
  OBVIOUS
<1>2. {missing, runErr, failed, signalled} \subseteq BOOLEAN
        <=> /\ missing \in BOOLEAN /\ runErr \in BOOLEAN
            /\ failed \in BOOLEAN /\ signalled \in BOOLEAN
  BY Zenon
<1> QED BY <1>1, <1>2 DEF TypeOK, ClusterTypes, RunnerTypes

LEMMA DeletesTypes ==
    ASSUME ClusterTypes, NEW rs, Deletes(rs), setup' = setup, UNCHANGED <<progress, outcome>>,
           controller' \in [Replicas -> {"gone", "starting", "ready", "terminating"}],
           cache' = cache
    PROVE  ClusterTypes'
BY DEF ClusterTypes, Deletes, Kinds

\* What the calls of labctl write.
LEMMA EffectTypes ==
    ASSUME ClusterTypes, run \in Runs, Effect, ClusterRests
    PROVE  ClusterTypes'
<1>1. CASE pc = "create"
  BY <1>1 DEF Effect, ClusterRests, ClusterTypes
<1>2. CASE pc = "kill"
  BY <1>2 DEF Effect, ClusterRests, ClusterTypes
<1>3. CASE pc = "remove"
  BY <1>3, DeletesTypes DEF Effect, ClusterRests, ClusterTypes
<1> QED BY <1>1, <1>2, <1>3 DEF Effect

LEMMA AdvancesTypes ==
    ASSUME ClusterTypes, NEW r \in Runs, Advances(r)
    PROVE  ClusterTypes'
<1>1. UNCHANGED <<setup, aijobs, garbage, reported, controller, cache>>
  BY DEF Advances, pods
<1>2. live' \in [Runs -> SUBSET Kinds]
  <2>1. live' = live \/ \E kind \in Kinds : live' = [live EXCEPT ![r] = @ \cup {kind}]
    BY DEF Advances, KueueQueues, KueueAdmits, JobCreated, PodsCreated, Schedules, WorkersEnd,
       JobEnds, JobSetEnds, Adds, Kinds
  <2> QED BY <2>1 DEF ClusterTypes
<1>3. progress' \in [Runs -> {"waiting", "admitted", "pending", "unschedulable", "bound",
                               "exited", "jobEnded", "jobSetEnded"}]
  <2>1. progress' = progress \/ \E to \in {"admitted", "pending", "unschedulable", "bound",
                                           "exited", "jobEnded", "jobSetEnded"} :
                                  progress' = [progress EXCEPT ![r] = to]
    BY DEF Advances, KueueQueues, KueueAdmits, JobCreated, PodsCreated, Schedules, WorkersEnd,
       JobEnds, JobSetEnds, Moves
  <2> QED BY <2>1 DEF ClusterTypes
<1>4. outcome' \in [Runs -> {"Unset", "Completed", "Failed"}]
  <2>1. outcome' = outcome \/ \E o \in {"Completed", "Failed"} :
                                 outcome' = [outcome EXCEPT ![r] = o]
    BY DEF Advances, KueueQueues, KueueAdmits, JobCreated, PodsCreated, Schedules, WorkersEnd,
       JobEnds, JobSetEnds
  <2> QED BY <2>1 DEF ClusterTypes
<1> QED BY <1>1, <1>2, <1>3, <1>4 DEF ClusterTypes

LEMMA ClusterActionTypes ==
    ASSUME TypeOK, Cluster
    PROVE  TypeOK'
<1>0. ClusterTypes /\ RunnerTypes
  BY TypesSplit
<1>1. CASE \E r \in Runs, c \in Replicas : ControllerCreates(c, r)
  <2>1. PICK r \in Runs, c \in Replicas : ControllerCreates(c, r)
    BY <1>1
  <2>2. UNCHANGED runner /\ UNCHANGED <<setup, aijobs, reported, controller, cache>>
    BY <2>1 DEF ControllerCreates, pods
  <2>3. live' \in [Runs -> SUBSET Kinds] /\ garbage' \in [Runs -> SUBSET Kinds]
    BY <1>0, <2>1 DEF ControllerCreates, CreatesOwned, Adds, ClusterTypes, Kinds
  <2>4. /\ progress' \in [Runs -> {"waiting", "admitted", "pending", "unschedulable", "bound",
                                    "exited", "jobEnded", "jobSetEnded"}]
        /\ outcome' \in [Runs -> {"Unset", "Completed", "Failed"}]
    BY <1>0, <2>1 DEF ControllerCreates, ClusterTypes
  <2>5. ClusterTypes'
    BY <1>0, <2>2, <2>3, <2>4 DEF ClusterTypes
  <2>6. RunnerTypes'
    BY <1>0, <2>2 DEF RunnerTypes, runner, evidence, faults, Scenarios
  <2> QED BY <2>5, <2>6, TypesSplit, PTL
<1>2. CASE \E r \in Runs, c \in Replicas : ControllerReports(c, r)
  <2>1. PICK r \in Runs, c \in Replicas : ControllerReports(c, r)
    BY <1>2
  <2>2. ClusterTypes'
    BY <1>0, <2>1 DEF ControllerReports, ClusterTypes, objects, pods
  <2>3. RunnerTypes'
    BY <1>0, <2>1 DEF ControllerReports, RunnerTypes, runner, evidence, faults, Scenarios
  <2> QED BY <2>2, <2>3, TypesSplit, PTL
<1>3. CASE \E r \in Runs : Advances(r)
  <2>1. PICK r \in Runs : Advances(r)
    BY <1>3
  <2>2. ClusterTypes'
    BY <1>0, <2>1, AdvancesTypes
  <2>3. RunnerTypes'
    BY <1>0, <2>1 DEF Advances, RunnerTypes, runner, evidence, faults, Scenarios
  <2> QED BY <2>2, <2>3, TypesSplit, PTL
<1>4. CASE \E r \in Runs : WorkerKilled(r)
  <2>1. PICK r \in Runs : WorkerKilled(r)
    BY <1>4
  <2>2. ClusterTypes'
    BY <1>0, <2>1 DEF WorkerKilled, Moves, ClusterTypes, pods
  <2>3. RunnerTypes'
    BY <1>0, <2>1, SetupTypes DEF WorkerKilled, Disturbs, RunnerTypes, evidence, Scenarios
  <2> QED BY <2>2, <2>3, TypesSplit, PTL
<1>5. CASE \E r \in Runs : Collects(r)
  <2>1. PICK r \in Runs : Collects(r)
    BY <1>5
  <2>2. PICK kind \in garbage[r] :
           /\ garbage' = [garbage EXCEPT ![r] = (@ \ {kind}) \cup (Owned(kind) \cap live[r])]
           /\ live' = [live EXCEPT ![r] = @ \ Owned(kind)]
    BY <2>1 DEF Collects
  <2>3. live' \in [Runs -> SUBSET Kinds] /\ garbage' \in [Runs -> SUBSET Kinds]
    BY <1>0, <2>2 DEF ClusterTypes
  <2>4. ClusterTypes'
    BY <1>0, <2>1, <2>3 DEF Collects, ClusterTypes, pods
  <2>5. RunnerTypes'
    BY <1>0, <2>1 DEF Collects, RunnerTypes, runner, evidence, faults, Scenarios
  <2> QED BY <2>4, <2>5, TypesSplit, PTL
<1>6. CASE \E c \in Replicas : Syncs(c) \/ ControllerMoves(c)
  <2>1. PICK c \in Replicas : Syncs(c) \/ ControllerMoves(c)
    BY <1>6
  <2>2. ClusterTypes'
    BY <1>0, <2>1 DEF Syncs, ControllerMoves, ClusterTypes, objects
  <2>3. RunnerTypes'
    BY <1>0, <2>1 DEF Syncs, ControllerMoves, RunnerTypes, runner, evidence, faults, Scenarios
  <2> QED BY <2>2, <2>3, TypesSplit, PTL
<1> QED BY <1>1, <1>2, <1>3, <1>4, <1>5, <1>6 DEF Cluster, Reconciles

LEMMA FoundTypes ==
    ASSUME ClusterTypes, NEW r \in Runs
    PROVE  Found(r) \subseteq Kinds \cup {"AIJob"}
BY DEF ClusterTypes, Found, Existing, Kinds

LEMMA ScenarioEndsTypes ==
    ASSUME NEW err \in BOOLEAN, ScenarioEnds(err)
    PROVE  pc' \in {"resources", "delete"} /\ runErr' \in BOOLEAN
BY DEF ScenarioEnds, AfterScenario

LEMMA ProceedsTypes ==
    ASSUME TypeOK, OnPath, pc \in Steps, Proceeds
    PROVE  pc' \in Steps \cup {"resources", "delete"} /\ runErr' \in BOOLEAN
<1>1. Follow
  BY PathFollowed
<1>2. runErr' \in BOOLEAN
  <2>1. runErr' = runErr \/ runErr' = FALSE
    BY DEF Proceeds, ScenarioEnds
  <2> QED BY <2>1 DEF TypeOK
<1>3. ScenarioEnds(FALSE) => pc' \in {"resources", "delete"}
  BY DEF ScenarioEnds, AfterScenario
<1> QED BY <1>1, <1>2, <1>3 DEF Follow, Steps

LEMMA WriteCallTypes ==
    ASSUME TypeOK, OnPath, WriteCall
    PROVE  TypeOK'
<1>1. ClusterTypes'
  BY TypesSplit, SetupTypes, EffectTypes DEF WriteCall
<1>2. pc \in Steps
  BY DEF WriteCall, Effect, Steps
<1>3. pc' \in Steps \cup {"resources", "delete"} /\ runErr' \in BOOLEAN
  BY <1>2, ProceedsTypes DEF WriteCall
<1>4. RunnerTypes'
  BY <1>3, TypesSplit DEF WriteCall, ClusterRests, RunnerKeeps, RunnerTypes, evidence, faults,
     Scenarios
<1> QED BY <1>1, <1>4, TypesSplit, PTL

LEMMA ObservationTypes ==
    ASSUME TypeOK, OnPath, Observation
    PROVE  TypeOK'
<1>0. ClusterTypes /\ RunnerTypes
  BY TypesSplit
<1>1. ClusterTypes' /\ Scenarios' = Scenarios
  BY <1>0 DEF Observation, cluster, objects, pods, ClusterTypes, Scenarios
<1>2. pc \in Steps
  BY DEF Observation, Diagnose, Await, Verify, AwaitScheduled, CountControllers, AwaitReady,
     CountJobSets, AwaitGone, Steps
<1>3. pc' \in Steps \cup {"resources", "delete"} /\ runErr' \in BOOLEAN
  <2>1. Proceeds \/ ScenarioEnds(TRUE)
    BY DEF Observation, Diagnose, Await, Verify, AwaitScheduled, CountControllers, AwaitReady,
       CountJobSets, AwaitGone
  <2>2. CASE Proceeds
    BY <1>2, <2>2, ProceedsTypes
  <2>3. CASE ScenarioEnds(TRUE)
    BY <2>3 DEF ScenarioEnds, AfterScenario
  <2> QED BY <2>1, <2>2, <2>3
<1>4. observed' \subseteq Observations
  <2>1. \/ observed' = observed
        \/ observed' \in {{"at kube-scheduler"}, {"at Kueue"}, {"condition"}}
        \/ observed' = observed \cup {"replaced"}
        \/ observed' = observed \cup {"one JobSet"}
    BY DEF Observation, Diagnose, Await, Verify, AwaitScheduled, CountControllers, AwaitReady,
       CountJobSets, AwaitGone
  <2> QED BY <1>0, <2>1 DEF RunnerTypes, Observations
<1>5. listed' \subseteq Replicas
  <2>1. listed' = listed \/ listed' = Listed
    BY DEF Observation, Diagnose, Await, Verify, AwaitScheduled, CountControllers, AwaitReady,
       CountJobSets, AwaitGone
  <2> QED BY <1>0, <2>1 DEF RunnerTypes, Listed
<1>6. excuses' \subseteq {"slow", "crowded", "vanished"}
  <2>1. \/ excuses' = excuses
        \/ excuses' = excuses \cup {"slow"}
        \/ excuses' = excuses \cup {"crowded"}
    BY DEF Observation, Diagnose, Await, Verify, AwaitScheduled, CountControllers, AwaitReady,
       CountJobSets, AwaitGone
  <2> QED BY <1>0, <2>1 DEF RunnerTypes
<1>7. UNCHANGED <<run, seen, missing, bundle, failed, disturbed, signalled>>
  BY DEF Observation, RunnerKeeps, evidence, faults
<1>8. RunnerTypes'
  BY <1>0, <1>1, <1>2, <1>3, <1>4, <1>5, <1>6, <1>7 DEF RunnerTypes
<1> QED BY <1>1, <1>8, TypesSplit, PTL

LEMMA ScenarioFailsTypes ==
    ASSUME TypeOK, ScenarioFails
    PROVE  TypeOK'
<1>0. ClusterTypes /\ RunnerTypes /\ run \in Runs
  BY TypesSplit, SetupTypes
<1>1. ClusterTypes'
  <2>1. CASE Effect
    BY <1>0, <2>1, EffectTypes DEF ScenarioFails
  <2>2. CASE UNCHANGED <<aijobs, live, garbage, reported, controller>>
    BY <1>0, <2>2 DEF ScenarioFails, ClusterRests, ClusterTypes
  <2> QED BY <2>1, <2>2 DEF ScenarioFails
<1>2. pc' \in {"resources", "delete"} /\ runErr' \in BOOLEAN
  BY DEF ScenarioFails, ScenarioEnds, AfterScenario
<1>3. disturbed' \in Runs \cup {0}
  BY <1>0 DEF ScenarioFails, Disturbs, RunnerTypes
<1>4. Scenarios' = Scenarios
  BY DEF ScenarioFails, ClusterRests, Scenarios
<1>5. UNCHANGED <<run, observed, listed, seen, missing, bundle, failed, excuses, signalled>>
  BY DEF ScenarioFails, evidence
<1>6. RunnerTypes'
  BY <1>0, <1>2, <1>3, <1>4, <1>5 DEF RunnerTypes
<1> QED BY <1>1, <1>6, TypesSplit, PTL

LEMMA EvidenceTypes ==
    ASSUME TypeOK, Collect \/ CollectFails \/ WriteManifest
    PROVE  TypeOK'
<1>0. ClusterTypes /\ RunnerTypes /\ run \in Runs
  BY TypesSplit, SetupTypes
<1>1. ClusterTypes' /\ Scenarios' = Scenarios
  BY <1>0 DEF Collect, CollectFails, WriteManifest, cluster, objects, pods, ClusterTypes, Scenarios
<1>2. UNCHANGED <<run, observed, failed, signalled>>
  BY DEF Collect, CollectFails, WriteManifest
<1>3. pc' \in {"workers", "controllers", "logs", "manifest", "delete"}
  BY DEF Collect, ReadResources, ReadWorkerLogs, ListControllers, ReadComponentLogs,
     CollectFails, ReadFails, Reads, WriteManifest
<1>4. seen' \subseteq Kinds \cup {"AIJob"}
  <2>1. seen' = seen \/ seen' = {} \/ seen' = Found(run)
    BY DEF Collect, ReadResources, ReadWorkerLogs, ListControllers, ReadComponentLogs,
       CollectFails, ReadFails, WriteManifest
  <2> QED BY <1>0, <2>1, FoundTypes DEF RunnerTypes
<1>5. listed' \subseteq Replicas
  <2>1. listed' = listed \/ listed' = {} \/ listed' = Listed
    BY DEF Collect, ReadResources, ReadWorkerLogs, ListControllers, ReadComponentLogs,
       CollectFails, ReadFails, WriteManifest
  <2> QED BY <1>0, <2>1 DEF RunnerTypes, Listed
<1>6. disturbed' \in Runs \cup {0}
  BY <1>0 DEF Collect, ReadResources, ReadWorkerLogs, ListControllers, ReadComponentLogs,
     CollectFails, ReadFails, WriteManifest, Disturbs, RunnerTypes
<1>7. excuses' \subseteq {"slow", "crowded", "vanished"}
  <2>1. excuses' = excuses \/ excuses' = excuses \cup {"vanished"}
    BY DEF Collect, ReadResources, ReadWorkerLogs, ListControllers, ReadComponentLogs,
       CollectFails, ReadFails, WriteManifest
  <2> QED BY <1>0, <2>1 DEF RunnerTypes
<1>8. missing' \in BOOLEAN
  BY <1>0 DEF Collect, ReadResources, ReadWorkerLogs, ListControllers, ReadComponentLogs,
     CollectFails, ReadFails, WriteManifest, RunnerTypes
<1>9. runErr' \in BOOLEAN
  BY <1>0 DEF Collect, CollectFails, WriteManifest, RunnerTypes
<1>10. bundle' \in Bundles
  <2>1. \/ bundle' = bundle
        \/ bundle' = [state |-> "complete", seen |-> seen, observed |-> observed]
        \/ bundle' = [state |-> "incomplete", seen |-> {}, observed |-> {}]
        \/ bundle' = [state |-> "unwritten", seen |-> {}, observed |-> {}]
    BY DEF Collect, CollectFails, WriteManifest, Bundle
  <2> QED BY <1>0, <2>1 DEF RunnerTypes, Bundles
<1>11. RunnerTypes'
  BY <1>0, <1>1, <1>2, <1>3, <1>4, <1>5, <1>6, <1>7, <1>8, <1>9, <1>10 DEF RunnerTypes
<1> QED BY <1>1, <1>11, TypesSplit, PTL

LEMMA CleanupTypes ==
    ASSUME TypeOK, CleanupDeletes \/ CleanupAwaits \/ CleanupFails
    PROVE  TypeOK'
<1>0. ClusterTypes /\ RunnerTypes /\ run \in Runs
  BY TypesSplit, SetupTypes
<1>1. ClusterTypes' /\ Scenarios' = Scenarios
  <2>1. CASE CleanupAwaits
    BY <1>0, <2>1 DEF CleanupAwaits, cluster, objects, pods, ClusterTypes, Scenarios
  <2>2. CASE CleanupDeletes \/ CleanupFails
    <3>1. UNCHANGED <<setup, progress, outcome, cache, controller>>
      BY <2>2 DEF CleanupDeletes, CleanupFails, ClusterRests
    <3>2. Deletes({run} \cap aijobs) \/ UNCHANGED <<aijobs, live, garbage, reported>>
      BY <2>2 DEF CleanupDeletes, CleanupFails
    <3>3. CASE Deletes({run} \cap aijobs)
      BY <1>0, <3>1, <3>3, DeletesTypes DEF ClusterTypes, Scenarios
    <3>4. CASE UNCHANGED <<aijobs, live, garbage, reported>>
      BY <1>0, <3>1, <3>4 DEF ClusterTypes, Scenarios
    <3> QED BY <3>2, <3>3, <3>4
  <2> QED BY <2>1, <2>2
<1>2. CASE CleanupDeletes
  <2>1. RunnerTypes'
    BY <1>0, <1>1, <1>2 DEF CleanupDeletes, RunnerKeeps, evidence, faults, RunnerTypes
  <2> QED BY <1>1, <2>1, TypesSplit, PTL
<1>3. ASSUME NEW err \in BOOLEAN, EndRun(err), disturbed' \in Runs \cup {0}
      PROVE  TypeOK'
  <2>1. pc' \in {"done", "create"}
    BY <1>3 DEF EndRun
  <2>2. run' \in 1..Len(Scenarios)
    <3>1. run \in 1..Len(Scenarios) /\ Len(Scenarios) \in Nat
      BY SetupTypes, ExercisesAssumption
    <3>2. run' = run \/ (run # Len(Scenarios) /\ run' = run + 1)
      BY <1>3 DEF EndRun, AllRun
    <3> QED BY <3>1, <3>2
  <2>3. failed' \in BOOLEAN /\ runErr' \in BOOLEAN /\ missing' \in BOOLEAN
    BY <1>0, <1>3 DEF EndRun, RunnerTypes
  <2>4. bundle' \in Bundles
    BY <1>3 DEF EndRun, Bundle, Bundles
  <2>5. /\ observed' \subseteq Observations /\ listed' \subseteq Replicas
        /\ seen' \subseteq Kinds \cup {"AIJob"}
        /\ excuses' \subseteq {"slow", "crowded", "vanished"}
        /\ signalled' \in BOOLEAN
    BY <1>0, <1>3 DEF EndRun, RunnerTypes
  <2>6. RunnerTypes'
    BY <1>1, <1>3, <2>1, <2>2, <2>3, <2>4, <2>5 DEF RunnerTypes, Steps
  <2> QED BY <1>1, <2>6, TypesSplit, PTL
<1>4. CASE CleanupAwaits
  <2>1. runErr \in BOOLEAN /\ EndRun(runErr) /\ disturbed' \in Runs \cup {0}
    BY <1>0, <1>4 DEF CleanupAwaits, RunnerTypes
  <2> QED BY <1>3, <2>1
<1>5. CASE CleanupFails
  <2>1. EndRun(TRUE) /\ disturbed' \in Runs \cup {0}
    BY <1>0, <1>5 DEF CleanupFails, Disturbs, RunnerTypes
  <2> QED BY <1>3, <2>1
<1> QED BY <1>2, <1>4, <1>5

LEMMA NextTypes ==
    ASSUME TypeOK, OnPath, [Next]_vars
    PROVE  TypeOK'
<1>1. CASE Interrupt
  <2>1. ClusterTypes' /\ RunnerTypes'
    BY <1>1, TypesSplit DEF Interrupt, cluster, objects, pods, evidence, ClusterTypes,
       RunnerTypes, Scenarios
  <2> QED BY <2>1, TypesSplit, PTL
<1>2. CASE UNCHANGED vars
  <2>1. ClusterTypes' /\ RunnerTypes'
    BY <1>2, TypesSplit DEF vars, cluster, runner, objects, pods, evidence, faults,
       ClusterTypes, RunnerTypes, Scenarios
  <2> QED BY <2>1, TypesSplit, PTL
<1> QED BY <1>1, <1>2, ClusterActionTypes, WriteCallTypes, ObservationTypes,
        ScenarioFailsTypes, EvidenceTypes, CleanupTypes DEF Next, Works, Fails

-----------------------------------------------------------------------------
(* What each step leaves alone. *)

\* labctl stands where it stands.
Stands == UNCHANGED <<setup, pc, run, observed, listed, seen, missing, runErr, bundle, excuses>>

LEMMA OthersMove ==
    ASSUME [Next]_vars, ~(Works \/ Fails)
    PROVE  Stands
<1>1. CASE Cluster
  <2>1. CASE \E r \in Runs : Reconciles(r) \/ Advances(r) \/ WorkerKilled(r) \/ Collects(r)
    BY <2>1 DEF Reconciles, ControllerCreates, ControllerReports, Advances, WorkerKilled, Collects,
       runner, evidence, Stands
  <2>2. CASE \E c \in Replicas : Syncs(c) \/ ControllerMoves(c)
    BY <2>2 DEF Syncs, ControllerMoves, runner, evidence, Stands
  <2> QED BY <1>1, <2>1, <2>2 DEF Cluster
<1>2. CASE Interrupt
  BY <1>2 DEF Interrupt, cluster, evidence, Stands
<1>3. CASE UNCHANGED vars
  BY <1>3 DEF vars, cluster, runner, evidence, Stands
<1> QED BY <1>1, <1>2, <1>3 DEF Next

LEMMA SetupStays == [Next]_vars => setup' = setup
<1>1. Works \/ Fails => setup' = setup
  BY DEF Works, Fails, WriteCall, Observation, Collect, WriteManifest, CleanupDeletes,
     CleanupAwaits, ScenarioFails, CollectFails, CleanupFails, ClusterRests, cluster
<1> QED BY <1>1, OthersMove DEF Stands

\* While labctl works on a scenario.
LEMMA ScenarioMoves ==
    ASSUME TypeOK, OnPath, WriteCall \/ Observation \/ ScenarioFails
    PROVE  /\ pc \in Steps
           /\ UNCHANGED <<setup, run, seen, missing, bundle>>
           /\ \/ Proceeds /\ Follow
              \/ ScenarioEnds(TRUE)
<1>1. pc \in Steps
  BY DEF WriteCall, Effect, Observation, Diagnose, Await, Verify, AwaitScheduled,
     CountControllers, AwaitReady, CountJobSets, AwaitGone, ScenarioFails, Steps
<1>2. UNCHANGED <<setup, run, seen, missing, bundle>>
  BY DEF WriteCall, Observation, ScenarioFails, RunnerKeeps, ClusterRests, evidence, cluster
<1>3. Proceeds \/ ScenarioEnds(TRUE)
  BY DEF WriteCall, Observation, Diagnose, Await, Verify, AwaitScheduled,
     CountControllers, AwaitReady, CountJobSets, AwaitGone, ScenarioFails
<1>4. Proceeds => Follow
  BY <1>1, PathFollowed
<1> QED BY <1>1, <1>2, <1>3, <1>4

\* While it collects evidence.
LEMMA EvidenceMoves ==
    ASSUME Collect \/ CollectFails \/ WriteManifest
    PROVE  /\ UNCHANGED cluster
           /\ UNCHANGED <<run, observed>>
           /\ pc \in {"resources", "workers", "controllers", "logs", "manifest"}
           /\ pc' \in {"workers", "controllers", "logs", "manifest", "delete"}
           /\ pc' = "delete" <=> WriteManifest
           /\ pc' # "delete" => UNCHANGED <<runErr, bundle>>
           /\ excuses \subseteq excuses' /\ excuses' \subseteq excuses \cup {"vanished"}
BY DEF Collect, ReadResources, ReadWorkerLogs, ListControllers, ReadComponentLogs,
   CollectFails, ReadFails, Reads, WriteManifest

\* While it cleans up.
LEMMA CleanupMoves ==
    ASSUME CleanupDeletes \/ CleanupAwaits \/ CleanupFails
    PROVE  /\ UNCHANGED <<setup, progress, outcome, cache, controller>>
           /\ Deletes({run} \cap aijobs) \/ UNCHANGED <<aijobs, live, garbage, reported>>
           /\ pc \in {"delete", "cleaned"}
           /\ \/ /\ pc' = "cleaned"
                 /\ UNCHANGED <<run, observed, bundle, runErr, excuses>>
              \/ /\ (pc' = "create" /\ run' = run + 1) \/ (pc' = "done" /\ run' = run)
                 /\ observed' = {} /\ bundle' = Bundle("none") /\ ~runErr'
                 /\ "slow" \notin excuses'
<1>1. ASSUME NEW err, EndRun(err)
      PROVE  /\ (pc' = "create" /\ run' = run + 1) \/ (pc' = "done" /\ run' = run)
             /\ observed' = {} /\ bundle' = Bundle("none") /\ ~runErr'
             /\ "slow" \notin excuses'
  BY <1>1 DEF EndRun
<1>2. CASE CleanupDeletes
  BY <1>2 DEF CleanupDeletes, RunnerKeeps, ClusterRests, evidence
<1>3. CASE CleanupAwaits
  <2>1. EndRun(runErr)
    BY <1>3 DEF CleanupAwaits
  <2> QED BY <1>1, <1>3, <2>1 DEF CleanupAwaits, cluster, objects, pods
<1>4. CASE CleanupFails
  <2>1. EndRun(TRUE)
    BY <1>4 DEF CleanupFails
  <2> QED BY <1>1, <1>4, <2>1 DEF CleanupFails, ClusterRests
<1> QED BY <1>2, <1>3, <1>4

LEMMA NextOnPath ==
    ASSUME TypeOK, OnPath, [Next]_vars
    PROVE  OnPath'
<1>1. CASE Stands
  BY <1>1 DEF Stands, OnPath, StepsOf, Kind, Scenarios, IsE2E
<1>2. CASE WriteCall \/ Observation \/ ScenarioFails
  <2>1. Kind(run)' = Kind(run) /\ (IsE2E' <=> IsE2E) /\ pc \in StepsOf(Kind(run))
    BY <1>2, ScenarioMoves DEF Kind, Scenarios, IsE2E, OnPath
  <2>2. CASE ScenarioEnds(TRUE) \/ ScenarioEnds(FALSE)
    BY <2>2 DEF ScenarioEnds, AfterScenario, OnPath, Steps
  <2>3. CASE Follow
    BY <2>1, <2>2, <2>3 DEF Follow, OnPath, StepsOf
  <2> QED BY <1>2, <2>2, <2>3, ScenarioMoves
<1>3. CASE Collect \/ CollectFails \/ WriteManifest
  BY <1>3, EvidenceMoves DEF OnPath, Steps
<1>4. CASE CleanupDeletes \/ CleanupAwaits \/ CleanupFails
  BY <1>4, CleanupMoves DEF OnPath, StepsOf, Steps
<1> QED BY <1>1, <1>2, <1>3, <1>4, OthersMove DEF Works, Fails

-----------------------------------------------------------------------------
(* Layer two: the objects of each run. *)

\* The step leaves the objects of the run alone.
Spared(r) ==
    /\ live'[r] = live[r] /\ garbage'[r] = garbage[r]
    /\ progress'[r] = progress[r] /\ outcome'[r] = outcome[r]

ActsOn(x) ==
    \/ \E c \in Replicas : ControllerCreates(c, x)
    \/ Advances(x)
    \/ WorkerKilled(x)
    \/ Collects(x)

LEMMA OtherRuns ==
    ASSUME TypeOK, NEW x \in Runs, ActsOn(x)
    PROVE  /\ UNCHANGED <<setup, aijobs, reported, controller, cache, pc, run>>
           /\ \A r \in Runs \ {x} : Spared(r)
<1>0. /\ live \in [Runs -> SUBSET Kinds] /\ garbage \in [Runs -> SUBSET Kinds]
      /\ DOMAIN progress = Runs /\ DOMAIN outcome = Runs
  BY TypesSplit DEF ClusterTypes
<1>1. CASE \E c \in Replicas : ControllerCreates(c, x)
  BY <1>0, <1>1 DEF ControllerCreates, CreatesOwned, Adds, Spared, runner, pods
<1>2. CASE Advances(x)
  <2>1. live' = live \/ \E kind \in Kinds : live' = [live EXCEPT ![x] = @ \cup {kind}]
    BY <1>2 DEF Advances, KueueQueues, KueueAdmits, JobCreated, PodsCreated, Schedules, WorkersEnd,
       JobEnds, JobSetEnds, Adds, Kinds
  <2>2. progress' = progress \/ \E to : progress' = [progress EXCEPT ![x] = to]
    BY <1>2 DEF Advances, KueueQueues, KueueAdmits, JobCreated, PodsCreated, Schedules, WorkersEnd,
       JobEnds, JobSetEnds, Moves
  <2>3. outcome' = outcome \/ \E o : outcome' = [outcome EXCEPT ![x] = o]
    BY <1>2 DEF Advances, KueueQueues, KueueAdmits, JobCreated, PodsCreated, Schedules, WorkersEnd,
       JobEnds, JobSetEnds
  <2>4. UNCHANGED <<setup, aijobs, reported, controller, cache, pc, run, garbage>>
    BY <1>2 DEF Advances, runner, pods
  <2> QED BY <1>0, <2>1, <2>2, <2>3, <2>4 DEF Spared
<1>3. CASE WorkerKilled(x)
  BY <1>0, <1>3 DEF WorkerKilled, Moves, Spared, pods
<1>4. CASE Collects(x)
  BY <1>0, <1>4 DEF Collects, Spared, runner, pods
<1> QED BY <1>1, <1>2, <1>3, <1>4 DEF ActsOn

LEMMA ClusterCases ==
    ASSUME Cluster
    PROVE  \/ \E x \in Runs : ActsOn(x)
           \/ \E x \in Runs, c \in Replicas : ControllerReports(c, x)
           \/ \E c \in Replicas : Syncs(c) \/ ControllerMoves(c)
BY DEF Cluster, Reconciles, ActsOn

\* What labctl does to the objects: it creates the AIJob of the run, or deletes it.
LEMMA LabctlActs ==
    ASSUME TypeOK, OnPath, Works \/ Fails
    PROVE  /\ UNCHANGED <<setup, progress, outcome, cache>>
           /\ \/ UNCHANGED <<aijobs, live, garbage, reported>>
              \/ /\ pc = "create" /\ pc' # "create" /\ run' = run
                 /\ aijobs' = aijobs \cup {run}
                 /\ UNCHANGED <<live, garbage, reported>>
              \/ pc # "create" /\ (Deletes({run}) \/ Deletes({run} \cap aijobs))
<1>1. CASE WriteCall \/ ScenarioFails
  <2>1. UNCHANGED <<setup, progress, outcome, cache, run>>
    BY <1>1 DEF WriteCall, ScenarioFails, ClusterRests, RunnerKeeps
  <2>2. pc' # "create"
    <3>1. Follow => pc' # "create" \/ ScenarioEnds(FALSE)
      BY <1>1, ScenarioMoves DEF Follow, Steps
    <3>2. ScenarioEnds(TRUE) \/ ScenarioEnds(FALSE) => pc' # "create"
      BY DEF ScenarioEnds, AfterScenario
    <3> QED BY <1>1, <3>1, <3>2, ScenarioMoves
  <2>3. Effect \/ UNCHANGED <<aijobs, live, garbage, reported>>
    BY <1>1 DEF WriteCall, ScenarioFails
  <2> QED BY <2>1, <2>2, <2>3 DEF Effect
<1>2. CASE Observation \/ Collect \/ CollectFails \/ WriteManifest
  BY <1>2, EvidenceMoves DEF Observation, cluster, objects, pods
<1>3. CASE CleanupDeletes \/ CleanupAwaits \/ CleanupFails
  BY <1>3, CleanupMoves
<1> QED BY <1>1, <1>2, <1>3 DEF Works, Fails

LEMMA NotYetShrinks ==
    ASSUME TypeOK, OnPath, [Next]_vars, NEW r \in Runs, NotYet(r)'
    PROVE  NotYet(r)
<1>0. r \in Nat /\ run \in Nat
  BY SetupTypes DEF Runs
<1>1. CASE Stands
  BY <1>1 DEF Stands, NotYet
<1>2. CASE WriteCall \/ Observation \/ ScenarioFails
  <2>1. pc' # "create"
    <3>1. Follow => pc' # "create" \/ ScenarioEnds(FALSE)
      BY <1>2, ScenarioMoves DEF Follow, Steps
    <3>2. ScenarioEnds(TRUE) \/ ScenarioEnds(FALSE) => pc' # "create"
      BY DEF ScenarioEnds, AfterScenario
    <3> QED BY <1>2, <3>1, <3>2, ScenarioMoves
  <2> QED BY <1>2, <2>1, ScenarioMoves DEF NotYet
<1>3. CASE Collect \/ CollectFails \/ WriteManifest
  BY <1>3, EvidenceMoves DEF NotYet
<1>4. CASE CleanupDeletes \/ CleanupAwaits \/ CleanupFails
  BY <1>0, <1>4, CleanupMoves DEF NotYet
<1> QED BY <1>1, <1>2, <1>3, <1>4, OthersMove DEF Works, Fails

LEMMA NextUntouched ==
    ASSUME TypeOK, OnPath, Untouched, [Next]_vars
    PROVE  Untouched'
<1> SUFFICES ASSUME NEW r \in Runs, NotYet(r)'
             PROVE  /\ r \notin aijobs' /\ Spared(r)
                    /\ \A c \in Replicas : r \notin cache'[c]
  BY NotYetShrinks DEF Untouched, Spared
<1>0. /\ NotYet(r)
      /\ r \notin aijobs
      /\ live[r] = {} /\ garbage[r] = {}
      /\ progress[r] = "waiting" /\ outcome[r] = "Unset"
      /\ \A c \in Replicas : r \notin cache[c]
  BY NotYetShrinks DEF Untouched
<1>1. ASSUME NEW x \in Runs, ActsOn(x)
      PROVE  /\ r \notin aijobs' /\ Spared(r)
             /\ \A c \in Replicas : r \notin cache'[c]
  <2>1. x # r
    <3>1. ASSUME x = r PROVE FALSE
      <4>1. ~\E c \in Replicas : ControllerCreates(c, r)
        BY <1>0 DEF ControllerCreates
      <4>2. ~Advances(r)
        BY <1>0 DEF Advances, KueueQueues, KueueAdmits, JobCreated, PodsCreated, Schedules,
           WorkersEnd, JobEnds, JobSetEnds, Moves, Existing
      <4>3. ~WorkerKilled(r) /\ ~Collects(r)
        BY <1>0 DEF WorkerKilled, Moves, Collects
      <4> QED BY <1>1, <3>1, <4>1, <4>2, <4>3 DEF ActsOn
    <3> QED BY <3>1
  <2> QED BY <1>0, <1>1, <2>1, OtherRuns
<1>2. ASSUME NEW x \in Runs, NEW c \in Replicas, ControllerReports(c, x)
      PROVE  /\ r \notin aijobs' /\ Spared(r)
             /\ \A d \in Replicas : r \notin cache'[d]
  BY <1>0, <1>2 DEF ControllerReports, objects, pods, Spared
<1>3. ASSUME NEW c \in Replicas, Syncs(c) \/ ControllerMoves(c)
      PROVE  /\ r \notin aijobs' /\ Spared(r)
             /\ \A d \in Replicas : r \notin cache'[d]
  BY <1>0, <1>3 DEF Syncs, ControllerMoves, objects, Spared, TypeOK
<1>4. CASE Works \/ Fails
  <2>1. CASE UNCHANGED <<aijobs, live, garbage, reported>>
    BY <1>0, <1>4, <2>1, LabctlActs DEF Spared
  <2>2. CASE /\ pc = "create" /\ pc' # "create" /\ run' = run
             /\ aijobs' = aijobs \cup {run}
             /\ UNCHANGED <<live, garbage, reported>>
    <3>1. r # run
      <4>1. r > run
        BY <2>2 DEF NotYet
      <4> QED BY <4>1, SetupTypes DEF Runs
    <3> QED BY <1>0, <1>4, <2>2, <3>1, LabctlActs DEF Spared
  <2>3. CASE pc # "create" /\ (Deletes({run}) \/ Deletes({run} \cap aijobs))
    <3>1. r # run
      <4>1. r > run
        BY <1>0, <2>3 DEF NotYet
      <4> QED BY <4>1, SetupTypes DEF Runs
    <3> QED BY <1>0, <1>4, <2>3, <3>1, LabctlActs DEF Spared, Deletes
  <2> QED BY <1>4, <2>1, <2>2, <2>3, LabctlActs
<1>5. CASE UNCHANGED <<aijobs, live, garbage, progress, outcome, cache>>
  BY <1>0, <1>5 DEF Spared
<1>6. Interrupt \/ UNCHANGED vars => UNCHANGED <<aijobs, live, garbage, progress, outcome, cache>>
  BY DEF Interrupt, vars, cluster, objects, pods
<1> QED BY <1>1, <1>2, <1>3, <1>4, <1>5, <1>6, ClusterCases DEF Next

LEMMA SparedChain ==
    ASSUME Chains, NEW r \in Runs, r \in aijobs, Spared(r), reported'[r] = reported[r], setup' = setup
    PROVE  Chain(r)'
<1>1. Fits(r)' <=> Fits(r)
  BY DEF Fits, GPUs, Kind, Scenarios
<1> QED BY <1>1 DEF Chains, Chain, Spared

\* The objects of a run whose AIJob exists, one by one.
LEMMA ChainGrows ==
    ASSUME TypeOK, Chains, NEW r \in Runs, r \in aijobs, ActsOn(r)
    PROVE  Chain(r)'
<1>0. /\ live \in [Runs -> SUBSET Kinds] /\ garbage \in [Runs -> SUBSET Kinds]
      /\ DOMAIN progress = Runs
      /\ outcome \in [Runs -> {"Unset", "Completed", "Failed"}]
  BY TypesSplit DEF ClusterTypes
<1>1. Chain(r) /\ reported'[r] = reported[r] /\ setup' = setup
  BY OtherRuns DEF Chains
<1>2. Fits(r)' <=> Fits(r)
  BY <1>1 DEF Fits, GPUs, Kind, Scenarios
<1>3. CASE \E c \in Replicas : ControllerCreates(c, r)
  <2>1. live[r] = {} /\ progress[r] = "waiting"
    BY <1>1, <1>3 DEF ControllerCreates, Existing, Chain
  <2>2. /\ live'[r] = {"JobSet"} /\ garbage'[r] = garbage[r]
        /\ progress'[r] = "waiting" /\ outcome'[r] = "Unset"
    BY <1>0, <1>3, <2>1 DEF ControllerCreates, CreatesOwned, Adds
  <2> QED BY <1>1, <1>2, <2>1, <2>2 DEF Chain
<1>4. CASE WorkerKilled(r)
  <2>1. /\ progress[r] = "bound" /\ progress'[r] = "exited" /\ outcome'[r] = "Failed"
        /\ UNCHANGED <<live, garbage>>
    BY <1>0, <1>4 DEF WorkerKilled, Moves
  <2> QED BY <1>1, <1>2, <2>1 DEF Chain
<1>5. ~Collects(r)
  BY <1>1 DEF Collects, Chain
<1>6. CASE Advances(r)
  <2>0. garbage' = garbage
    BY <1>6 DEF Advances
  <2>1. CASE KueueQueues(r)
    <3>1. "JobSet" \in live[r] /\ "Workload" \notin live[r] /\ live'[r] = live[r] \cup {"Workload"}
      BY <1>0, <1>1, <2>1 DEF KueueQueues, Existing, Adds, Chain
    <3>2. UNCHANGED <<progress, outcome>>
      BY <2>1 DEF KueueQueues
    <3> QED BY <1>1, <1>2, <2>0, <3>1, <3>2 DEF Chain, Kinds
  <2>2. CASE KueueAdmits(r)
    <3>1. /\ {"JobSet", "Workload"} \subseteq live[r] /\ Fits(r)
          /\ progress[r] = "waiting" /\ progress'[r] = "admitted" /\ UNCHANGED <<live, outcome>>
      BY <1>0, <2>2 DEF KueueAdmits, Moves
    <3> QED BY <1>1, <1>2, <2>0, <3>1 DEF Chain
  <2>3. CASE JobCreated(r)
    <3>1. /\ progress[r] = "admitted" /\ live'[r] = live[r] \cup {"Job"}
          /\ UNCHANGED <<progress, outcome>>
      BY <1>0, <2>3 DEF JobCreated, Adds
    <3> QED BY <1>1, <1>2, <2>0, <3>1 DEF Chain
  <2>4. CASE PodsCreated(r)
    <3>1. /\ "Job" \in live[r] /\ progress[r] = "admitted" /\ progress'[r] = "pending"
          /\ live'[r] = live[r] \cup {"Pods"} /\ UNCHANGED outcome
      BY <1>0, <2>4 DEF PodsCreated, Moves, Adds
    <3>2. live'[r] = Kinds
      BY <1>0, <1>1, <3>1 DEF Chain, Kinds
    <3> QED BY <1>1, <1>2, <2>0, <3>1, <3>2 DEF Chain, Kinds
  <2>5. CASE Schedules(r)
    <3>1. /\ progress[r] = "pending" /\ progress'[r] \in {"unschedulable", "bound"}
          /\ UNCHANGED <<live, outcome>>
      BY <1>0, <2>5 DEF Schedules, Moves
    <3> QED BY <1>1, <1>2, <2>0, <3>1 DEF Chain
  <2>6. CASE WorkersEnd(r)
    <3>1. /\ progress[r] = "bound" /\ progress'[r] = "exited"
          /\ outcome'[r] \in {"Completed", "Failed"} /\ UNCHANGED live
      BY <1>0, <2>6 DEF WorkersEnd, Moves
    <3> QED BY <1>1, <1>2, <2>0, <3>1 DEF Chain
  <2>7. CASE JobEnds(r)
    <3>1. progress[r] = "exited" /\ progress'[r] = "jobEnded" /\ UNCHANGED <<live, outcome>>
      BY <1>0, <2>7 DEF JobEnds, Moves
    <3> QED BY <1>1, <1>2, <2>0, <3>1 DEF Chain
  <2>8. CASE JobSetEnds(r)
    <3>1. progress[r] = "jobEnded" /\ progress'[r] = "jobSetEnded" /\ UNCHANGED <<live, outcome>>
      BY <1>0, <2>8 DEF JobSetEnds, Moves
    <3> QED BY <1>1, <1>2, <2>0, <3>1 DEF Chain
  <2> QED BY <1>6, <2>1, <2>2, <2>3, <2>4, <2>5, <2>6, <2>7, <2>8 DEF Advances
<1> QED BY <1>3, <1>4, <1>5, <1>6 DEF ActsOn

LEMMA NextChains ==
    ASSUME TypeOK, OnPath, Untouched, Chains, [Next]_vars
    PROVE  Chains'
<1>0. setup' = setup /\ DOMAIN reported = Runs
  BY SetupStays, TypesSplit DEF ClusterTypes
<1> SUFFICES ASSUME NEW r \in Runs
             PROVE  /\ r \in aijobs' => Chain(r)'
                    /\ r \notin aijobs' => reported'[r] = "Unset"
  BY DEF Chains
<1>1. r \notin aijobs => reported[r] = "Unset"
  BY DEF Chains
<1>2. ASSUME NEW x \in Runs, ActsOn(x)
      PROVE  /\ r \in aijobs' => Chain(r)'
             /\ r \notin aijobs' => reported'[r] = "Unset"
  <2>1. UNCHANGED <<aijobs, reported>> /\ (r # x => Spared(r))
    BY <1>2, OtherRuns
  <2>2. CASE r = x
    BY <1>1, <1>2, <2>1, <2>2, ChainGrows
  <2>3. CASE r # x
    BY <1>0, <1>1, <2>1, <2>3, SparedChain
  <2> QED BY <2>2, <2>3
<1>3. ASSUME NEW x \in Runs, NEW c \in Replicas, ControllerReports(c, x)
      PROVE  /\ r \in aijobs' => Chain(r)'
             /\ r \notin aijobs' => reported'[r] = "Unset"
  <2>1. /\ UNCHANGED <<aijobs, live, garbage, progress, outcome>> /\ x \in aijobs
        /\ progress[x] = "jobSetEnded"
        /\ reported' = [reported EXCEPT ![x] = outcome[x]]
    BY <1>3 DEF ControllerReports, Reportable, objects
  <2>2. CASE r = x
    <3>1. Fits(r)' <=> Fits(r)
      BY <1>0 DEF Fits, GPUs, Kind, Scenarios
    <3> QED BY <1>0, <2>1, <2>2, <3>1 DEF Chains, Chain
  <2>3. CASE r # x
    BY <1>0, <1>1, <2>1, <2>3, SparedChain DEF Spared
  <2> QED BY <2>2, <2>3
<1>4. CASE UNCHANGED <<aijobs, live, garbage, progress, outcome, reported>>
  BY <1>0, <1>1, <1>4, SparedChain DEF Spared
<1>5. CASE Works \/ Fails
  <2>1. CASE /\ pc = "create" /\ pc' # "create" /\ run' = run
             /\ aijobs' = aijobs \cup {run}
             /\ UNCHANGED <<live, garbage, reported>>
    <3>1. Spared(r) /\ reported'[r] = reported[r]
      BY <1>5, <2>1, LabctlActs DEF Spared
    <3>2. CASE r = run
      <4>1. /\ r \notin aijobs /\ live[r] = {} /\ garbage[r] = {}
            /\ progress[r] = "waiting" /\ outcome[r] = "Unset"
        BY <2>1, <3>2 DEF Untouched, NotYet
      <4> QED BY <1>1, <2>1, <3>1, <3>2, <4>1 DEF Chain, Spared
    <3>3. CASE r # run
      BY <1>0, <1>1, <2>1, <3>1, <3>3, SparedChain
    <3> QED BY <3>2, <3>3
  <2>2. ASSUME NEW rs, Deletes(rs), UNCHANGED <<progress, outcome>>
        PROVE  /\ r \in aijobs' => Chain(r)'
               /\ r \notin aijobs' => reported'[r] = "Unset"
    <3>1. CASE r \in rs
      BY <2>2, <3>1 DEF Deletes
    <3>2. CASE r \notin rs
      <4>1. Spared(r) /\ reported'[r] = reported[r] /\ (r \in aijobs' <=> r \in aijobs)
        BY <2>2, <3>2 DEF Deletes, Spared
      <4> QED BY <1>0, <1>1, <4>1, SparedChain
    <3> QED BY <3>1, <3>2
  <2> QED BY <1>4, <1>5, <2>1, <2>2, LabctlActs
<1>6. CASE Interrupt \/ UNCHANGED vars \/ \E c \in Replicas : Syncs(c) \/ ControllerMoves(c)
  <2>1. UNCHANGED <<aijobs, live, garbage, progress, outcome, reported>>
    BY <1>6 DEF Interrupt, vars, cluster, objects, pods, Syncs, ControllerMoves
  <2> QED BY <1>4, <2>1
<1> QED BY <1>2, <1>3, <1>5, <1>6, ClusterCases DEF Next

-----------------------------------------------------------------------------
(* Layer three: the controller Pods. *)

Killed == [c \in Replicas |-> IF c \in listed /\ controller[c] # "gone"
                              THEN "terminating" ELSE controller[c]]

LEMMA ControllersMove ==
    ASSUME [Next]_vars
    PROVE  \/ UNCHANGED controller
           \/ Stands /\ \E c \in Replicas : ControllerMoves(c)
           \/ (WriteCall \/ ScenarioFails) /\ pc = "kill" /\ controller' = Killed
<1>1. CASE \E r \in Runs : Reconciles(r) \/ Advances(r) \/ WorkerKilled(r) \/ Collects(r)
  BY <1>1 DEF Reconciles, ControllerCreates, ControllerReports, Advances, WorkerKilled, Collects,
     pods
<1>2. CASE \E c \in Replicas : Syncs(c) \/ ControllerMoves(c)
  <2>1. CASE \E c \in Replicas : Syncs(c)
    BY <2>1 DEF Syncs
  <2>2. CASE \E c \in Replicas : ControllerMoves(c)
    BY <2>2 DEF ControllerMoves, runner, evidence, Stands
  <2> QED BY <1>2, <2>1, <2>2
<1>3. CASE WriteCall \/ ScenarioFails
  <2>1. Effect \/ UNCHANGED controller
    BY <1>3 DEF WriteCall, ScenarioFails
  <2>2. Effect => UNCHANGED controller \/ (pc = "kill" /\ controller' = Killed)
    BY DEF Effect, Killed
  <2> QED BY <1>3, <2>1, <2>2
<1>4. CASE Observation
  BY <1>4 DEF Observation, cluster, pods
<1>5. CASE Collect \/ CollectFails \/ WriteManifest
  BY <1>5, EvidenceMoves DEF cluster, pods
<1>6. CASE CleanupDeletes \/ CleanupAwaits \/ CleanupFails
  BY <1>6, CleanupMoves
<1>7. CASE Interrupt \/ UNCHANGED vars
  BY <1>7 DEF Interrupt, vars, cluster, pods
<1> QED BY <1>1, <1>2, <1>3, <1>4, <1>5, <1>6, <1>7 DEF Next, Cluster, Works, Fails

LEMMA NextReplaced ==
    ASSUME TypeOK, Replaced, ControllerFollowed, [Next]_vars
    PROVE  Replaced'
<1>0. DOMAIN controller = Replicas /\ Replicas = {0, 1, 2}
  BY TypesSplit DEF ClusterTypes, Replicas
<1>1. CASE UNCHANGED controller
  BY <1>1 DEF Replaced
<1>2. CASE \E c \in Replicas : ControllerMoves(c)
  BY <1>0, <1>2 DEF ControllerMoves, Replaced
<1>3. CASE pc = "kill" /\ controller' = Killed
  <2>1. /\ controller[2] = "gone"
        /\ \/ listed = {0} /\ controller[1] # "terminating"
           \/ listed = {1} /\ controller[0] = "gone"
    BY <1>3 DEF ControllerFollowed
  <2>2. /\ controller'[0] = IF 0 \in listed /\ controller[0] # "gone"
                            THEN "terminating" ELSE controller[0]
        /\ controller'[1] = IF 1 \in listed /\ controller[1] # "gone"
                            THEN "terminating" ELSE controller[1]
        /\ controller'[2] = IF 2 \in listed /\ controller[2] # "gone"
                            THEN "terminating" ELSE controller[2]
    BY <1>0, <1>3 DEF Killed
  <2> QED BY <2>1, <2>2 DEF Replaced
<1> QED BY <1>1, <1>2, <1>3, ControllersMove

\* A manifest that is written does not undo an error.
LEMMA SucceededBefore ==
    ASSUME Collect \/ CollectFails \/ WriteManifest, Succeeded'
    PROVE  Succeeded
<1>1. ~runErr
  BY DEF Succeeded, Collect, CollectFails, WriteManifest
<1> QED BY <1>1, EvidenceMoves DEF Succeeded

LEMMA NextControllerFollowed ==
    ASSUME TypeOK, OnPath, Replaced, ControllerFollowed, [Next]_vars
    PROVE  ControllerFollowed'
<1>0. /\ DOMAIN controller = Replicas /\ Replicas = {0, 1, 2}
      /\ setup' = setup
  BY TypesSplit, SetupStays DEF ClusterTypes, Replicas
<1>1. CASE Stands /\ UNCHANGED controller
  BY <1>1 DEF Stands, ControllerFollowed, Succeeded, Kind, Scenarios, IsE2E
<1>2. CASE Stands /\ \E c \in Replicas : ControllerMoves(c)
  <2>1. /\ controller[2] = "gone" => controller'[2] = "gone"
        /\ controller[1] # "terminating" => controller'[1] # "terminating"
        /\ controller[1] = "ready" => controller'[1] = "ready"
        /\ controller[0] = "gone" => controller'[0] = "gone"
        /\ controller[0] # "ready" => controller'[0] # "ready"
    BY <1>0, <1>2 DEF ControllerMoves, Replaced
  <2> QED BY <1>2, <2>1 DEF Stands, ControllerFollowed, Succeeded, Kind, Scenarios, IsE2E
<1>3. CASE WriteCall \/ Observation \/ ScenarioFails
  <2>0. /\ pc \in StepsOf(Kind(run)) /\ run' = run /\ Kind(run)' = Kind(run)
    BY <1>3, ScenarioMoves DEF Kind, Scenarios, OnPath
  <2>1. CASE ScenarioEnds(TRUE)
    BY <2>1 DEF ScenarioEnds, AfterScenario, ControllerFollowed, Succeeded
  <2>2. CASE Proceeds /\ Follow /\ ~ScenarioEnds(TRUE)
    <3>1. WriteCall \/ Observation
      BY <1>3, <2>2 DEF ScenarioFails
    <3>2. CASE pc \in {"create", "await", "verify", "diagnose", "scheduled"}
      <4>1. CASE Kind(run) = "restart"
        <5>1. pc' \in {"scheduled", "count"}
          BY <2>0, <2>2, <3>2, <4>1 DEF Follow, StepsOf
        <5> QED BY <5>1 DEF ControllerFollowed, Succeeded
      <4>2. CASE Kind(run) # "restart"
        <5>1. pc' \notin {"kill", "ready"}
          <6>1. ScenarioEnds(FALSE) => pc' \notin {"kill", "ready"}
            BY DEF ScenarioEnds, AfterScenario
          <6> QED BY <2>0, <2>2, <3>2, <4>2, <6>1 DEF Follow, StepsOf
        <5> QED BY <2>0, <4>2, <5>1 DEF ControllerFollowed
      <4> QED BY <4>1, <4>2
    <3>3. CASE pc = "count"
      <4>1. CountControllers /\ UNCHANGED cluster
        BY <3>1, <3>3 DEF WriteCall, Effect, Observation, Diagnose, Await, Verify, AwaitScheduled,
           AwaitReady, CountJobSets, AwaitGone
      <4>2. listed' = Listed /\ Cardinality(Listed) = 1 /\ UNCHANGED controller
        BY <2>2, <4>1 DEF CountControllers, cluster, pods
      <4>3. PICK c : Listed = {c}
        <5>1. IsFiniteSet(Listed)
          <6>1. IsFiniteSet(Replicas)
            <7>1. 0 \in Int /\ 2 \in Int
              OBVIOUS
            <7>2. IsFiniteSet(0..2)
              BY <7>1, FS_Interval, Zenon
            <7> QED BY <7>2 DEF Replicas
          <6>2. Listed \subseteq Replicas
            BY DEF Listed
          <6> QED BY <6>1, <6>2, FS_Subset
        <5> QED BY <4>2, <5>1, FS_Singleton
      <4>4. \/ Listed = {0} /\ controller[1] = "gone" /\ controller[2] = "gone"
            \/ Listed = {1} /\ controller[0] = "gone" /\ controller[2] = "gone"
        <5>1. \A d \in {0, 1, 2} : controller[d] # "gone" <=> d = c
          BY <1>0, <4>3 DEF Listed
        <5>2. c \in {0, 1, 2}
          BY <1>0, <4>3 DEF Listed
        <5>3. c # 2
          BY <5>1 DEF Replaced
        <5> QED BY <4>3, <5>1, <5>2, <5>3
      <4>5. pc' = "kill"
        BY <2>2, <3>3 DEF Follow
      <4> QED BY <4>2, <4>4, <4>5 DEF ControllerFollowed, Succeeded
    <3>4. CASE pc = "kill"
      <4>1. /\ controller'[0] = IF 0 \in listed /\ controller[0] # "gone"
                                THEN "terminating" ELSE controller[0]
            /\ controller'[1] = IF 1 \in listed /\ controller[1] # "gone"
                                THEN "terminating" ELSE controller[1]
            /\ controller'[2] = IF 2 \in listed /\ controller[2] # "gone"
                                THEN "terminating" ELSE controller[2]
            /\ listed' = listed
        BY <1>0, <3>1, <3>4 DEF WriteCall, Effect, Observation, Diagnose, Await, Verify, AwaitScheduled,
           CountControllers, AwaitReady, CountJobSets, AwaitGone
      <4>2. pc' = "ready"
        BY <2>2, <3>4 DEF Follow
      <4>3. /\ controller[2] = "gone"
            /\ \/ listed = {0} /\ controller[1] # "terminating"
               \/ listed = {1} /\ controller[0] = "gone"
        BY <3>4 DEF ControllerFollowed
      <4> QED BY <4>1, <4>2, <4>3 DEF ControllerFollowed, Succeeded
    <3>5. CASE pc = "ready"
      <4>1. AwaitReady /\ UNCHANGED cluster
        BY <3>1, <3>5 DEF WriteCall, Effect, Observation, Diagnose, Await, Verify, AwaitScheduled,
           CountControllers, CountJobSets, AwaitGone
      <4>2. PICK c \in Replicas \ listed : controller[c] \in {"ready", "terminating"}
        BY <4>1 DEF AwaitReady, Replacements, Active
      <4>3. /\ controller[2] = "gone"
            /\ \/ listed = {0} /\ controller[1] # "terminating" /\ controller[0] # "ready"
               \/ listed = {1} /\ controller[0] = "gone"
        BY <3>5 DEF ControllerFollowed
      <4>4. controller[1] = "ready" /\ controller[0] # "ready"
        BY <1>0, <4>2, <4>3
      <4>5. pc' = "jobsets"
        BY <2>2, <3>5 DEF Follow
      <4> QED BY <4>1, <4>4, <4>5 DEF ControllerFollowed, cluster, pods
    <3>6. CASE pc \in {"jobsets", "remove", "gone"}
      <4>1. UNCHANGED controller
        BY <3>1, <3>6 DEF WriteCall, Effect, Observation, cluster, pods
      <4>2. Kind(run) = "restart"
        BY <2>0, <3>6 DEF StepsOf
      <4>3. controller[0] # "ready" /\ controller[1] = "ready"
        BY <3>6, <4>2 DEF ControllerFollowed
      <4>4. pc' \notin {"kill", "ready"}
        <5>1. ScenarioEnds(FALSE) => pc' \notin {"kill", "ready"}
          BY DEF ScenarioEnds, AfterScenario
        <5> QED BY <2>2, <3>6, <5>1 DEF Follow
      <4> QED BY <4>1, <4>3, <4>4 DEF ControllerFollowed
    <3> QED BY <2>0, <3>2, <3>3, <3>4, <3>5, <3>6, ScenarioMoves DEF StepsOf
  <2> QED BY <1>3, <2>1, <2>2, ScenarioMoves
<1>4. CASE Collect \/ CollectFails \/ WriteManifest
  <2>1. UNCHANGED <<controller, setup, run>> /\ pc' \notin Steps
    BY <1>4, EvidenceMoves DEF cluster, pods, Steps
  <2> QED BY <1>4, <2>1, SucceededBefore DEF ControllerFollowed, Kind, Scenarios, Steps
<1>5. CASE CleanupDeletes \/ CleanupAwaits \/ CleanupFails
  BY <1>5, CleanupMoves DEF ControllerFollowed, Succeeded
<1>6. CASE ~(Works \/ Fails)
  BY <1>1, <1>2, <1>6, OthersMove, ControllersMove DEF Works, Fails
<1> QED BY <1>3, <1>4, <1>5, <1>6 DEF Works, Fails

-----------------------------------------------------------------------------
(* Layer four: the scenario and its evidence. *)

\* The objects of an AIJob that exists only grow in number.
LEMMA LiveGrows ==
    ASSUME TypeOK, Chains, NEW r \in Runs, r \in aijobs, ActsOn(r)
    PROVE  live[r] \subseteq live'[r]
<1>0. live \in [Runs -> SUBSET Kinds] /\ Chain(r)
  BY TypesSplit DEF ClusterTypes, Chains
<1>1. CASE \E c \in Replicas : ControllerCreates(c, r)
  BY <1>0, <1>1 DEF ControllerCreates, CreatesOwned, Adds
<1>2. CASE Advances(r)
  <2>1. live' = live \/ \E kind \in Kinds : live' = [live EXCEPT ![r] = @ \cup {kind}]
    BY <1>2 DEF Advances, KueueQueues, KueueAdmits, JobCreated, PodsCreated, Schedules,
       WorkersEnd, JobEnds, JobSetEnds, Adds, Kinds
  <2> QED BY <1>0, <2>1
<1>3. CASE WorkerKilled(r)
  BY <1>3 DEF WorkerKilled
<1>4. ~Collects(r)
  BY <1>0 DEF Collects, Chain
<1> QED BY <1>1, <1>2, <1>3, <1>4 DEF ActsOn

\* While labctl stands still, the objects of an AIJob only come nearer their end.
LEMMA AIJobAdvances ==
    ASSUME TypeOK, Chains, [Next]_vars, ~(Works \/ Fails), NEW r \in Runs, r \in aijobs
    PROVE  /\ r \in aijobs' /\ live[r] \subseteq live'[r]
           /\ progress[r] \notin {"waiting", "admitted", "pending"} =>
                 progress'[r] \notin {"waiting", "admitted", "pending"}
           /\ progress[r] = "unschedulable" => progress'[r] = "unschedulable"
           /\ reported[r] # "Unset" => reported'[r] = reported[r]
<1>0. /\ live \in [Runs -> SUBSET Kinds] /\ DOMAIN progress = Runs /\ DOMAIN reported = Runs
      /\ Chain(r)
  BY TypesSplit DEF ClusterTypes, Chains
<1>1. ASSUME NEW x \in Runs, ActsOn(x)
      PROVE  /\ r \in aijobs' /\ live[r] \subseteq live'[r]
             /\ progress[r] \notin {"waiting", "admitted", "pending"} =>
                   progress'[r] \notin {"waiting", "admitted", "pending"}
             /\ progress[r] = "unschedulable" => progress'[r] = "unschedulable"
             /\ reported[r] # "Unset" => reported'[r] = reported[r]
  <2>1. UNCHANGED <<aijobs, reported>> /\ (r # x => Spared(r))
    BY <1>1, OtherRuns
  <2>2. CASE r # x
    BY <2>1, <2>2 DEF Spared
  <2>3. CASE r = x
    <3>1. live[r] \subseteq live'[r]
      BY <1>1, <2>3, LiveGrows
    <3>2. /\ progress[r] \notin {"waiting", "admitted", "pending"} =>
                progress'[r] \notin {"waiting", "admitted", "pending"}
          /\ progress[r] = "unschedulable" => progress'[r] = "unschedulable"
      <4>1. CASE \E c \in Replicas : ControllerCreates(c, r)
        BY <1>0, <4>1 DEF ControllerCreates, Existing, Chain
      <4>2. CASE Advances(r)
        BY <1>0, <4>2 DEF Advances, KueueQueues, KueueAdmits, JobCreated, PodsCreated, Schedules,
           WorkersEnd, JobEnds, JobSetEnds, Moves
      <4>3. CASE WorkerKilled(r)
        BY <1>0, <4>3 DEF WorkerKilled, Moves
      <4>4. CASE Collects(r)
        BY <4>4 DEF Collects
      <4> QED BY <1>1, <2>3, <4>1, <4>2, <4>3, <4>4 DEF ActsOn
    <3> QED BY <2>1, <3>1, <3>2
  <2> QED BY <2>2, <2>3
<1>2. ASSUME NEW x \in Runs, NEW c \in Replicas, ControllerReports(c, x)
      PROVE  /\ UNCHANGED <<aijobs, live, progress>>
             /\ reported[r] # "Unset" => reported'[r] = reported[r]
  <2>1. /\ UNCHANGED <<aijobs, live, progress>>
        /\ reported[x] # outcome[x] /\ reported' = [reported EXCEPT ![x] = outcome[x]]
    BY <1>2 DEF ControllerReports, objects
  <2>2. reported[r] # "Unset" => r # x
    BY <1>0, <2>1 DEF Chain
  <2> QED BY <2>1, <2>2
<1>3. ASSUME NEW c \in Replicas, Syncs(c) \/ ControllerMoves(c)
      PROVE  UNCHANGED <<aijobs, live, progress, reported>>
  BY <1>3 DEF Syncs, ControllerMoves, objects
<1>4. Interrupt \/ UNCHANGED vars => UNCHANGED <<aijobs, live, progress, reported>>
  BY DEF Interrupt, vars, cluster, objects
<1> QED BY <1>1, <1>2, <1>3, <1>4, ClusterCases DEF Next

\* The call labctl stands at, and what it leaves alone.
LEMMA CallOf ==
    ASSUME WriteCall \/ Observation
    PROVE  /\ pc = "create" => WriteCall /\ aijobs' = aijobs \cup {run}
           /\ pc = "diagnose" => Diagnose
           /\ pc = "await" => Await
           /\ pc = "verify" => Verify
           /\ pc = "scheduled" => AwaitScheduled
           /\ pc = "count" => CountControllers
           /\ pc = "ready" => AwaitReady
           /\ pc = "jobsets" => CountJobSets
           /\ pc = "gone" => AwaitGone
           /\ pc \notin {"create", "remove"} =>
                 UNCHANGED <<setup, aijobs, live, garbage, progress, outcome, reported>>
           /\ pc \in {"create", "kill", "remove"} => WriteCall /\ UNCHANGED <<observed, excuses>>
<1>1. CASE WriteCall
  BY <1>1 DEF WriteCall, Effect, ClusterRests
<1>2. CASE Observation
  <2>1. UNCHANGED <<setup, aijobs, live, garbage, progress, outcome, reported>>
    BY <1>2 DEF Observation, cluster, objects
  <2>2. Diagnose \/ Await \/ Verify \/ AwaitScheduled \/ CountControllers \/ AwaitReady
          \/ CountJobSets \/ AwaitGone
    BY <1>2 DEF Observation
  <2>3. /\ Diagnose => pc = "diagnose"
        /\ Await => pc = "await"
        /\ Verify => pc = "verify"
        /\ AwaitScheduled => pc = "scheduled"
        /\ CountControllers => pc = "count"
        /\ AwaitReady => pc = "ready"
        /\ CountJobSets => pc = "jobsets"
        /\ AwaitGone => pc = "gone"
    BY DEF Diagnose, Await, Verify, AwaitScheduled, CountControllers, AwaitReady, CountJobSets,
       AwaitGone
  <2> QED BY <2>1, <2>2, <2>3
<1> QED BY <1>1, <1>2

LEMMA NextEstablished ==
    ASSUME TypeOK, OnPath, Untouched, Chains, Established, [Next]_vars
    PROVE  Established'
<1>0. setup' = setup /\ run \in Runs
  BY SetupStays, SetupTypes
<1>1. CASE ~(Works \/ Fails)
  <2>1. Stands
    BY <1>1, OthersMove
  <2>2. /\ UNCHANGED <<pc, run, observed, runErr>> /\ Kind(run)' = Kind(run)
        /\ (IsE2E' <=> IsE2E) /\ (Succeeded' <=> Succeeded)
    BY <2>1 DEF Stands, Kind, Scenarios, IsE2E, Succeeded
  <2>3. CASE run \in aijobs
    <3>1. /\ run \in aijobs' /\ live[run] \subseteq live'[run]
          /\ progress[run] \notin {"waiting", "admitted", "pending"} =>
                progress'[run] \notin {"waiting", "admitted", "pending"}
          /\ progress[run] = "unschedulable" => progress'[run] = "unschedulable"
          /\ reported[run] # "Unset" => reported'[run] = reported[run]
      BY <1>0, <1>1, <2>3, AIJobAdvances
    <3>2. Proves(Kind(run), reported[run]) => reported'[run] = reported[run]
      BY <3>1 DEF Proves
    <3> QED BY <2>2, <2>3, <3>1, <3>2 DEF Established, Proves
  <2>4. CASE run \notin aijobs
    <3>1. run \notin aijobs'
      <4>1. UNCHANGED aijobs
        <5>1. Interrupt \/ UNCHANGED vars => UNCHANGED aijobs
          BY DEF Interrupt, vars, cluster
        <5>2. ASSUME NEW x \in Runs, ActsOn(x) PROVE UNCHANGED aijobs
          BY <5>2, OtherRuns
        <5>3. ASSUME NEW x \in Runs, NEW c \in Replicas, ControllerReports(c, x)
              PROVE  UNCHANGED aijobs
          BY <5>3 DEF ControllerReports
        <5>4. ASSUME NEW c \in Replicas, Syncs(c) \/ ControllerMoves(c)
              PROVE  UNCHANGED aijobs
          BY <5>4 DEF Syncs, ControllerMoves
        <5> QED BY <1>1, <5>1, <5>2, <5>3, <5>4, ClusterCases DEF Next
      <4> QED BY <2>4, <4>1
    <3>2. Succeeded => IsE2E /\ Kind(run) = "restart"
      BY <2>4 DEF Established
    <3>3. pc \notin Steps \ {"create", "gone"}
      BY <2>4 DEF Established
    <3> QED BY <2>2, <2>4, <3>1, <3>2, <3>3 DEF Established, Steps
  <2> QED BY <2>3, <2>4
<1>2. CASE WriteCall \/ Observation \/ ScenarioFails
  <2>0. /\ pc \in Steps /\ pc \in StepsOf(Kind(run)) /\ run' = run
        /\ Kind(run)' = Kind(run) /\ (IsE2E' <=> IsE2E)
    BY <1>0, <1>2, ScenarioMoves DEF Kind, Scenarios, IsE2E, OnPath
  <2>1. CASE ScenarioEnds(TRUE)
    <3>1. pc' \notin Steps /\ ~Succeeded'
      BY <2>1 DEF ScenarioEnds, AfterScenario, Steps, Succeeded
    <3> QED BY <3>1 DEF Established, Steps
  <2>2. CASE Proceeds /\ Follow /\ ~ScenarioEnds(TRUE)
    <3>0. WriteCall \/ Observation
      BY <1>2, <2>2 DEF ScenarioFails
    <3>1. pc' \in Steps => ~Succeeded'
      BY DEF Succeeded, Steps
    <3>2. ScenarioEnds(FALSE) => pc' \notin Steps
      BY DEF ScenarioEnds, AfterScenario, Steps
    <3>3. CASE pc \in {"create", "remove"}
      <4>1. pc' \in {"diagnose", "scheduled", "await", "gone"} /\ (pc' # "gone" => run \in aijobs')
        BY <2>2, <3>0, <3>3, CallOf DEF Follow
      <4> QED BY <2>0, <3>1, <4>1 DEF Established, Steps
    <3>4. CASE pc \notin {"create", "remove"}
      <4>0. UNCHANGED <<aijobs, live, garbage, progress, outcome, reported>>
        BY <3>0, <3>4, CallOf
      <4>1. CASE pc = "diagnose"
        <5>1. run \in aijobs /\ Kind(run) = "capacity" /\ ScenarioEnds(FALSE) /\ Diagnose
          BY <2>0, <2>2, <3>0, <4>1, CallOf DEF Established, Follow, StepsOf, Steps
        <5>2. \/ observed' = {"at kube-scheduler"} /\ progress[run] = "unschedulable"
              \/ observed' = {"at Kueue"} /\ "Workload" \in Found(run)
          BY <5>1 DEF Diagnose, WaitsAtKueue
        <5>3. "Workload" \in Found(run) => {"JobSet", "Workload"} \subseteq live[run]
          BY <1>0, <5>1 DEF Found, Existing, Chains, Chain
        <5> QED BY <2>0, <3>2, <4>0, <5>1, <5>2, <5>3 DEF Established
      <4>2. CASE pc = "await"
        <5>1. run \in aijobs /\ Kind(run) \notin {"capacity", "restart"} /\ Await
          BY <2>0, <3>0, <4>2, CallOf DEF Established, StepsOf, Steps
        <5>2. Proves(Kind(run), reported[run])
          BY <5>1 DEF Await
        <5>3. pc' = "verify" \/ (~IsE2E /\ ScenarioEnds(FALSE))
          BY <2>2, <4>2 DEF Follow
        <5> QED BY <2>0, <4>0, <5>1, <5>2, <5>3 DEF Established, Proves
      <4>3. CASE pc = "verify"
        <5>1. run \in aijobs /\ Kind(run) \notin {"capacity", "restart"} /\ ScenarioEnds(FALSE)
          BY <2>0, <2>2, <4>3 DEF Established, Follow, StepsOf, Steps
        <5> QED BY <2>0, <3>2, <4>0, <4>3, <5>1 DEF Established, Proves
      <4>4. CASE pc = "scheduled"
        <5>1. run \in aijobs /\ pc' = "count" /\ AwaitScheduled /\ Kind(run) = "restart"
          BY <2>0, <2>2, <3>0, <4>4, CallOf DEF Established, Follow, StepsOf, Steps
        <5> QED BY <2>0, <3>1, <4>0, <5>1 DEF Established, AwaitScheduled, Steps
      <4>5. CASE pc \in {"count", "kill", "ready"}
        <5>1. run \in aijobs /\ pc' \in {"kill", "ready", "jobsets"} /\ Kind(run) = "restart"
          BY <2>0, <2>2, <4>5 DEF Established, Follow, StepsOf, Steps
        <5> QED BY <2>0, <3>1, <4>0, <4>5, <5>1 DEF Established, Steps
      <4>6. CASE pc = "jobsets"
        <5>1. run \in aijobs /\ Kind(run) = "restart"
          BY <2>0, <4>6 DEF Established, StepsOf, Steps
        <5>2. pc' = "remove" \/ (~IsE2E /\ ScenarioEnds(FALSE))
          BY <2>2, <4>6 DEF Follow
        <5> QED BY <2>0, <3>1, <3>2, <4>0, <4>6, <5>1, <5>2 DEF Established, Steps
      <4>7. CASE pc = "gone"
        <5>1. Kind(run) = "restart" /\ IsE2E /\ ScenarioEnds(FALSE) /\ AwaitGone
          BY <2>0, <2>2, <3>0, <4>7, CallOf DEF Follow, StepsOf
        <5>2. run \notin aijobs
          BY <5>1 DEF AwaitGone, Found
        <5> QED BY <2>0, <3>2, <4>0, <5>1, <5>2 DEF Established
      <4> QED BY <2>0, <3>4, <4>1, <4>2, <4>3, <4>4, <4>5, <4>6, <4>7 DEF Steps
    <3> QED BY <3>3, <3>4
  <2> QED BY <1>2, <2>1, <2>2, ScenarioMoves
<1>3. CASE Collect \/ CollectFails \/ WriteManifest
  <2>1. UNCHANGED <<aijobs, live, progress, reported, setup, run, observed>> /\ pc' \notin Steps
    BY <1>3, EvidenceMoves DEF cluster, objects, Steps
  <2> QED BY <1>3, <2>1, SucceededBefore DEF Established, Kind, Scenarios, IsE2E, Steps, Proves
<1>4. CASE CleanupDeletes \/ CleanupAwaits \/ CleanupFails
  BY <1>4, CleanupMoves DEF Established, Succeeded, Steps
<1> QED BY <1>1, <1>2, <1>3, <1>4 DEF Works, Fails

\* A call that goes wrong observes nothing; any other goes on along the path.
LEMMA ScenarioSteps ==
    ASSUME TypeOK, OnPath, WriteCall \/ Observation \/ ScenarioFails
    PROVE  \/ /\ ScenarioEnds(TRUE) /\ observed' = observed
              /\ "slow" \notin excuses' => "slow" \notin excuses
           \/ /\ WriteCall \/ Observation
              /\ Follow
<1>1. CASE ScenarioFails
  BY <1>1 DEF ScenarioFails
<1>2. CASE WriteCall
  BY <1>2, ScenarioMoves DEF WriteCall
<1>3. CASE Observation
  <2>1. CASE Diagnose \/ Await \/ AwaitScheduled \/ AwaitReady \/ AwaitGone
    <3>1. Proceeds
      BY <2>1 DEF Diagnose, Await, AwaitScheduled, AwaitReady, AwaitGone
    <3>2. pc \in Steps
      BY <1>3, ScenarioMoves
    <3> QED BY <1>3, <3>1, <3>2, PathFollowed
  <2>2. CASE Verify \/ CountControllers \/ CountJobSets
    <3>1. CASE Proceeds
      BY <1>3, <3>1, ScenarioMoves, PathFollowed
    <3>2. CASE ~Proceeds
      BY <2>2, <3>2 DEF Verify, CountControllers, CountJobSets
    <3> QED BY <3>1, <3>2
  <2> QED BY <1>3, <2>1, <2>2 DEF Observation
<1> QED BY <1>1, <1>2, <1>3

LEMMA NextObservedLast ==
    ASSUME TypeOK, OnPath, ObservedLast, [Next]_vars
    PROVE  ObservedLast'
<1>0. setup' = setup
  BY SetupStays
<1>1. CASE Stands
  BY <1>1 DEF Stands, ObservedLast, Kind, Scenarios, IsE2E
<1>2. CASE WriteCall \/ Observation \/ ScenarioFails
  <2>0. /\ pc \in Steps /\ pc \in StepsOf(Kind(run)) /\ run' = run
        /\ Kind(run)' = Kind(run) /\ (IsE2E' <=> IsE2E)
    BY <1>0, <1>2, ScenarioMoves DEF Kind, Scenarios, IsE2E, OnPath
  <2>1. CASE observed' = observed
    BY <2>0, <2>1 DEF ObservedLast
  <2>2. CASE (WriteCall \/ Observation) /\ Follow
    <3>1. ScenarioEnds(FALSE) => ObservedLast'
      BY DEF ScenarioEnds, AfterScenario, ObservedLast, Steps
    <3>2. CASE pc = "ready"
      <4>1. observed' = observed \cup {"replaced"} /\ Kind(run) = "restart"
        BY <2>0, <2>2, <3>2, CallOf DEF AwaitReady, StepsOf
      <4> QED BY <2>0, <4>1 DEF ObservedLast
    <3>3. CASE pc \in {"diagnose", "verify", "gone"}
      BY <2>2, <3>1, <3>3 DEF Follow
    <3>4. CASE pc \in {"jobsets", "await"}
      <4>1. CASE IsE2E
        BY <2>0, <4>1 DEF ObservedLast
      <4>2. CASE ~IsE2E
        BY <2>2, <3>1, <3>4, <4>2 DEF Follow
      <4> QED BY <4>1, <4>2
    <3>5. CASE pc \in {"create", "kill", "remove", "scheduled", "count"}
      <4>1. observed' = observed
        BY <2>2, <3>5, CallOf DEF AwaitScheduled, CountControllers
      <4> QED BY <2>1, <4>1
    <3> QED BY <2>0, <3>2, <3>3, <3>4, <3>5 DEF Steps
  <2> QED BY <1>2, <2>1, <2>2, ScenarioSteps
<1>3. CASE Collect \/ CollectFails \/ WriteManifest
  BY <1>0, <1>3, EvidenceMoves DEF ObservedLast, Steps, Kind, Scenarios, IsE2E
<1>4. CASE CleanupDeletes \/ CleanupAwaits \/ CleanupFails
  BY <1>4, CleanupMoves DEF ObservedLast, Steps
<1> QED BY <1>1, <1>2, <1>3, <1>4, OthersMove DEF Works, Fails

LEMMA NextDiagnosed ==
    ASSUME TypeOK, OnPath, Chains, Established, Diagnosed, [Next]_vars
    PROVE  Diagnosed'
<1>0. setup' = setup /\ run \in Runs
  BY SetupStays, SetupTypes
<1>1. \A r : Kind(r)' = Kind(r) /\ (Fits(r)' <=> Fits(r))
  BY <1>0 DEF Kind, Scenarios, Fits, GPUs
<1>2. CASE /\ run' = run /\ observed' = observed
           /\ "slow" \notin excuses' => "slow" \notin excuses
  BY <1>1, <1>2 DEF Diagnosed
<1>3. CASE observed' = {}
  BY <1>3 DEF Diagnosed
<1>4. CASE WriteCall \/ Observation \/ ScenarioFails
  <2>0. pc \in Steps /\ pc \in StepsOf(Kind(run)) /\ run' = run
    BY <1>4, ScenarioMoves DEF OnPath
  <2>1. CASE Kind(run) # "capacity"
    BY <1>1, <2>0, <2>1 DEF Diagnosed
  <2>2. CASE Kind(run) = "capacity" /\ (WriteCall \/ Observation)
    <3>1. CASE pc = "create"
      BY <1>2, <2>0, <2>2, <3>1, CallOf
    <3>2. CASE pc = "diagnose"
      <4>1. Diagnose /\ run \in aijobs /\ Chain(run)
        BY <1>0, <2>2, <3>2, CallOf DEF Established, Chains, Steps
      <4>2. CASE observed' = {"at kube-scheduler"} /\ progress[run] = "unschedulable"
        BY <1>1, <2>0, <4>1, <4>2 DEF Diagnosed, Chain
      <4>3. CASE /\ WaitsAtKueue /\ observed' = {"at Kueue"}
                 /\ excuses' = IF Busy THEN excuses \cup {"slow"} ELSE excuses
        <5>1. progress[run] \in {"waiting", "admitted"}
          BY <4>1, <4>3 DEF WaitsAtKueue, Found, Existing, Chain, Kinds
        <5>2. "slow" \notin excuses' => ~Fits(run)
          BY <4>3, <5>1 DEF Busy
        <5> QED BY <1>1, <2>0, <4>3, <5>2 DEF Diagnosed
      <4> QED BY <4>1, <4>2, <4>3 DEF Diagnose
    <3> QED BY <2>0, <2>2, <3>1, <3>2 DEF StepsOf
  <2> QED BY <1>2, <1>4, <2>0, <2>1, <2>2, ScenarioSteps
<1>5. CASE Collect \/ CollectFails \/ WriteManifest
  BY <1>2, <1>5, EvidenceMoves
<1>6. CASE CleanupDeletes \/ CleanupAwaits \/ CleanupFails
  BY <1>2, <1>3, <1>6, CleanupMoves
<1>7. CASE Stands
  BY <1>2, <1>7 DEF Stands
<1> QED BY <1>4, <1>5, <1>6, <1>7, OthersMove DEF Works, Fails

\* The snapshot of the evidence of an exercise that has succeeded.
LEMMA SnapshotTells ==
    ASSUME TypeOK, Chains, Established, Succeeded, ~IsE2E
    PROVE  /\ {"AIJob", "JobSet", "Workload"} \subseteq Found(run)
           /\ "at Kueue" \in observed \/ Found(run) = Kinds \cup {"AIJob"}
<1>0. run \in Runs /\ Kind(run) \in {"capacity", "success", "failure", "restart"}
  BY SetupTypes
<1>1. run \in aijobs
  BY DEF Established
<1>2. Chain(run)
  BY <1>0, <1>1 DEF Chains
<1>3. live[run] = Kinds => Found(run) = Kinds \cup {"AIJob"}
  BY <1>1, <1>2 DEF Found, Existing, Chain, Kinds
<1>4. CASE Kind(run) = "capacity"
  <2>1. CASE progress[run] = "unschedulable"
    BY <1>2, <1>3, <2>1 DEF Chain, Kinds
  <2>2. CASE observed = {"at Kueue"} /\ {"JobSet", "Workload"} \subseteq live[run]
    BY <1>1, <2>2 DEF Found, Existing
  <2> QED BY <1>4, <2>1, <2>2 DEF Established
<1>5. CASE Kind(run) \in {"success", "failure"}
  <2>1. reported[run] # "Unset"
    BY <1>5 DEF Established, Proves
  <2> QED BY <1>2, <1>3, <2>1 DEF Chain, Kinds
<1>6. CASE Kind(run) = "restart"
  <2>1. progress[run] \notin {"waiting", "admitted", "pending"}
    BY <1>1, <1>6 DEF Established
  <2> QED BY <1>2, <1>3, <2>1 DEF Chain, Kinds
<1> QED BY <1>0, <1>4, <1>5, <1>6

LEMMA NextEvidenceFollows ==
    ASSUME TypeOK, OnPath, Chains, Established, ObservedLast, EvidenceFollows, [Next]_vars
    PROVE  EvidenceFollows'
<1>0. setup' = setup /\ (IsE2E' <=> IsE2E) /\ runErr \in BOOLEAN /\ missing \in BOOLEAN
  BY SetupStays, TypesSplit DEF IsE2E, RunnerTypes
<1>1. CASE Stands
  <2>1. ExpectedObserved' <=> ExpectedObserved
    BY <1>1 DEF Stands, ExpectedObserved, Kind, Scenarios, IsE2E
  <2> QED BY <1>0, <1>1, <2>1 DEF Stands, EvidenceFollows, EvidenceIsRecorded, Complete
<1>2. CASE WriteCall \/ Observation \/ ScenarioFails
  <2>1. bundle' = bundle /\ bundle.state = "none"
    BY <1>2, ScenarioMoves DEF EvidenceFollows
  <2>2. pc' \in Steps \/ (pc' = "resources" /\ (IsE2E => runErr')) \/ (pc' = "delete" /\ ~runErr' /\ IsE2E)
    <3>1. Follow => pc' \in Steps \/ ScenarioEnds(FALSE)
      BY <1>2, ScenarioMoves DEF Follow, Steps
    <3>2. ScenarioEnds(FALSE) =>
             (pc' = "resources" /\ (IsE2E => runErr')) \/ (pc' = "delete" /\ ~runErr' /\ IsE2E)
      BY DEF ScenarioEnds, AfterScenario
    <3>3. ScenarioEnds(TRUE) => pc' = "resources" /\ runErr'
      BY DEF ScenarioEnds, AfterScenario
    <3> QED BY <1>2, <3>1, <3>2, <3>3, ScenarioMoves
  <2> QED BY <1>0, <2>1, <2>2 DEF EvidenceFollows, EvidenceIsRecorded, Complete, Steps
<1>3. CASE Collect \/ CollectFails
  <2>0. /\ UNCHANGED <<run, observed, runErr, bundle>>
        /\ pc \in {"resources", "workers", "controllers", "logs", "manifest"}
        /\ pc' \in {"workers", "controllers", "logs", "manifest"}
    BY <1>3 DEF Collect, ReadResources, ReadWorkerLogs, ListControllers, ReadComponentLogs,
       CollectFails, ReadFails, Reads
  <2>1. ~runErr' /\ ~missing' =>
           /\ {"AIJob", "JobSet", "Workload"} \subseteq seen'
           /\ "at Kueue" \in observed \/ seen' = Kinds \cup {"AIJob"}
    <3>1. CASE ReadResources
      <4>1. pc = "resources" /\ seen' = Found(run)
        BY <3>1 DEF ReadResources, Reads
      <4>2. ~runErr => ~IsE2E /\ Succeeded
        BY <4>1 DEF EvidenceFollows, Succeeded
      <4> QED BY <2>0, <4>1, <4>2, SnapshotTells
    <3>2. CASE ReadWorkerLogs \/ ListControllers \/ ReadComponentLogs
      <4>1. pc \in {"workers", "controllers", "logs", "manifest"} /\ seen' = seen
        BY <3>2 DEF ReadWorkerLogs, ListControllers, ReadComponentLogs, Reads
      <4>2. ~missing' => ~missing
        BY <3>2, Zenon DEF ReadWorkerLogs, ListControllers, ReadComponentLogs
      <4> QED BY <2>0, <4>1, <4>2 DEF EvidenceFollows
    <3>3. CASE CollectFails
      BY <3>3 DEF CollectFails, ReadFails
    <3> QED BY <1>3, <3>1, <3>2, <3>3 DEF Collect
  <2> QED BY <1>0, <2>0, <2>1 DEF EvidenceFollows, EvidenceIsRecorded, Complete, Steps
<1>4. CASE WriteManifest
  <2>0. /\ pc = "manifest" /\ pc' = "delete" /\ UNCHANGED <<run, observed, seen, missing>>
    BY <1>4 DEF WriteManifest
  <2>1. ExpectedObserved' <=> ExpectedObserved
    BY <1>0, <2>0 DEF ExpectedObserved, Kind, Scenarios, IsE2E
  <2>2. ExpectedObserved => ~runErr
    BY <2>0 DEF ExpectedObserved, ObservedLast
  <2>3. \/ /\ ~missing /\ ExpectedObserved /\ ~runErr'
           /\ bundle'.state = "complete" /\ bundle'.seen = seen /\ bundle'.observed = observed
        \/ /\ bundle'.state \in {"incomplete", "unwritten"} /\ runErr'
    <3> DEFINE complete == ~missing /\ ExpectedObserved
    <3>1. \/ /\ bundle' = IF complete
                          THEN [state |-> "complete", seen |-> seen, observed |-> observed]
                          ELSE Bundle("incomplete")
             /\ runErr' = (runErr \/ ~complete)
          \/ bundle' = Bundle("unwritten") /\ runErr' = TRUE
      BY <1>4 DEF WriteManifest
    <3> HIDE DEF complete
    <3>2. runErr' = (runErr \/ ~complete) => (~complete => runErr') /\ (complete /\ ~runErr => ~runErr')
      BY Zenon
    <3>3. complete => ~missing /\ ExpectedObserved /\ ~runErr
      BY <2>2 DEF complete
    <3> QED BY <3>1, <3>2, <3>3 DEF Bundle
  <2>4. ~runErr /\ ~missing =>
           /\ {"AIJob", "JobSet", "Workload"} \subseteq seen
           /\ "at Kueue" \in observed \/ seen = Kinds \cup {"AIJob"}
    BY <2>0 DEF EvidenceFollows
  <2> QED BY <1>0, <2>0, <2>1, <2>2, <2>3, <2>4 DEF EvidenceFollows, EvidenceIsRecorded, Complete, Steps
<1>5. CASE CleanupDeletes \/ CleanupAwaits \/ CleanupFails
  <2>1. CASE pc' = "cleaned" /\ UNCHANGED <<run, observed, bundle, runErr>>
    <3>1. ExpectedObserved' <=> ExpectedObserved
      BY <1>0, <2>1 DEF ExpectedObserved, Kind, Scenarios, IsE2E
    <3>2. pc \in {"delete", "cleaned"}
      BY <1>5, CleanupMoves
    <3> QED BY <2>1, <3>1, <3>2 DEF EvidenceFollows, EvidenceIsRecorded, Complete, Steps
  <2>2. CASE pc' \in {"create", "done"} /\ bundle' = Bundle("none")
    BY <2>2 DEF EvidenceFollows, EvidenceIsRecorded, Bundle, Steps
  <2> QED BY <1>5, <2>1, <2>2, CleanupMoves
<1> QED BY <1>1, <1>2, <1>3, <1>4, <1>5, OthersMove DEF Works, Fails

-----------------------------------------------------------------------------
(* The invariant. *)

LEMMA InitIInv == Init => IInv
<1> SUFFICES ASSUME Init PROVE IInv
  OBVIOUS
<1>1. setup \in Setups /\ Len(Scenarios) \in Nat /\ Len(Scenarios) >= 1
  BY ExercisesAssumption DEF Init, Scenarios, Runs
<1>2. ClusterTypes
  <2>1. controller \in [Replicas -> {"gone", "starting", "ready", "terminating"}]
    BY DEF Init
  <2> QED BY <2>1 DEF Init, ClusterTypes
<1>3. RunnerTypes
  <2>1. run \in 1..Len(Scenarios)
    BY <1>1 DEF Init
  <2>2. bundle \in Bundles
    BY DEF Init, Bundle, Bundles
  <2>3. /\ pc \in Steps /\ observed \subseteq Observations /\ listed \subseteq Replicas
        /\ seen \subseteq Kinds \cup {"AIJob"} /\ missing \in BOOLEAN /\ runErr \in BOOLEAN
        /\ failed \in BOOLEAN /\ signalled \in BOOLEAN /\ disturbed \in Runs \cup {0}
        /\ excuses \subseteq {"slow", "crowded", "vanished"}
    BY DEF Init, Steps
  <2> QED BY <2>1, <2>2, <2>3 DEF RunnerTypes
<1>4. TypeOK
  BY <1>2, <1>3, TypesSplit
<1>5. Untouched /\ Chains
  BY DEF Init, Untouched, Chains
<1>6. Replaced
  <2>1. /\ controller[0] = "ready" /\ controller[1] = "gone"
        /\ controller[2] \in {"terminating", "gone"}
    BY DEF Init, Replicas
  <2> QED BY <2>1 DEF Replaced
<1>7. pc = "create" /\ observed = {} /\ bundle.state = "none" /\ ~runErr
  BY DEF Init, Bundle
<1>8. OnPath /\ ControllerFollowed /\ Established /\ ObservedLast /\ Diagnosed
  BY <1>7 DEF OnPath, StepsOf, ControllerFollowed, Established, ObservedLast, Diagnosed, Succeeded,
     Steps
<1>9. EvidenceFollows
  BY <1>7 DEF EvidenceFollows, EvidenceIsRecorded, Complete
<1> QED BY <1>4, <1>5, <1>6, <1>8, <1>9 DEF IInv, Work

\* No step of the cluster, of labctl, of the user or of a fault leaves IInv.
THEOREM InductiveInvariant == Spec => []IInv
<1>1. ASSUME IInv, [Next]_vars PROVE IInv'
  <2>1. TypeOK' /\ OnPath'
    BY <1>1, NextTypes, NextOnPath DEF IInv, Work
  <2>2. Untouched' /\ Chains'
    BY <1>1, NextUntouched, NextChains DEF IInv, Work
  <2>3. Replaced' /\ ControllerFollowed'
    BY <1>1, NextReplaced, NextControllerFollowed DEF IInv, Work
  <2>4. Established' /\ ObservedLast' /\ Diagnosed'
    BY <1>1, NextEstablished, NextObservedLast, NextDiagnosed DEF IInv, Work
  <2>5. EvidenceFollows'
    BY <1>1, NextEvidenceFollows DEF IInv, Work
  <2> QED BY <2>1, <2>2, <2>3, <2>4, <2>5 DEF IInv, Work
<1>2. IInv /\ [Next]_vars => IInv'
  BY <1>1
<1> QED BY InitIInv, <1>2, PTL DEF Spec

\* The variables keep their types whatever fails, ends late or is interrupted.
THEOREM TypeCorrect == Spec => []TypeOK
<1>1. IInv => TypeOK
  BY DEF IInv
<1> QED BY <1>1, InductiveInvariant, PTL

\* A scenario that ends without error has shown what it is about, for every
\* order of scenarios and every quota: the whole chain of objects with the
\* outcome, or a new Ready controller Pod beside the JobSet that it did not
\* create twice (execute, runSuccess, runFailure, runRestartAndCleanup).
THEOREM SuccessShown == Spec => []SuccessMeansShown
<1>1. ASSUME IInv, pc = "delete", ~runErr
      PROVE  SuccessMeansShown
  <2>0. /\ run \in Runs /\ Kind(run) \in {"capacity", "success", "failure", "restart"}
        /\ Succeeded /\ (run \in aijobs => Chain(run))
    BY <1>1, SetupTypes DEF IInv, Succeeded, Chains
  <2>1. CASE Kind(run) \in {"success", "failure"}
    <3>1. run \in aijobs /\ Proves(Kind(run), reported[run])
      BY <1>1, <2>0, <2>1 DEF IInv, Work, Established
    <3>2. progress[run] = "jobSetEnded" /\ reported[run] = outcome[run] /\ live[run] = Kinds
          /\ garbage[run] = {}
      BY <2>0, <3>1 DEF Chain, Proves
    <3>3. Found(run) = Kinds \cup {"AIJob"}
      BY <3>1, <3>2 DEF Found, Existing, Kinds
    <3>4. Proves(Kind(run), outcome[run])
      BY <3>1, <3>2
    <3> QED BY <2>1, <3>2, <3>3, <3>4 DEF SuccessMeansShown
  <2>2. CASE Kind(run) = "restart"
    <3>1. controller[0] \in {"terminating", "gone"} /\ controller[1] = "ready"
      BY <1>1, <2>0, <2>2 DEF IInv, Work, ControllerFollowed, Replaced
    <3>2. IF IsE2E THEN run \notin aijobs ELSE "JobSet" \in live[run]
      <4>1. run \in aijobs <=> ~IsE2E
        BY <1>1, <2>0, <2>2 DEF IInv, Work, Established
      <4>2. run \in aijobs => progress[run] \notin {"waiting", "admitted"}
        BY <1>1, <2>0, <2>2 DEF IInv, Work, Established
      <4>3. run \in aijobs => live[run] = Kinds
        BY <2>0, <4>2 DEF Chain
      <4> QED BY <4>1, <4>3 DEF Kinds
    <3> QED BY <2>2, <3>1, <3>2 DEF SuccessMeansShown
  <2>3. CASE Kind(run) = "capacity"
    <3>1. observed # {}
      BY <1>1, <2>0, <2>3 DEF IInv, Work, Established
    <3> QED BY <2>3, <3>1 DEF SuccessMeansShown
  <2> QED BY <2>0, <2>1, <2>2, <2>3
<1>2. ASSUME ~(pc = "delete" /\ ~runErr) PROVE SuccessMeansShown
  BY <1>2 DEF SuccessMeansShown
<1>3. IInv => SuccessMeansShown
  BY <1>1, <1>2
<1> QED BY <1>3, InductiveInvariant, PTL

\* No cleanup deletes the objects of a run before its evidence is written, and
\* what the bundle says of itself, complete or not, is true (Collect).
THEOREM EvidenceRecorded == Spec => []EvidenceIsRecorded
<1>1. IInv => EvidenceIsRecorded
  BY DEF IInv, Work, EvidenceFollows
<1> QED BY <1>1, InductiveInvariant, PTL

\* For every quota a complete bundle of the capacity exercise names the stage
\* that keeps the AIJob back, if no step took the cluster longer than the waits
\* of the command allow for (waitCapacityStage).
THEOREM DiagnosisRight == Spec => []DiagnosisIsRight
<1>1. ASSUME IInv, Complete, Kind(run) = "capacity", "slow" \notin excuses
      PROVE  bundle.observed = {IF Fits(run) THEN "at kube-scheduler" ELSE "at Kueue"}
  <2>1. pc \in {"delete", "cleaned"}
    BY <1>1 DEF IInv, Work, TypeOK, EvidenceFollows, Complete
  <2>2. bundle.observed = observed /\ observed # {}
    BY <1>1, <2>1 DEF IInv, Work, EvidenceFollows, ExpectedObserved
  <2> QED BY <1>1, <2>2 DEF IInv, Work, Diagnosed
<1>2. IInv => DiagnosisIsRight
  BY <1>1 DEF DiagnosisIsRight
<1> QED BY <1>2, InductiveInvariant, PTL

-----------------------------------------------------------------------------
(* The AIJob of each run lives as AIJobLifecycle says. *)

\* What the JobSet of the AIJob has ended in.
Ending(r) ==
    IF r \in aijobs /\ "JobSet" \in live[r] /\ progress[r] = "jobSetEnded"
    THEN outcome[r] ELSE "Unset"

\* A JobSet that has ended is not run again while its AIJob exists.
LEMMA EndedStays ==
    ASSUME TypeOK, Chains, NEW r \in Runs, r \in aijobs, progress[r] = "jobSetEnded", ActsOn(r)
    PROVE  progress'[r] = progress[r] /\ outcome'[r] = outcome[r]
<1>1. Chain(r)
  BY DEF Chains
<1>2. "JobSet" \in live[r] /\ garbage[r] = {} /\ live[r] = Kinds
  BY <1>1 DEF Chain, Kinds
<1>3. ~(\E c \in Replicas : ControllerCreates(c, r)) /\ ~WorkerKilled(r)
  BY <1>2 DEF ControllerCreates, Existing, WorkerKilled, Moves
<1>4. CASE Advances(r)
  BY <1>2, <1>4 DEF Advances, KueueQueues, KueueAdmits, JobCreated, PodsCreated, Schedules,
     WorkersEnd, JobEnds, JobSetEnds, Moves, Existing, Kinds
<1>5. CASE Collects(r)
  BY <1>5 DEF Collects
<1> QED BY <1>3, <1>4, <1>5 DEF ActsOn

LEMMA RunFollows ==
    ASSUME IInv, [Next]_vars, NEW r \in Runs
    PROVE  [Lifecycle(r)!Next]_(Lifecycle(r)!lifecycleVars)
<1>0. /\ TypeOK /\ OnPath /\ Untouched /\ Chains
      /\ outcome \in [Runs -> {"Unset", "Completed", "Failed"}] /\ DOMAIN reported = Runs
  BY TypesSplit DEF IInv, Work, ClusterTypes
<1>1. (r \in aijobs => Chain(r)) /\ (r \notin aijobs => reported[r] = "Unset")
  BY <1>0 DEF Chains
<1>2. ASSUME r \in aijobs' <=> r \in aijobs, reported'[r] = reported[r],
             r \in aijobs => ("JobSet" \in live[r] => "JobSet" \in live'[r]),
             Ending(r) # "Unset" => progress'[r] = progress[r] /\ outcome'[r] = outcome[r]
      PROVE  [Lifecycle(r)!Next]_(Lifecycle(r)!lifecycleVars)
  <2>0. Ending(r)' \in {"Completed", "Failed", "Unset"}
    <3>1. TypeOK'
      BY NextTypes DEF IInv, Work
    <3>2. outcome'[r] \in {"Unset", "Completed", "Failed"}
      BY <3>1 DEF TypeOK
    <3> QED BY <3>2 DEF Ending
  <2>1. CASE r \in aijobs /\ "JobSet" \in live'[r] /\ "JobSet" \notin live[r]
    <3>1. Lifecycle(r)!Own
      BY <1>2, <2>0, <2>1 DEF Lifecycle!Own, Ending
    <3> QED BY <3>1 DEF Lifecycle!Next
  <2>2. CASE r \in aijobs /\ "JobSet" \in live[r] /\ Ending(r)' # Ending(r)
    <3>1. Ending(r) = "Unset"
      BY <1>2, <2>2 DEF Ending
    <3>2. Lifecycle(r)!End
      BY <1>2, <2>0, <2>2, <3>1 DEF Lifecycle!End, Ending
    <3> QED BY <3>2 DEF Lifecycle!Next
  <2>3. CASE /\ r \in aijobs => ("JobSet" \in live'[r] <=> "JobSet" \in live[r])
             /\ Ending(r)' = Ending(r)
    <3>1. UNCHANGED Lifecycle(r)!lifecycleVars
      BY <1>2, <2>3 DEF Lifecycle!lifecycleVars, Ending
    <3> QED BY <3>1
  <2> QED BY <1>2, <2>1, <2>2, <2>3 DEF Ending
<1>3. ASSUME NEW x \in Runs, ActsOn(x)
      PROVE  [Lifecycle(r)!Next]_(Lifecycle(r)!lifecycleVars)
  <2>1. UNCHANGED <<aijobs, reported>> /\ (r # x => Spared(r))
    BY <1>0, <1>3, OtherRuns
  <2>2. CASE r # x
    BY <1>2, <2>1, <2>2 DEF Spared
  <2>3. CASE r = x
    <3>1. r \in aijobs => live[r] \subseteq live'[r]
      BY <1>0, <1>3, <2>3, LiveGrows
    <3>2. Ending(r) # "Unset" => progress'[r] = progress[r] /\ outcome'[r] = outcome[r]
      BY <1>0, <1>3, <2>3, EndedStays DEF Ending
    <3> QED BY <1>2, <2>1, <3>1, <3>2
  <2> QED BY <2>2, <2>3
<1>4. ASSUME NEW x \in Runs, NEW c \in Replicas, ControllerReports(c, x)
      PROVE  [Lifecycle(r)!Next]_(Lifecycle(r)!lifecycleVars)
  <2>1. /\ UNCHANGED <<aijobs, live, progress, outcome>> /\ x \in aijobs /\ "JobSet" \in live[x]
        /\ progress[x] = "jobSetEnded" /\ reported[x] # outcome[x]
        /\ reported' = [reported EXCEPT ![x] = outcome[x]]
    BY <1>4 DEF ControllerReports, Reportable, objects
  <2>2. CASE r = x
    <3>1. reported[r] = "Unset" /\ outcome[r] \in {"Completed", "Failed"}
          /\ reported'[r] = outcome[r]
      BY <1>0, <1>1, <2>1, <2>2 DEF Chain
    <3>2. Lifecycle(r)!Report(outcome[r])
      BY <2>1, <2>2, <3>1 DEF Lifecycle!Report
    <3> QED BY <3>1, <3>2 DEF Lifecycle!Next
  <2>3. CASE r # x
    BY <1>0, <1>2, <2>1, <2>3
  <2> QED BY <2>2, <2>3
<1>5. CASE UNCHANGED <<aijobs, live, progress, outcome, reported>>
  BY <1>2, <1>5
<1>6. CASE Works \/ Fails
  <2>0. UNCHANGED <<progress, outcome>>
    BY <1>0, <1>6, LabctlActs
  <2>1. CASE /\ pc = "create" /\ aijobs' = aijobs \cup {run}
             /\ UNCHANGED <<live, garbage, reported>>
    <3>1. CASE r = run
      <4>1. r \notin aijobs /\ live[r] = {}
        BY <1>0, <2>1, <3>1 DEF Untouched, NotYet
      <4>2. Lifecycle(r)!Submit
        BY <1>1, <2>1, <3>1, <4>1 DEF Lifecycle!Submit, Lifecycle!Fresh
      <4> QED BY <4>2 DEF Lifecycle!Next
    <3>2. CASE r # run
      BY <1>2, <2>0, <2>1, <3>2
    <3> QED BY <3>1, <3>2
  <2>2. ASSUME NEW rs, Deletes(rs)
        PROVE  [Lifecycle(r)!Next]_(Lifecycle(r)!lifecycleVars)
    <3>1. CASE r \in rs /\ r \in aijobs
      <4>1. Lifecycle(r)!Delete
        BY <2>2, <3>1 DEF Deletes, Lifecycle!Delete, Lifecycle!Fresh
      <4> QED BY <4>1 DEF Lifecycle!Next
    <3>2. CASE ~(r \in rs /\ r \in aijobs)
      <4>1. /\ (r \in aijobs' <=> r \in aijobs) /\ reported'[r] = reported[r]
            /\ r \in aijobs => live'[r] = live[r]
        BY <1>1, <2>2, <3>2 DEF Deletes
      <4> QED BY <1>2, <2>0, <4>1
    <3> QED BY <3>1, <3>2
  <2> QED BY <1>0, <1>5, <1>6, <2>0, <2>1, <2>2, LabctlActs
<1>7. ASSUME NEW c \in Replicas, Syncs(c) \/ ControllerMoves(c)
      PROVE  UNCHANGED <<aijobs, live, progress, outcome, reported>>
  BY <1>7 DEF Syncs, ControllerMoves, objects
<1>8. Interrupt \/ UNCHANGED vars => UNCHANGED <<aijobs, live, progress, outcome, reported>>
  BY DEF Interrupt, vars, cluster, objects
<1> QED BY <1>3, <1>4, <1>5, <1>6, <1>7, <1>8, ClusterCases DEF Next

\* Every step of a command and its cluster is, for the AIJob of every run, a step
\* of the life AIJobLifecycle describes, or none, with any of the controller's Pods
\* reconciling from what it has cached: an AIJob says Completed or Failed only as
\* its JobSet has ended, and says it until it is deleted (Reconcile,
\* statusFromJobSet).
THEOREM AIJobsLive == Spec => AIJobsFollow
<1>1. Init => \A r \in Runs : Lifecycle(r)!Init
  BY DEF Init, Lifecycle!Init
<1>2. IInv /\ [Next]_vars =>
        [\A r \in Runs : [Lifecycle(r)!Next]_(Lifecycle(r)!lifecycleVars)]_vars
  BY RunFollows
<1> QED BY <1>1, <1>2, InductiveInvariant, PTL DEF Spec, AIJobsFollow

=============================================================================
