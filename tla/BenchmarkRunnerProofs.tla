----------------------- MODULE BenchmarkRunnerProofs -----------------------
(***************************************************************************)
(* Theorems about BenchmarkRunner for every number of repetitions and of   *)
(* Nodes, and any number of disturbances.                                  *)
(*                                                                         *)
(* Invariants are proved in layers, each from those before it: types; what *)
(* is recorded, and what a success means; whose AIJobs exist; which        *)
(* Scheduler runs; what was measured; what the measurement shows.          *)
(***************************************************************************)
EXTENDS BenchmarkRunner, SchedulingProofs

-----------------------------------------------------------------------------
(* The workloads of the runs. *)

LEMMA RunsType ==
    /\ Repetitions \in Nat \ {0}
    /\ Runs \subseteq Nat \ {0}
    /\ \A r \in Runs : r + 1 \in Runs \/ r = 2 * Repetitions
    /\ 1 \in Runs /\ 2 * Repetitions \in Runs
    /\ \A r \in Runs : r <= 2 * Repetitions
BY BenchmarkAssumption DEF Runs

LEMMA WorkloadShape ==
    ASSUME NEW w \in Workloads
    PROVE  /\ w = <<w[1], w[2]>>
           /\ w[1] \in {0} \cup Runs /\ w[2] \in 1..4
           /\ w \in Others => w = <<0, 1>>
           /\ w \notin Others => w[1] \in Runs /\ w \in Own(w[1])
           /\ \A r \in Runs : w \in Own(r) => w \notin Others
<1>1. CASE w \in Others
  <2>1. w = <<0, 1>>
    BY <1>1, BenchmarkAssumption
  <2>2. \A r \in Runs : w \notin Own(r)
    BY <2>1, RunsType DEF Own
  <2> QED BY <1>1, <2>1, <2>2
<1>2. CASE w \notin Others
  <2>1. PICK r \in Runs : w \in Own(r)
    BY <1>2 DEF Workloads
  <2>2. PICK i \in 1..4 : w = <<r, i>>
    BY <2>1 DEF Own
  <2> QED BY <1>2, <2>1, <2>2
<1> QED BY <1>1, <1>2

LEMMA OwnShape ==
    ASSUME NEW r \in Runs
    PROVE  /\ Own(r) \subseteq Workloads
           /\ \A w \in Workloads : w \in Own(r) <=> w[1] = r
           /\ \A i \in 1..4 : <<r, i>> \in Own(r)
           /\ \A w \in Own(r) : w[1] = r /\ w[2] \in 1..4 /\ w = <<r, w[2]>>
<1>1. \A i \in 1..4 : <<r, i>> \in Own(r)
  BY DEF Own
<1>2. Own(r) \subseteq Workloads
  BY DEF Workloads
<1>3. \A w \in Own(r) : w[1] = r /\ w[2] \in 1..4 /\ w = <<r, w[2]>>
  BY DEF Own
<1>4. ASSUME NEW w \in Workloads, w[1] = r PROVE w \in Own(r)
  BY <1>1, <1>4, WorkloadShape
<1> QED BY <1>1, <1>2, <1>3, <1>4

\* The measurement of a run: its Pods are finitely many.
LEMMA MeasuredType ==
    ASSUME NEW r \in Runs
    PROVE  LET measured == CalculateFragmentation(FreeGPUs(PodsOf(Own(r))), 4) IN
           /\ measured \in Fragmentations
           /\ measured.target = 4 /\ measured.usable <= measured.total
<1> DEFINE bound == {v \in Own(r) : stage[v] \in {"running", "succeeded"}}
           record == [w \in bound |-> [name |-> w, gpus |-> GPUs(w), node |-> node[w],
                                       finished |-> stage[w] = "succeeded"]]
           measured == CalculateFragmentation(FreeGPUs(PodsOf(Own(r))), 4)
<1>1. IsFiniteSet(bound)
  <2>1. IsFiniteSet(1..4)
    <3>1. 1 \in Int /\ 4 \in Int
      OBVIOUS
    <3> QED BY <3>1, FS_Interval, Zenon
  <2>2. [i \in 1..4 |-> <<r, i>>] \in Surjection(1..4, Own(r))
    BY DEF Surjection, Own
  <2>3. IsFiniteSet(Own(r))
    BY <2>1, <2>2, FS_Surjection
  <2> QED BY <2>3, FS_Subset
<1>2. PodsOf(Own(r)) = {record[w] : w \in bound}
  BY DEF PodsOf
<1>3. \A w \in bound : record[w].gpus \in Nat
  BY DEF GPUs
<1>4. IsFiniteSet(PodsOf(Own(r))) /\ \A p \in PodsOf(Own(r)) : p.gpus \in Nat
  <2> HIDE DEF bound, record
  <2>1. \A p \in PodsOf(Own(r)) : p.gpus \in Nat
    BY <1>2, <1>3
  <2>2. [w \in bound |-> record[w]] \in Surjection(bound, PodsOf(Own(r)))
    BY <1>2 DEF Surjection
  <2> QED BY <1>1, <2>1, <2>2, FS_Surjection
<1>5. FreeGPUs(PodsOf(Own(r))) \in FreeVectors
  BY <1>4, FreeGPUsType
<1>6. /\ measured.target = 4 /\ measured.total \in Nat /\ measured.usable \in Nat
      /\ measured.usable <= measured.total
  BY <1>5, FragmentationBounds
<1>7. measured = [target |-> measured.target, total |-> measured.total, usable |-> measured.usable]
  BY DEF CalculateFragmentation
<1> HIDE DEF measured
<1>8. measured \in Fragmentations
  BY <1>6, <1>7 DEF Fragmentations
<1> QED BY <1>6, <1>8 DEF measured

-----------------------------------------------------------------------------
(* Types, with the number of workloads that were recorded so far. *)

ClusterType ==
    /\ config \in Configs
    /\ deployment \in [stamp : {0} \cup Runs, generation : Nat, observed : Nat]
    /\ scheduler \in Schedulers \cup {None}
    /\ restarted \in BOOLEAN
    /\ aijobs \subseteq Workloads
    /\ stale \subseteq Workloads
    /\ completed \subseteq Workloads
    /\ recreated \in 0..MaxRecreated
    /\ stage \in [Workloads -> {"none", "suspended", "pending", "unschedulable",
                                "running", "succeeded"}]
    /\ node \in [Workloads -> Nodes \cup {None}]
    /\ boundBy \in [Workloads -> Configs \cup {None}]

Cleaning == {"collect", "evidence", "write", "delete", "gone"}
Restoring == {"restoreConfig", "restoreDeployment", "restoreWait"}

RunnerType ==
    /\ pc \in Steps \cup {"start", "done"} \cup Cleaning \cup Restoring
    /\ run \in Runs
    /\ holder \in 1..3
    /\ result \in Results
    /\ files \in [Runs -> Results \cup {None}]
    /\ runErr \in BOOLEAN /\ expired \in BOOLEAN /\ failed \in BOOLEAN
    /\ restored \in BOOLEAN /\ interrupted \in BOOLEAN
    /\ unwritten \subseteq Runs
    /\ shared \subseteq Runs
    /\ disturbances \in 0..MaxDisturbances

\* Each workload is counted once, as its AIJob is about to be created.
WorkloadsCounted ==
    /\ pc \in {"start", "config", "deployment", "rollout"} => result.workloads = 0
    /\ pc = "hold" => result.workloads < holder
    /\ pc = "holding" => result.workloads <= holder
    /\ pc \in {"measure", "probe"} => result.workloads <= 3

Types == ClusterType /\ RunnerType /\ WorkloadsCounted

LEMMA TypesAreTypes == Types => TypeOK
BY DEF Types, ClusterType, RunnerType, TypeOK, Cleaning, Restoring

LEMMA NewResultType ==
    ASSUME NEW r \in Runs
    PROVE  NewResult(r) \in Results /\ NewResult(r).workloads = 0
BY DEF NewResult, Results, NoFragmentation, Fragmentations, Profile

-----------------------------------------------------------------------------
(* What each side leaves alone. *)

LEMMA ClusterFrame ==
    ASSUME ClusterType, Cluster
    PROVE  /\ UNCHANGED <<pc, run, holder, result, runErr, expired, files, unwritten, failed,
                          restored, config, aijobs, interrupted>>
           /\ deployment'.stamp = deployment.stamp
           /\ deployment'.generation = deployment.generation
<1>1. CASE Rollout
  BY <1>1 DEF Rollout, runner, progress, outcome, faults, jobVars, ClusterType
<1>2. CASE SchedulerStarts
  BY <1>2 DEF SchedulerStarts, runner, progress, outcome, faults, jobVars
<1>3. CASE SchedulerRestarts
  BY <1>3 DEF SchedulerRestarts, progress, outcome, jobVars
<1>4. CASE CacheSyncs
  BY <1>4 DEF CacheSyncs, runner, progress, outcome, faults, profileVars
<1>5. ASSUME NEW w \in Workloads,
             \/ ControllerCreates(w) \/ KueueAdmits(w) \/ Schedules(w)
             \/ ProbeSucceeds(w) \/ ControllerReports(w) \/ GarbageCollect(w)
      PROVE  UNCHANGED <<runner, profileVars, aijobs>>
  BY <1>5 DEF ControllerCreates, KueueAdmits, Schedules, ProbeSucceeds, ControllerReports,
              GarbageCollect, jobVars
<1>6. ASSUME UNCHANGED <<runner, profileVars, aijobs>>
      PROVE  /\ UNCHANGED <<pc, run, holder, result, runErr, expired, files, unwritten, failed,
                            restored, config, aijobs, interrupted>>
             /\ deployment'.stamp = deployment.stamp
             /\ deployment'.generation = deployment.generation
  BY <1>6 DEF runner, profileVars, progress, outcome, faults
<1> QED BY <1>1, <1>2, <1>3, <1>4, <1>5, <1>6 DEF Cluster

-----------------------------------------------------------------------------
(* The cluster keeps the types. *)

\* A step that moves one workload from a stage to another.
LEMMA StageMoves ==
    ASSUME ClusterType, NEW w \in Workloads, UNCHANGED profileVars,
           aijobs' = aijobs, stale' = stale, completed' \subseteq Workloads,
           recreated' \in 0..MaxRecreated,
           NEW s \in {"none", "suspended", "pending", "unschedulable", "running", "succeeded"},
           stage' = [stage EXCEPT ![w] = s],
           NEW n \in Nodes \cup {None}, node' = node \/ node' = [node EXCEPT ![w] = n],
           NEW c \in Configs \cup {None}, boundBy' = boundBy \/ boundBy' = [boundBy EXCEPT ![w] = c]
    PROVE  ClusterType'
BY DEF ClusterType, profileVars

LEMMA ClusterKeepsClusterType ==
    ASSUME ClusterType, Cluster
    PROVE  ClusterType'
<1>1. CASE Rollout
  BY <1>1 DEF Rollout, jobVars, podVars, ClusterType
<1>2. CASE SchedulerStarts
  BY <1>2 DEF SchedulerStarts, jobVars, podVars, ClusterType, Schedulers
<1>3. CASE SchedulerRestarts
  BY <1>3 DEF SchedulerRestarts, jobVars, podVars, ClusterType, Schedulers
<1>4. CASE CacheSyncs
  BY <1>4 DEF CacheSyncs, profileVars, podVars, ClusterType
<1>5. ASSUME NEW w \in Workloads, ControllerCreates(w) PROVE ClusterType'
  <2>1. recreated' \in 0..MaxRecreated
    BY <1>5, BenchmarkAssumption DEF ControllerCreates, ClusterType
  <2>2. None \in Nodes \cup {None} /\ None \in Configs \cup {None}
    OBVIOUS
  <2> QED BY <1>5, <2>1, <2>2, StageMoves DEF ControllerCreates, ClusterType
<1>6. ASSUME NEW w \in Workloads, KueueAdmits(w) \/ ProbeSucceeds(w) PROVE ClusterType'
  <2>1. None \in Nodes \cup {None} /\ None \in Configs \cup {None}
    OBVIOUS
  <2> QED BY <1>6, <2>1, StageMoves DEF KueueAdmits, ProbeSucceeds, jobVars, ClusterType
<1>7. ASSUME NEW w \in Workloads, Schedules(w) PROVE ClusterType'
  <2> DEFINE pod == [gpus |-> GPUs(w), preference |-> "", required |-> ""]
             candidates == Candidates(StrategyOf(scheduler.config), pod, FreeNow)
  <2>1. candidates \subseteq Nodes /\ scheduler.config \in Configs
    BY <1>7 DEF Candidates, Feasible, Schedules, ClusterType, Schedulers
  <2>2. UNCHANGED <<profileVars, aijobs, stale, completed, recreated>>
    BY <1>7 DEF Schedules, jobVars
  <2>3. \/ stage' = [stage EXCEPT ![w] = "unschedulable"] /\ node' = node /\ boundBy' = boundBy
        \/ /\ stage' = [stage EXCEPT ![w] = "running"]
           /\ \E n \in candidates : node' = [node EXCEPT ![w] = n]
           /\ boundBy' = [boundBy EXCEPT ![w] = scheduler.config]
    BY <1>7 DEF Schedules
  <2> HIDE DEF candidates
  <2>4. None \in Nodes \cup {None} /\ None \in Configs \cup {None}
    OBVIOUS
  <2> QED BY <2>1, <2>2, <2>3, <2>4, StageMoves DEF ClusterType
<1>8. ASSUME NEW w \in Workloads, ControllerReports(w) PROVE ClusterType'
  BY <1>8 DEF ControllerReports, profileVars, podVars, ClusterType
<1>9. ASSUME NEW w \in Workloads, GarbageCollect(w) PROVE ClusterType'
  <2>1. None \in Nodes \cup {None} /\ None \in Configs \cup {None}
    OBVIOUS
  <2> QED BY <1>9, <2>1, StageMoves DEF GarbageCollect, jobVars, ClusterType
<1> QED BY <1>1, <1>2, <1>3, <1>4, <1>5, <1>6, <1>7, <1>8, <1>9 DEF Cluster

LEMMA ClusterKeepsTypes ==
    ASSUME Types, Cluster
    PROVE  Types'
<1>1. disturbances' \in 0..MaxDisturbances
  <2>1. \/ disturbances' = disturbances
        \/ disturbances < MaxDisturbances /\ disturbances' = disturbances + 1
    BY DEF Cluster, Rollout, SchedulerStarts, SchedulerRestarts, ControllerCreates, CacheSyncs,
        KueueAdmits, Schedules, ProbeSucceeds, ControllerReports, GarbageCollect, runner, faults
  <2> QED BY <2>1, BenchmarkAssumption DEF Types, RunnerType
<1>2. shared' \subseteq Runs
  BY DEF Types, RunnerType, Cluster, Rollout, SchedulerStarts, SchedulerRestarts,
      ControllerCreates, CacheSyncs, KueueAdmits, Schedules, ProbeSucceeds, ControllerReports,
      GarbageCollect
<1>3. RunnerType'
  BY <1>1, <1>2, ClusterFrame DEF Types, RunnerType
<1>4. WorkloadsCounted'
  BY ClusterFrame DEF Types, WorkloadsCounted
<1> QED BY <1>3, <1>4, ClusterKeepsClusterType DEF Types

-----------------------------------------------------------------------------
(* The runner keeps the types. *)

\* What a step of the runner may do to the cluster.
LEMMA EffectTypes ==
    ASSUME Types, Effect
    PROVE  /\ config' \in Configs
           /\ deployment' \in [stamp : {0} \cup Runs, generation : Nat, observed : Nat]
           /\ aijobs' \subseteq Workloads /\ stale' \subseteq Workloads
           /\ completed' \subseteq Workloads
           /\ pc \in Steps
<1>1. run \in Runs /\ holder \in 1..3 /\ Own(run) \subseteq Workloads
  BY OwnShape DEF Types, RunnerType
<1>2. CASE pc = "config"
  <2>1. Profile(run) \in Configs
    BY DEF Profile, Configs
  <2> QED BY <1>2, <2>1 DEF Effect, Types, ClusterType, Steps
<1>3. CASE pc = "deployment"
  <2>1. \/ deployment' = deployment
        \/ deployment' = [deployment EXCEPT !.stamp = run, !.generation = @ + 1]
    BY <1>3 DEF Effect, Annotate
  <2>2. deployment' \in [stamp : {0} \cup Runs, generation : Nat, observed : Nat]
    <3>1. /\ deployment \in [stamp : {0} \cup Runs, generation : Nat, observed : Nat]
          /\ run \in {0} \cup Runs
      BY <1>1 DEF Types, ClusterType
    <3>2. deployment.generation + 1 \in Nat
      BY <3>1
    <3> QED BY <2>1, <3>1, <3>2
  <2> QED BY <1>3, <2>2 DEF Effect, Types, ClusterType, Steps
<1>4. CASE pc \in {"hold", "probe"}
  <2>1. /\ aijobs' = aijobs \cup {<<run, IF pc = "hold" THEN holder ELSE Probe>>}
        /\ UNCHANGED <<config, deployment, stale, completed>>
    BY <1>4 DEF Effect, Create
  <2>2. <<run, IF pc = "hold" THEN holder ELSE Probe>> \in Workloads
    <3>1. (IF pc = "hold" THEN holder ELSE Probe) \in 1..4
      BY <1>1 DEF Probe
    <3> QED BY <1>1, <3>1, OwnShape
  <2> QED BY <1>4, <2>1, <2>2 DEF Types, ClusterType, Steps
<1>5. CASE pc = "release"
  BY <1>5 DEF Effect, Delete, Types, ClusterType, Steps
<1> QED BY <1>2, <1>3, <1>4, <1>5 DEF Effect

LEMMA WithDefinitionType ==
    ASSUME Types, pc \in Steps
    PROVE  /\ WithDefinition \in Results
           /\ \A f \in DOMAIN result : f # "workloads" => WithDefinition[f] = result[f]
           /\ WithDefinition.workloads
                 = IF pc \in {"hold", "probe"} THEN result.workloads + 1 ELSE result.workloads
<1>1. result \in Results /\ holder \in 1..3
  BY DEF Types, RunnerType
<1>2. result.workloads \in 0..4
  BY <1>1 DEF Results
<1>3. pc \in {"hold", "probe"} => result.workloads <= 3
  BY <1>1, <1>2 DEF Types, WorkloadsCounted
<1>4. (IF pc \in {"hold", "probe"} THEN result.workloads + 1 ELSE result.workloads) \in 0..4
  BY <1>2, <1>3
<1> QED BY <1>1, <1>4 DEF WithDefinition, Results

LEMMA WriteCallKeepsTypes ==
    ASSUME Types, WriteCall
    PROVE  Types'
<1>1. /\ config' \in Configs
      /\ deployment' \in [stamp : {0} \cup Runs, generation : Nat, observed : Nat]
      /\ aijobs' \subseteq Workloads /\ stale' \subseteq Workloads
      /\ completed' \subseteq Workloads
      /\ pc \in {"config", "deployment", "hold", "probe", "release"} /\ pc \in Steps
  BY EffectTypes DEF WriteCall, Effect
<1>2. UNCHANGED <<podVars, faults, scheduler, restarted, recreated, run, holder, runErr,
                  expired, files, unwritten, failed, restored, shared>>
  BY DEF WriteCall
<1>3. ClusterType'
  BY <1>1, <1>2 DEF Types, ClusterType, podVars
<1>4. result' = CASE pc \in {"hold", "probe"} -> WithDefinition
                  [] pc = "release"           -> [result EXCEPT !.recovery = "released"]
                  [] OTHER                    -> result
  BY DEF WriteCall
<1>5. result' \in Results
  <2>1. result \in Results
    BY DEF Types, RunnerType
  <2>2. [result EXCEPT !.recovery = "released"] \in Results
    BY <2>1 DEF Results
  <2> QED BY <1>1, <1>4, <2>1, <2>2, WithDefinitionType
<1>6. pc' = CASE pc = "config"     -> "deployment"
              [] pc = "deployment" -> "rollout"
              [] pc = "hold"       -> "holding"
              [] pc = "probe"      -> IF ProbeShouldFit(Profile(run)) THEN "probing"
                                                                      ELSE "blocked"
              [] pc = "release"    -> "probing"
  BY DEF WriteCall
<1>7. pc' \in Steps
  BY <1>1, <1>6 DEF Steps
<1>8. RunnerType'
  BY <1>2, <1>5, <1>7 DEF Types, RunnerType, faults
<1>9. WorkloadsCounted'
  <2>1. CASE pc \in {"config", "deployment"}
    BY <1>4, <1>6, <2>1 DEF Types, WorkloadsCounted
  <2>2. CASE pc = "hold"
    <3>1. pc' = "holding" /\ result'.workloads = result.workloads + 1
      BY <1>1, <1>4, <1>6, <2>2, WithDefinitionType
    <3>2. result.workloads < holder /\ holder \in 1..3 /\ result.workloads \in 0..4
      BY <2>2 DEF Types, WorkloadsCounted, RunnerType, Results
    <3>3. result'.workloads <= holder'
      BY <1>2, <3>1, <3>2
    <3> QED BY <3>1, <3>3 DEF WorkloadsCounted
  <2>3. CASE pc \in {"probe", "release"}
    BY <1>6, <2>3 DEF WorkloadsCounted
  <2> QED BY <1>1, <2>1, <2>2, <2>3
<1> QED BY <1>3, <1>8, <1>9 DEF Types

\* A wait that succeeds.
LEMMA ObservedKeepsTypes ==
    ASSUME Types, NEW next \in Steps \cup {"collect"}, NEW new \in Results,
           Observed(next, new), holder' \in 1..3,
           /\ next \in {"config", "deployment", "rollout"} => new.workloads = 0
           /\ next = "hold" => new.workloads < holder'
           /\ next = "holding" => new.workloads <= holder'
           /\ next \in {"measure", "probe"} => new.workloads <= 3
    PROVE  Types'
<1>1. ClusterType' /\ UNCHANGED <<faults, run, runErr, expired, files, unwritten, failed, restored,
                                  shared>>
  BY DEF Observed, Types, ClusterType, cluster, profileVars, jobVars, podVars
<1>2. RunnerType'
  BY <1>1 DEF Observed, Types, RunnerType, faults, Cleaning
<1>3. WorkloadsCounted'
  BY DEF Observed, WorkloadsCounted, Steps
<1> QED BY <1>1, <1>2, <1>3 DEF Types

LEMMA AwaitKeepsTypes ==
    ASSUME Types,
           \/ AwaitRollout \/ AwaitHolder \/ Measure \/ AwaitUnschedulable \/ AwaitProbe
           \/ AwaitCompleted
    PROVE  Types'
<1>1. result \in Results /\ run \in Runs /\ holder \in 1..3 /\ result.workloads \in 0..4
  BY DEF Types, RunnerType, Results
<1>2. CASE AwaitRollout
  <2>1. result.workloads = 0 /\ holder' = 1
    BY <1>2 DEF AwaitRollout, Types, WorkloadsCounted
  <2> QED BY <1>1, <1>2, <2>1, ObservedKeepsTypes DEF AwaitRollout, Steps
<1>3. CASE AwaitHolder
  <2>1. result.workloads <= holder
    BY <1>3 DEF AwaitHolder, Types, WorkloadsCounted
  <2>2. \/ holder < 3 /\ holder' = holder + 1 /\ Observed("hold", result)
        \/ ~(holder < 3) /\ holder' = holder /\ Observed("measure", result)
    BY <1>3 DEF AwaitHolder
  <2> QED BY <1>1, <2>1, <2>2, ObservedKeepsTypes DEF Steps
<1>4. CASE Measure
  <2> DEFINE measured == CalculateFragmentation(FreeGPUs(PodsOf(Own(run))), 4)
             placed == {boundBy[w] : w \in Own(run) \ {<<run, Probe>>}}
             new == [result EXCEPT !.fragmentation = measured, !.placedBy = placed]
  <2>1. measured \in Fragmentations
    BY <1>1, MeasuredType
  <2>2. placed \subseteq Configs \cup {None}
    <3>1. \A w \in Own(run) : boundBy[w] \in Configs \cup {None}
      BY <1>1, OwnShape DEF Types, ClusterType
    <3> QED BY <3>1
  <2>3. result.workloads <= 3 /\ holder' = holder /\ Observed("probe", new)
    BY <1>4 DEF Measure, Types, WorkloadsCounted
  <2> HIDE DEF measured, placed
  <2>4. new \in Results /\ new.workloads = result.workloads
    BY <1>1, <2>1, <2>2 DEF Results
  <2> HIDE DEF new
  <2> QED BY <1>1, <2>3, <2>4, ObservedKeepsTypes DEF Steps
<1>5. CASE AwaitUnschedulable
  <2>1. [result EXCEPT !.recovery = "attempted"] \in Results
    BY <1>1 DEF Results
  <2> QED BY <1>1, <1>5, <2>1, ObservedKeepsTypes DEF AwaitUnschedulable, Steps
<1>6. CASE AwaitProbe
  BY <1>1, <1>6, ObservedKeepsTypes DEF AwaitProbe, Steps
<1>7. CASE AwaitCompleted
  <2> DEFINE new == [result EXCEPT !.probe = "completed",
                       !.recovery = IF @ = "released" THEN "recovered" ELSE @]
  <2>1. new \in Results
    BY <1>1 DEF Results
  <2>2. Observed("collect", new) /\ holder' = holder
    BY <1>7 DEF AwaitCompleted
  <2> HIDE DEF new
  <2> QED BY <1>1, <2>1, <2>2, ObservedKeepsTypes
<1> QED BY <1>2, <1>3, <1>4, <1>5, <1>6, <1>7

\* A step of the runner that leaves what is recorded so far to a later one.
LEMMA StepFailsKeepsTypes ==
    ASSUME Types, pc \in Steps, Abort,
           config' \in Configs,
           deployment' \in [stamp : {0} \cup Runs, generation : Nat, observed : Nat],
           aijobs' \subseteq Workloads, stale' \subseteq Workloads, completed' \subseteq Workloads,
           disturbances' \in 0..MaxDisturbances
    PROVE  Types'
<1>1. UNCHANGED <<podVars, scheduler, restarted, recreated, run, holder, expired, files,
                  unwritten, failed, restored, interrupted, shared>>
  BY DEF Abort
<1>2. ClusterType'
  BY <1>1 DEF Types, ClusterType, podVars
<1>3. result' \in Results
  BY WithDefinitionType DEF Abort, Results
<1>4. pc' = "collect" /\ runErr' = TRUE
  BY DEF Abort
<1>5. RunnerType'
  BY <1>1, <1>3, <1>4 DEF Types, RunnerType, Cleaning
<1>6. WorkloadsCounted'
  BY <1>4 DEF WorkloadsCounted
<1> QED BY <1>2, <1>5, <1>6 DEF Types

LEMMA DisturbedType ==
    ASSUME Types, \/ disturbances' = disturbances
                  \/ disturbances < MaxDisturbances /\ disturbances' = disturbances + 1
    PROVE  disturbances' \in 0..MaxDisturbances
BY BenchmarkAssumption DEF Types, RunnerType

LEMMA FailuresKeepTypes ==
    ASSUME Types, StepFails \/ ResponseLost
    PROVE  Types'
<1>1. disturbances' \in 0..MaxDisturbances /\ Abort
  BY DisturbedType DEF StepFails, ResponseLost
<1>2. CASE StepFails
  BY <1>1, <1>2, StepFailsKeepsTypes DEF StepFails, Types, ClusterType
<1>3. CASE ResponseLost
  BY <1>1, <1>3, EffectTypes, StepFailsKeepsTypes DEF ResponseLost
<1> QED BY <1>2, <1>3

\* The next run, or the restore, begins with a result and flags of its own.
LEMMA EndRunTypes ==
    ASSUME Types, NEW err \in BOOLEAN, EndRun(err), ClusterType',
           disturbances' \in 0..MaxDisturbances
    PROVE  Types'
<1>1. /\ failed' = (failed \/ err) /\ expired' = FALSE /\ runErr' = FALSE /\ holder' = 1
      /\ UNCHANGED <<files, unwritten, restored, interrupted>>
  BY DEF EndRun
<1>2. /\ failed' \in BOOLEAN /\ expired' \in BOOLEAN /\ runErr' \in BOOLEAN
      /\ restored' \in BOOLEAN /\ interrupted' \in BOOLEAN
  BY <1>1 DEF Types, RunnerType
<1>9. /\ holder' \in 1..3 /\ files' \in [Runs -> Results \cup {None}] /\ unwritten' \subseteq Runs
  BY <1>1 DEF Types, RunnerType
<1>3. CASE run + 1 \in Runs
  <2>1. /\ run' = run + 1 /\ pc' = "config" /\ result' = NewResult(run + 1)
        /\ shared' = shared \/ shared' = shared \cup {run + 1}
    BY <1>3 DEF EndRun
  <2>2. result' \in Results /\ result'.workloads = 0
    BY <1>3, <2>1, NewResultType
  <2>3. RunnerType'
    <3>1. run' \in Runs /\ shared' \subseteq Runs /\ pc' \in Steps
      BY <1>3, <2>1 DEF Types, RunnerType, Steps
    <3> QED BY <1>2, <1>9, <2>2, <3>1 DEF RunnerType
  <2>4. WorkloadsCounted'
    BY <2>1, <2>2 DEF WorkloadsCounted
  <2> QED BY <2>3, <2>4 DEF Types
<1>4. CASE run + 1 \notin Runs
  <2>1. pc' = "restoreConfig" /\ UNCHANGED <<run, result, shared>>
    BY <1>4 DEF EndRun
  <2>2. RunnerType'
    <3>1. run' \in Runs /\ shared' \subseteq Runs /\ pc' \in Restoring /\ result' \in Results
      BY <2>1 DEF Types, RunnerType, Restoring
    <3> QED BY <1>2, <1>9, <3>1 DEF RunnerType
  <2>3. WorkloadsCounted'
    BY <2>1 DEF WorkloadsCounted
  <2> QED BY <2>2, <2>3 DEF Types
<1> QED BY <1>3, <1>4

LEMMA CleanupKeepsTypes ==
    ASSUME Types,
           CleanupExpires \/ Collect \/ WriteResult \/ CleanupDeletes \/ CleanupFails \/ CleanupAwaits
    PROVE  Types'
<1>0. /\ result \in Results /\ run \in Runs /\ Own(run) \subseteq Workloads
      /\ runErr \in BOOLEAN
  BY OwnShape DEF Types, RunnerType
<1>1. CASE CleanupExpires
  <2>1. disturbances' \in 0..MaxDisturbances
    BY <1>1, DisturbedType DEF CleanupExpires
  <2> QED BY <1>1, <2>1
      DEF CleanupExpires, Types, ClusterType, RunnerType, WorkloadsCounted,
          cluster, profileVars, jobVars, podVars, progress
<1>2. CASE Collect
  <2>1. disturbances' \in 0..MaxDisturbances
    BY <1>2, DisturbedType DEF Collect, CallFails
  <2>2. /\ pc' \in {"evidence", "write"}
        /\ UNCHANGED <<cluster, run, holder, runErr, expired, files, unwritten, failed,
                       restored, interrupted, shared>>
    BY <1>2 DEF Collect
  <2>3. \E b \in BOOLEAN : result' = [result EXCEPT !.missing = b]
    BY <1>0, <1>2 DEF Collect, Results
  <2>4. result' \in Results
    BY <1>0, <2>3 DEF Results
  <2> QED BY <2>1, <2>2, <2>4
      DEF Types, ClusterType, RunnerType, WorkloadsCounted, Cleaning,
          cluster, profileVars, jobVars, podVars
<1>3. CASE WriteResult
  <2>1. disturbances' \in 0..MaxDisturbances
    BY <1>3, DisturbedType DEF WriteResult
  <2>2. /\ pc' = "delete" /\ result' = [result EXCEPT !.complete = Completed]
        /\ UNCHANGED <<cluster, run, holder, expired, failed, restored, interrupted, shared>>
        /\ files' = [files EXCEPT ![run] = result'] \/ files' = files
        /\ runErr' = runErr \/ runErr' = TRUE
        /\ unwritten' = unwritten \/ unwritten' = unwritten \cup {run}
    BY <1>3 DEF WriteResult
  <2>3. Completed \in BOOLEAN
    BY DEF Completed
  <2>4. result' \in Results
    BY <1>0, <2>2, <2>3 DEF Results
  <2>5. files' \in [Runs -> Results \cup {None}]
    BY <1>0, <2>2, <2>4 DEF Types, RunnerType
  <2> QED BY <1>0, <2>1, <2>2, <2>4, <2>5
      DEF Types, ClusterType, RunnerType, WorkloadsCounted, Cleaning,
          cluster, profileVars, jobVars, podVars
<1>4. CASE CleanupDeletes
  <2>1. ClusterType'
    BY <1>0, <1>4 DEF CleanupDeletes, Delete, RunScoped, Types, ClusterType, profileVars, podVars
  <2> QED BY <1>4, <2>1
      DEF CleanupDeletes, Types, RunnerType, WorkloadsCounted, Cleaning, outcome, faults
<1>5. CASE CleanupFails
  <2>1. ClusterType'
    BY <1>0, <1>5 DEF CleanupFails, Delete, RunScoped, Types, ClusterType, profileVars, podVars
  <2>2. disturbances' \in 0..MaxDisturbances /\ EndRun(TRUE)
    BY <1>5, DisturbedType DEF CleanupFails, CallFails
  <2> QED BY <2>1, <2>2, EndRunTypes
<1>6. CASE CleanupAwaits
  <2>1. ClusterType'
    BY <1>6 DEF CleanupAwaits, Types, ClusterType, cluster, profileVars, jobVars, podVars
  <2>2. disturbances' \in 0..MaxDisturbances /\ (EndRun(TRUE) \/ EndRun(runErr))
    BY <1>6, DisturbedType DEF CleanupAwaits, CallFails
  <2> QED BY <1>0, <2>1, <2>2, EndRunTypes
<1> QED BY <1>1, <1>2, <1>3, <1>4, <1>5, <1>6

LEMMA EndsKeepTypes ==
    ASSUME Types, Start \/ Restore \/ RestoreFails \/ Interrupt
    PROVE  Types'
<1>1. disturbances' \in 0..MaxDisturbances
  <2>1. Start \/ RestoreFails \/ Interrupt => disturbances' \in 0..MaxDisturbances
    BY DisturbedType DEF Start, RestoreFails, Interrupt
  <2>2. Restore => disturbances' \in 0..MaxDisturbances
    BY DisturbedType DEF Restore, faults
  <2> QED BY <2>1, <2>2
<1>2. CASE Start
  <2>1. pc' \in {"config", "done"} /\ failed' \in BOOLEAN
    BY <1>2 DEF Start, Types, RunnerType
  <2>2. pc = "start" /\ result.workloads = 0 /\ result' = result
    BY <1>2 DEF Start, Types, WorkloadsCounted
  <2> QED BY <1>1, <1>2, <2>1, <2>2
      DEF Start, Types, ClusterType, RunnerType, WorkloadsCounted, Steps,
          cluster, profileVars, jobVars, podVars
<1>3. CASE Restore \/ RestoreFails
  <2>1. /\ config' \in Configs
        /\ deployment' \in [stamp : {0} \cup Runs, generation : Nat, observed : Nat]
    <3>1. \/ UNCHANGED <<config, deployment>>
          \/ config' = "initial" /\ UNCHANGED deployment
          \/ deployment' = [deployment EXCEPT !.stamp = 0, !.generation = @ + 1] /\ UNCHANGED config
      BY <1>3 DEF Restore, RestoreFails, RestoreEffect, Annotate
    <3>2. /\ deployment \in [stamp : {0} \cup Runs, generation : Nat, observed : Nat]
          /\ deployment.generation + 1 \in Nat /\ config \in Configs
      BY DEF Types, ClusterType
    <3> QED BY <3>1, <3>2 DEF Configs
  <2>2. /\ UNCHANGED <<run, holder, result, runErr, expired, files, unwritten, interrupted>>
        /\ UNCHANGED <<jobVars, podVars, scheduler, restarted, shared>>
        /\ pc' \in {"restoreDeployment", "restoreWait", "done"}
        /\ failed' \in BOOLEAN /\ restored' \in BOOLEAN
    BY <1>3 DEF Restore, RestoreFails, RestoreCluster, faults, Types, RunnerType
  <2>3. ClusterType'
    BY <2>1, <2>2 DEF Types, ClusterType, jobVars, podVars
  <2>4. RunnerType'
    BY <1>1, <2>2 DEF Types, RunnerType, Restoring
  <2> QED BY <2>2, <2>3, <2>4 DEF Types, WorkloadsCounted
<1>4. CASE Interrupt
  BY <1>1, <1>4
  DEF Interrupt, Types, ClusterType, RunnerType, WorkloadsCounted,
      cluster, profileVars, jobVars, podVars, progress, outcome
<1> QED BY <1>2, <1>3, <1>4

LEMMA InitTypes == Init => Types
<1> SUFFICES ASSUME Init PROVE Types
  OBVIOUS
<1>1. ClusterType
  <2>1. Others \subseteq Workloads
    BY DEF Workloads
  <2>2. /\ scheduler \in Schedulers /\ config \in Configs
        /\ deployment \in [stamp : {0} \cup Runs, generation : Nat, observed : Nat]
    BY DEF Init, Schedulers, Configs
  <2>3. recreated \in 0..MaxRecreated
    BY BenchmarkAssumption DEF Init
  <2> QED BY <2>1, <2>2, <2>3 DEF Init, ClusterType
<1>2. RunnerType
  <2>1. result \in Results /\ run \in Runs /\ shared \subseteq Runs
    BY RunsType, NewResultType DEF Init
  <2>2. disturbances \in 0..MaxDisturbances
    BY BenchmarkAssumption DEF Init
  <2>3. /\ runErr \in BOOLEAN /\ expired \in BOOLEAN /\ failed \in BOOLEAN
        /\ restored \in BOOLEAN /\ interrupted \in BOOLEAN
    BY DEF Init
  <2>4. holder \in 1..3 /\ pc = "start" /\ unwritten \subseteq Runs
    BY DEF Init
  <2>5. files \in [Runs -> Results \cup {None}]
    BY DEF Init
  <2> QED BY <2>1, <2>2, <2>3, <2>4, <2>5 DEF RunnerType
<1>3. WorkloadsCounted
  BY RunsType, NewResultType DEF Init, WorkloadsCounted
<1> QED BY <1>1, <1>2, <1>3 DEF Types

LEMMA StutterKeepsTypes == Types /\ UNCHANGED vars => Types'
BY DEF Types, ClusterType, RunnerType, WorkloadsCounted, vars, cluster, runner, profileVars,
       jobVars, podVars, progress, outcome, faults

LEMMA AlwaysTypes == Spec => []Types
<1>1. Types /\ [Next]_vars => Types'
  BY StutterKeepsTypes, ClusterKeepsTypes, WriteCallKeepsTypes, AwaitKeepsTypes,
     FailuresKeepTypes, CleanupKeepsTypes, EndsKeepTypes
  DEF Next, Runner
<1> QED BY <1>1, InitTypes, PTL DEF Spec

\* The values the state of the cluster and of labctl takes.
THEOREM TypeCorrect == Spec => []TypeOK
BY AlwaysTypes, TypesAreTypes, PTL

-----------------------------------------------------------------------------
(* What is recorded, and what a success means. *)

\* No file of a past run is missing without a trace, an error that was met is
\* in the exit status or in the error of the run that is being cleaned up, and
\* the restore follows the last run.
Recorded ==
    /\ EveryRunIsRecorded
    /\ \A r \in unwritten : failed \/ (r = run /\ runErr /\ pc \in {"delete", "gone"})
    /\ pc \in Restoring => run = 2 * Repetitions
    /\ pc \in {"restoreDeployment", "restoreWait"} => config = "initial"
    /\ Ended /\ ~failed => restored /\ config = "initial" /\ run = 2 * Repetitions
                           /\ \A r \in Runs : files[r] # None

\* As long as no error is in the exit status, the AIJobs of the runs before are
\* deleted, and those of the last one before the restore.
NothingLeftBehind ==
    ~failed => /\ aijobs \subseteq Others \cup Own(run)
               /\ pc \in Restoring \cup {"done"} => aijobs \subseteq Others

LEMMA RecordedFrame ==
    ASSUME Recorded, NothingLeftBehind,
           UNCHANGED <<files, unwritten, failed, run, restored, pc, runErr>>,
           UNCHANGED <<config, aijobs>>
    PROVE  Recorded' /\ NothingLeftBehind'
BY DEF Recorded, NothingLeftBehind, EveryRunIsRecorded, Ended

\* Up to the moment its result is written, a step of a run is not accounted for.
LEMMA RunningKeepsRecorded ==
    ASSUME Recorded, Types,
           pc \in Steps \cup {"start", "collect", "evidence"},
           pc' \in Steps \cup {"collect", "evidence", "write"},
           UNCHANGED <<files, unwritten, failed, run, restored>>
    PROVE  Recorded'
<1>1. pc \notin {"delete", "gone", "done"} \cup Restoring
  BY DEF Steps, Restoring
<1>2. pc' \notin {"delete", "gone", "done"} \cup Restoring
  BY DEF Steps, Restoring
<1>3. EveryRunIsRecorded'
  BY <1>2 DEF Recorded, EveryRunIsRecorded, Restoring
<1> QED BY <1>1, <1>2, <1>3 DEF Recorded, Ended, Restoring

\* The run that ends is accounted for, whether or not it has a file.
LEMMA EndRunKeepsRecorded ==
    ASSUME Recorded, Types, NEW err \in BOOLEAN, EndRun(err), pc \in {"delete", "gone"},
           runErr => err
    PROVE  Recorded'
<1>1. /\ failed' = (failed \/ err)
      /\ UNCHANGED <<files, unwritten, restored>>
      /\ \/ run + 1 \in Runs /\ run' = run + 1 /\ pc' = "config"
         \/ run + 1 \notin Runs /\ run' = run /\ pc' = "restoreConfig"
  BY DEF EndRun
<1>2. run \in Runs /\ run \in Nat
  BY RunsType DEF Types, RunnerType
<1>3. \A r \in Runs : r <= run /\ files[r] = None => r \in unwritten
  BY <1>2, RunsType DEF Recorded, EveryRunIsRecorded
<1>4. \A r \in Runs : r < run' \/ r = run => r <= run
  BY <1>1, <1>2, RunsType
<1>5. EveryRunIsRecorded'
  <2>1. \A r \in Runs : r < run' \/ (r = run' /\ pc' = "restoreConfig") => r <= run
    BY <1>1, <1>2, RunsType
  <2> QED BY <1>1, <1>3, <2>1 DEF EveryRunIsRecorded
<1>6. \A r \in unwritten : failed'
  BY <1>1 DEF Recorded
<1>7. pc' \in Restoring => run' = 2 * Repetitions
  BY <1>1, <1>2, RunsType DEF Restoring
<1> QED BY <1>1, <1>5, <1>6, <1>7 DEF Recorded, Ended

LEMMA RecordedStep ==
    ASSUME Recorded, NothingLeftBehind, Types, [Next]_vars
    PROVE  Recorded'
<1>0. run \in Runs /\ files \in [Runs -> Results \cup {None}] /\ failed \in BOOLEAN
      /\ runErr \in BOOLEAN
  BY DEF Types, RunnerType
<1>1. CASE Cluster \/ Interrupt \/ CleanupExpires \/ UNCHANGED vars
  <2>1. UNCHANGED <<files, unwritten, failed, run, restored, pc, runErr, config, aijobs>>
    BY <1>1, ClusterFrame
    DEF Types, Interrupt, CleanupExpires, vars, runner, cluster, profileVars, jobVars, progress,
        outcome
  <2> QED BY <2>1, RecordedFrame
<1>2. CASE \/ WriteCall \/ AwaitRollout \/ AwaitHolder \/ Measure \/ AwaitUnschedulable
           \/ AwaitProbe \/ AwaitCompleted \/ StepFails \/ ResponseLost \/ Collect
  <2>1. UNCHANGED <<files, unwritten, failed, run, restored>>
    BY <1>2 DEF WriteCall, AwaitRollout, AwaitHolder, Measure, AwaitUnschedulable, AwaitProbe,
        AwaitCompleted, Observed, StepFails, ResponseLost, Abort, Collect
  <2>2. pc \in Steps \cup {"collect", "evidence"}
    BY <1>2 DEF WriteCall, Effect, AwaitRollout, AwaitHolder, Measure, AwaitUnschedulable,
        AwaitProbe, AwaitCompleted, StepFails, ResponseLost, Collect, Steps
  <2>3. pc' \in Steps \cup {"collect", "evidence", "write"}
    BY <1>2 DEF WriteCall, Effect, AwaitRollout, AwaitHolder, Measure, AwaitUnschedulable,
        AwaitProbe, AwaitCompleted, Observed, StepFails, ResponseLost, Abort, Collect, Steps
  <2> QED BY <2>1, <2>2, <2>3, RunningKeepsRecorded
<1>3. CASE WriteResult
  <2>1. /\ pc = "write" /\ pc' = "delete"
        /\ UNCHANGED <<run, failed, restored, config>>
        /\ result' = [result EXCEPT !.complete = Completed]
        /\ \/ files' = [files EXCEPT ![run] = result'] /\ UNCHANGED <<runErr, unwritten>>
           \/ runErr' = TRUE /\ unwritten' = unwritten \cup {run} /\ files' = files
    BY <1>3 DEF WriteResult, cluster, profileVars
  <2>2. result' # None
    <3>1. result' \in Results
      BY <1>3, CleanupKeepsTypes DEF Types, RunnerType
    <3> QED BY <3>1, NoneAssumption
  <2>3. EveryRunIsRecorded'
    BY <1>0, <2>1, <2>2 DEF Recorded, EveryRunIsRecorded
  <2>4. \A r \in unwritten' : failed' \/ (r = run /\ runErr')
    BY <2>1 DEF Recorded
  <2> QED BY <2>1, <2>3, <2>4 DEF Recorded, Restoring, Ended
<1>4. CASE CleanupDeletes
  <2>1. /\ pc = "delete" /\ pc' = "gone"
        /\ UNCHANGED <<run, failed, restored, config, files, unwritten, runErr>>
    BY <1>4 DEF CleanupDeletes, outcome, profileVars
  <2> QED BY <2>1 DEF Recorded, EveryRunIsRecorded, Restoring, Ended
<1>5. CASE CleanupFails \/ CleanupAwaits
  <2>1. pc \in {"delete", "gone"} /\ (EndRun(TRUE) \/ EndRun(runErr))
    BY <1>5 DEF CleanupFails, CleanupAwaits
  <2> QED BY <1>0, <2>1, EndRunKeepsRecorded
<1>6. CASE Start
  <2>1. /\ pc = "start" /\ UNCHANGED <<run, files, unwritten, restored>>
        /\ \/ pc' = "config" /\ failed' = failed
           \/ pc' = "done" /\ failed' = TRUE
    BY <1>6 DEF Start
  <2> QED BY <2>1 DEF Recorded, EveryRunIsRecorded, Restoring, Ended
<1>7. CASE Restore
  <2>1. /\ UNCHANGED <<run, files, unwritten, failed, runErr>>
        /\ \/ pc = "restoreConfig" /\ pc' = "restoreDeployment" /\ config' = "initial"
              /\ restored' = restored
           \/ pc = "restoreDeployment" /\ pc' = "restoreWait" /\ config' = config
              /\ restored' = restored
           \/ pc = "restoreWait" /\ pc' = "done" /\ restored' = TRUE /\ config' = config
    BY <1>7 DEF Restore, RestoreEffect
  <2>2. pc' # "done" => Recorded'
    BY <2>1 DEF Recorded, EveryRunIsRecorded, Restoring, Ended
  <2>3. CASE pc' = "done"
    <3>1. run = 2 * Repetitions /\ config = "initial"
      BY <2>1, <2>3 DEF Recorded, Restoring
    <3>2. ~failed => \A r \in Runs : files[r] # None
      <4>1. \A r \in Runs : r < run \/ r = run
        BY <3>1, RunsType
      <4> QED BY <2>1, <2>3, <4>1 DEF Recorded, EveryRunIsRecorded
    <3> QED BY <2>1, <2>3, <3>1, <3>2 DEF Recorded, EveryRunIsRecorded, Restoring, Ended
  <2> QED BY <2>2, <2>3
<1>8. CASE RestoreFails
  <2>1. /\ pc \in Restoring /\ pc' = "done" /\ failed' = TRUE
        /\ UNCHANGED <<run, files, unwritten>>
    BY <1>8 DEF RestoreFails, Restoring
  <2> QED BY <2>1 DEF Recorded, EveryRunIsRecorded, Restoring, Ended
<1> QED BY <1>1, <1>2, <1>3, <1>4, <1>5, <1>6, <1>7, <1>8 DEF Next, Runner

LEMMA NothingLeftBehindStep ==
    ASSUME Recorded, NothingLeftBehind, Types, [Next]_vars
    PROVE  NothingLeftBehind'
<1>0. run \in Runs /\ Own(run) \subseteq Workloads /\ failed \in BOOLEAN /\ runErr \in BOOLEAN
  BY OwnShape DEF Types, RunnerType
<1>1. CASE Cluster \/ Interrupt \/ CleanupExpires \/ UNCHANGED vars
  <2>1. UNCHANGED <<files, unwritten, failed, run, restored, pc, runErr, config, aijobs>>
    BY <1>1, ClusterFrame
    DEF Types, Interrupt, CleanupExpires, vars, runner, cluster, profileVars, jobVars, progress,
        outcome
  <2> QED BY <2>1, RecordedFrame
<1>2. CASE WriteCall \/ ResponseLost
  <2>1. /\ UNCHANGED <<run, failed>> /\ Effect
        /\ pc' \in Steps \cup {"collect"}
    BY <1>2 DEF WriteCall, Effect, ResponseLost, Abort, Steps
  <2>2. aijobs' \subseteq aijobs \cup Own(run)
    <3>1. \A i \in 1..4 : <<run, i>> \in Own(run)
      BY <1>0, OwnShape
    <3>2. (IF pc = "hold" THEN holder ELSE Probe) \in 1..4
      BY DEF Types, RunnerType, Probe
    <3>3. \/ aijobs' = aijobs
          \/ aijobs' = aijobs \cup {<<run, IF pc = "hold" THEN holder ELSE Probe>>}
          \/ aijobs' = aijobs \ {<<run, 1>>}
      BY <2>1 DEF Effect, Create, Delete
    <3> QED BY <3>1, <3>2, <3>3
  <2> QED BY <2>1, <2>2 DEF NothingLeftBehind, Steps, Restoring
<1>3. CASE \/ AwaitRollout \/ AwaitHolder \/ Measure \/ AwaitUnschedulable \/ AwaitProbe
           \/ AwaitCompleted \/ StepFails \/ Collect \/ WriteResult
  <2>1. UNCHANGED <<aijobs, run, failed>>
    BY <1>3 DEF AwaitRollout, AwaitHolder, Measure, AwaitUnschedulable, AwaitProbe,
        AwaitCompleted, Observed, StepFails, Abort, Collect, WriteResult, cluster, jobVars
  <2>2. pc' \in Steps \cup {"collect", "evidence", "write", "delete"}
    BY <1>3 DEF AwaitRollout, AwaitHolder, Measure, AwaitUnschedulable, AwaitProbe,
        AwaitCompleted, Observed, StepFails, Abort, Collect, WriteResult, Steps
  <2> QED BY <2>1, <2>2 DEF NothingLeftBehind, Steps, Restoring
<1>4. CASE CleanupDeletes
  BY <1>4 DEF CleanupDeletes, Delete, outcome, NothingLeftBehind, Restoring
<1>5. CASE CleanupFails \/ (CleanupAwaits /\ EndRun(TRUE))
  BY <1>5 DEF CleanupFails, EndRun, NothingLeftBehind
<1>6. CASE CleanupAwaits /\ ~EndRun(TRUE)
  <2>1. RunScoped \cap aijobs = {} /\ aijobs' = aijobs /\ failed' = (failed \/ runErr)
    BY <1>6 DEF CleanupAwaits, Gone, EndRun, cluster, jobVars
  <2>2. ~failed => aijobs \subseteq Others
    BY <2>1 DEF NothingLeftBehind, RunScoped
  <2> QED BY <1>0, <2>1, <2>2 DEF NothingLeftBehind
<1>7. CASE Start \/ Restore \/ RestoreFails
  <2>1. /\ aijobs' = aijobs /\ run' = run
        /\ ~failed' => ~failed
        /\ ~failed' => (pc' = "config" \/ pc \in Restoring)
    BY <1>7 DEF Start, Restore, RestoreFails, RestoreEffect, RestoreCluster, cluster, jobVars,
        Restoring
  <2> QED BY <1>0, <2>1 DEF NothingLeftBehind, Restoring
<1> QED BY <1>1, <1>2, <1>3, <1>4, <1>5, <1>6, <1>7 DEF Next, Runner

LEMMA AlwaysRecorded == Spec => [](Recorded /\ NothingLeftBehind)
<1>1. Init => Recorded /\ NothingLeftBehind
  <2> SUFFICES ASSUME Init PROVE Recorded /\ NothingLeftBehind
    OBVIOUS
  <2>1. EveryRunIsRecorded
    BY RunsType DEF Init, EveryRunIsRecorded
  <2> QED BY <2>1 DEF Init, Recorded, NothingLeftBehind, Restoring, Ended
<1>2. Recorded /\ NothingLeftBehind /\ Types /\ [Next]_vars
         => (Recorded /\ NothingLeftBehind)'
  BY RecordedStep, NothingLeftBehindStep
<1> QED BY <1>1, <1>2, AlwaysTypes, PTL DEF Spec

\* Every run that has ended has a result file, or its own file could not be
\* written (writeResult in the deferred function of runOne).
THEOREM RunsAreRecorded == Spec => []EveryRunIsRecorded
BY AlwaysRecorded, PTL DEF Recorded

\* An exit with success leaves no AIJob of any run, a result of each, and the
\* initial configuration (errors.Join in Run and runOne).
THEOREM SuccessIsClean == Spec => []SuccessLeavesNothing
<1>1. Recorded /\ NothingLeftBehind => SuccessLeavesNothing
  BY DEF Recorded, NothingLeftBehind, SuccessLeavesNothing, Ended
<1> QED BY <1>1, AlwaysRecorded, PTL

-----------------------------------------------------------------------------
(* Which Scheduler runs. *)

\* The steps of a run once its profile's Scheduler has been rolled out.
RolledOutSteps == {"hold", "holding", "measure", "probe", "blocked", "release", "probing",
                   "finishing"}

\* A Scheduler of the current generation was started after the ConfigMap had
\* been changed, as each run and the restore change it before they annotate.
ProfileRuns ==
    /\ deployment.stamp <= run
    /\ pc \in {"start", "config", "deployment"} => deployment.stamp # run
    /\ pc \in {"deployment", "rollout"} \cup RolledOutSteps => config = Profile(run)
    /\ pc = "rollout" /\ scheduler # None /\ scheduler.generation = deployment.generation
         => scheduler.config = Profile(run)
    /\ pc \in RolledOutSteps
         => /\ deployment.observed = deployment.generation
            /\ scheduler # None => scheduler.config = Profile(run)

\* The restore annotates with the initial stamp: either that is a generation
\* newer than any Scheduler, or no run has touched the Deployment.
InitialRuns ==
    /\ scheduler # None => scheduler.generation <= deployment.generation
    /\ deployment.stamp = 0 /\ pc \notin {"restoreWait", "done"} /\ ~restarted
         => /\ deployment.observed = deployment.generation
            /\ scheduler # None /\ scheduler.config = "initial"
    /\ pc \in {"restoreDeployment", "restoreWait"} => config = "initial"
    /\ pc = "restoreWait" /\ scheduler # None /\ scheduler.generation = deployment.generation
       /\ ~restarted
         => scheduler.config = "initial"
    /\ restored => pc = "done"
    /\ restored /\ ~restarted
         => /\ deployment.observed = deployment.generation
            /\ scheduler # None /\ scheduler.config = "initial"

SchedulerKnown == ProfileRuns /\ InitialRuns

LEMMA SchedulerFrame ==
    ASSUME SchedulerKnown, UNCHANGED <<deployment, config, scheduler, restarted, run, pc, restored>>
    PROVE  SchedulerKnown'
BY DEF SchedulerKnown, ProfileRuns, InitialRuns

LEMMA ClusterKeepsScheduler ==
    ASSUME SchedulerKnown, Types, Cluster
    PROVE  SchedulerKnown'
<1>0. /\ UNCHANGED <<config, run, pc, restored>>
      /\ deployment'.stamp = deployment.stamp /\ deployment'.generation = deployment.generation
  BY ClusterFrame DEF Types
<1>1. deployment \in [stamp : {0} \cup Runs, generation : Nat, observed : Nat]
      /\ scheduler \in Schedulers \cup {None}
  BY DEF Types, ClusterType
<1>2. CASE Rollout
  <2>1. /\ deployment.observed # deployment.generation
        /\ deployment'.observed = deployment.generation
        /\ scheduler' = None /\ restarted' = restarted
    BY <1>1, <1>2 DEF Rollout
  <2> QED BY <1>0, <2>1 DEF SchedulerKnown, ProfileRuns, InitialRuns, RolledOutSteps
<1>3. CASE SchedulerStarts
  <2>1. /\ scheduler = None /\ deployment.observed = deployment.generation
        /\ scheduler' = [generation |-> deployment.generation, config |-> config]
        /\ deployment' = deployment /\ restarted' = restarted
    BY <1>3 DEF SchedulerStarts
  <2>2. scheduler'.generation = deployment.generation /\ scheduler'.config = config
    BY <2>1
  <2>3. deployment.generation <= deployment.generation
    BY <1>1
  <2>4. ProfileRuns'
    BY <1>0, <2>1, <2>2 DEF SchedulerKnown, ProfileRuns, RolledOutSteps
  <2>5. InitialRuns'
    BY <1>0, <2>1, <2>2, <2>3 DEF SchedulerKnown, InitialRuns
  <2> QED BY <2>4, <2>5 DEF SchedulerKnown
<1>4. CASE SchedulerRestarts
  <2>1. /\ scheduler # None /\ scheduler' = [scheduler EXCEPT !.config = config]
        /\ deployment' = deployment /\ restarted' = TRUE
    BY <1>4 DEF SchedulerRestarts
  <2>2. scheduler'.generation = scheduler.generation /\ scheduler'.config = config
    BY <1>1, <2>1 DEF Schedulers
  <2>3. ProfileRuns'
    BY <1>0, <2>1, <2>2 DEF SchedulerKnown, ProfileRuns, RolledOutSteps
  <2>4. InitialRuns'
    BY <1>0, <2>1, <2>2 DEF SchedulerKnown, InitialRuns
  <2> QED BY <2>3, <2>4 DEF SchedulerKnown
<1>5. CASE ~Rollout /\ ~SchedulerStarts /\ ~SchedulerRestarts
  <2>1. UNCHANGED profileVars
    BY <1>5 DEF Cluster, CacheSyncs, ControllerCreates, KueueAdmits, Schedules, ProbeSucceeds,
        ControllerReports, GarbageCollect
  <2> QED BY <1>0, <2>1, SchedulerFrame DEF profileVars
<1> QED BY <1>2, <1>3, <1>4, <1>5

LEMMA SchedulerFields ==
    ASSUME Types
    PROVE  /\ deployment \in [stamp : {0} \cup Runs, generation : Nat, observed : Nat]
           /\ scheduler \in Schedulers \cup {None} /\ run \in Runs /\ run \in Nat \ {0}
           /\ scheduler # None => scheduler.generation \in Nat
           /\ deployment.stamp \in Nat /\ deployment.generation \in Nat
<1>1. /\ deployment \in [stamp : {0} \cup Runs, generation : Nat, observed : Nat]
      /\ scheduler \in Schedulers \cup {None} /\ run \in Runs
  BY DEF Types, ClusterType, RunnerType
<1>2. scheduler # None => scheduler.generation \in Nat
  BY <1>1 DEF Schedulers
<1>3. deployment.stamp \in {0} \cup Runs /\ deployment.generation \in Nat
  BY <1>1
<1>4. deployment.stamp \in Nat /\ run \in Nat \ {0}
  <2>1. \A r \in Runs : r \in Nat \ {0}
    BY RunsType
  <2> QED BY <1>1, <1>3, <2>1
<1> QED BY <1>1, <1>2, <1>3, <1>4

LEMMA EffectKeepsScheduler ==
    ASSUME SchedulerKnown, Types, WriteCall \/ ResponseLost \/ StepFails
    PROVE  SchedulerKnown'
<1>0. /\ UNCHANGED <<scheduler, restarted, run, restored>>
      /\ pc \in Steps
  BY DEF WriteCall, ResponseLost, StepFails, Abort, Effect, Steps
<1>1. /\ deployment \in [stamp : {0} \cup Runs, generation : Nat, observed : Nat]
      /\ scheduler \in Schedulers \cup {None} /\ run \in Runs /\ run \in Nat \ {0}
      /\ scheduler # None => scheduler.generation \in Nat
      /\ deployment.stamp \in Nat /\ deployment.generation \in Nat
  BY SchedulerFields
<1>2. CASE StepFails
  <2>1. UNCHANGED <<config, deployment>> /\ pc' = "collect"
    BY <1>2 DEF StepFails, Abort
  <2> QED BY <1>0, <2>1 DEF SchedulerKnown, ProfileRuns, InitialRuns, RolledOutSteps, Steps
<1>3. CASE Effect /\ pc = "config"
  <2>1. /\ config' = Profile(run) /\ deployment' = deployment
        /\ pc' \in {"deployment", "collect"}
    BY <1>3 DEF Effect, WriteCall, ResponseLost, StepFails, Abort
  <2> QED BY <1>0, <1>3, <2>1 DEF SchedulerKnown, ProfileRuns, InitialRuns, RolledOutSteps
<1>4. CASE Effect /\ pc = "deployment"
  <2>1. /\ config' = config
        /\ deployment' = [deployment EXCEPT !.stamp = run, !.generation = @ + 1]
        /\ pc' \in {"rollout", "collect"}
    BY <1>4 DEF Effect, Annotate, SchedulerKnown, ProfileRuns, WriteCall, ResponseLost, StepFails,
        Abort
  <2>2. /\ deployment'.stamp = run /\ deployment'.generation = deployment.generation + 1
        /\ deployment'.observed = deployment.observed
    BY <1>1, <2>1
  <2>3. scheduler # None => scheduler.generation < deployment'.generation
    BY <1>1, <2>2 DEF SchedulerKnown, InitialRuns
  <2>4. ProfileRuns'
    <3>1. deployment'.stamp <= run'
      BY <1>0, <1>1, <2>2
    <3>2. ~(scheduler' # None /\ scheduler'.generation = deployment'.generation)
      BY <1>0, <1>1, <2>2, <2>3
    <3> QED BY <1>0, <1>4, <2>1, <3>1, <3>2 DEF SchedulerKnown, ProfileRuns, RolledOutSteps
  <2>5. InitialRuns'
    <3>1. scheduler' # None => scheduler'.generation <= deployment'.generation
      BY <1>0, <1>1, <2>2, <2>3
    <3>2. deployment'.stamp # 0 /\ ~restored'
      BY <1>0, <1>1, <1>4, <2>2 DEF SchedulerKnown, InitialRuns
    <3> QED BY <2>1, <3>1, <3>2 DEF InitialRuns
  <2> QED BY <2>4, <2>5 DEF SchedulerKnown
<1>5. CASE Effect /\ pc \notin {"config", "deployment"}
  <2>1. /\ UNCHANGED <<config, deployment>> /\ pc \in RolledOutSteps
        /\ pc' \in RolledOutSteps \cup {"collect"}
    BY <1>5 DEF Effect, WriteCall, ResponseLost, StepFails, Abort, RolledOutSteps
  <2> QED BY <1>0, <2>1 DEF SchedulerKnown, ProfileRuns, InitialRuns, RolledOutSteps
<1> QED BY <1>2, <1>3, <1>4, <1>5 DEF WriteCall, ResponseLost

LEMMA WaitsKeepScheduler ==
    ASSUME SchedulerKnown, Types,
           \/ AwaitRollout \/ AwaitHolder \/ Measure \/ AwaitUnschedulable \/ AwaitProbe
           \/ AwaitCompleted \/ Collect \/ WriteResult \/ CleanupDeletes
    PROVE  SchedulerKnown'
<1>1. UNCHANGED <<config, deployment, scheduler, restarted, run, restored>>
  BY DEF AwaitRollout, AwaitHolder, Measure, AwaitUnschedulable, AwaitProbe, AwaitCompleted,
      Observed, Collect, WriteResult, CleanupDeletes, cluster, profileVars, outcome
<1>2. CASE AwaitRollout
  <2>1. pc = "rollout" /\ pc' = "hold" /\ RolledOut
    BY <1>2 DEF AwaitRollout, Observed
  <2> QED BY <1>1, <2>1 DEF SchedulerKnown, ProfileRuns, InitialRuns, RolledOutSteps, RolledOut
<1>3. CASE ~AwaitRollout
  <2>1. /\ pc \in RolledOutSteps \cup Cleaning
        /\ pc' \in RolledOutSteps \cup Cleaning
        /\ pc \in Cleaning => pc' \in Cleaning
    BY <1>3 DEF AwaitHolder, Measure, AwaitUnschedulable, AwaitProbe, AwaitCompleted,
        Observed, Collect, WriteResult, CleanupDeletes, RolledOutSteps, Cleaning
  <2> QED BY <1>1, <2>1 DEF SchedulerKnown, ProfileRuns, InitialRuns, RolledOutSteps, Cleaning
<1> QED BY <1>2, <1>3

LEMMA EndsKeepScheduler ==
    ASSUME SchedulerKnown, Types,
           Start \/ CleanupFails \/ CleanupAwaits \/ Restore \/ RestoreFails
    PROVE  SchedulerKnown'
<1>1. /\ deployment \in [stamp : {0} \cup Runs, generation : Nat, observed : Nat]
      /\ scheduler \in Schedulers \cup {None} /\ run \in Nat \ {0}
      /\ scheduler # None => scheduler.generation \in Nat
      /\ deployment.stamp \in Nat /\ deployment.generation \in Nat
  BY SchedulerFields
<1>2. CASE Start
  <2>1. /\ UNCHANGED <<config, deployment, scheduler, restarted, run, restored>>
        /\ pc = "start" /\ pc' \in {"config", "done"}
    BY <1>2 DEF Start, cluster, profileVars
  <2> QED BY <2>1 DEF SchedulerKnown, ProfileRuns, InitialRuns, RolledOutSteps
<1>3. CASE CleanupFails \/ CleanupAwaits
  <2>1. /\ UNCHANGED <<config, deployment, scheduler, restarted, restored>>
        /\ pc \in {"delete", "gone"}
        /\ \/ run' = run + 1 /\ pc' = "config"
           \/ run' = run /\ pc' = "restoreConfig"
    BY <1>3 DEF CleanupFails, CleanupAwaits, EndRun, cluster, profileVars
  <2>2. deployment.stamp <= run
    BY DEF SchedulerKnown, ProfileRuns
  <2>3. deployment.stamp <= run' /\ (pc' = "config" => deployment.stamp # run')
    BY <1>1, <2>1, <2>2
  <2> QED BY <2>1, <2>3 DEF SchedulerKnown, ProfileRuns, InitialRuns, RolledOutSteps
<1>4. CASE (Restore \/ RestoreFails) /\ pc = "restoreWait"
  <2>1. /\ UNCHANGED <<config, deployment, scheduler, restarted, run>>
        /\ pc' = "done"
        /\ restored' => restored \/ RolledOut
    BY <1>4 DEF Restore, RestoreFails, RestoreEffect, RestoreCluster
  <2> QED BY <1>4, <2>1 DEF SchedulerKnown, ProfileRuns, InitialRuns, RolledOutSteps, RolledOut
<1>5. CASE (Restore \/ RestoreFails) /\ pc # "restoreWait"
  <2>1. /\ UNCHANGED <<scheduler, restarted, run, restored>>
        /\ pc \in {"restoreConfig", "restoreDeployment"}
        /\ pc' \in {"restoreDeployment", "restoreWait", "done"}
        /\ pc' = "restoreDeployment" => config' = "initial" /\ deployment' = deployment
        /\ pc' = "restoreWait" => pc = "restoreDeployment" /\ config' = config /\ Annotate(0)
        /\ \/ deployment' = deployment
           \/ deployment' = [deployment EXCEPT !.stamp = 0, !.generation = @ + 1]
    BY <1>5 DEF Restore, RestoreFails, RestoreEffect, RestoreCluster, Annotate
  <2>2. /\ deployment'.stamp \in {0, deployment.stamp}
        /\ deployment'.generation \in {deployment.generation, deployment.generation + 1}
    <3>1. CASE deployment' = deployment
      BY <3>1
    <3>2. CASE deployment' = [deployment EXCEPT !.stamp = 0, !.generation = @ + 1]
      BY <1>1, <3>2
    <3> QED BY <2>1, <3>1, <3>2
  <2>3. deployment'.stamp <= run'
    BY <1>1, <2>1, <2>2 DEF SchedulerKnown, ProfileRuns
  <2>4. ProfileRuns'
    BY <2>1, <2>3 DEF ProfileRuns, RolledOutSteps
  <2>5. scheduler' # None => scheduler'.generation <= deployment'.generation
    BY <1>1, <2>1, <2>2 DEF SchedulerKnown, InitialRuns
  <2>6. ~restored'
    BY <2>1 DEF SchedulerKnown, InitialRuns
  <2>7. CASE pc' = "restoreDeployment"
    BY <2>1, <2>4, <2>5, <2>6, <2>7 DEF SchedulerKnown, InitialRuns
  <2>8. CASE pc' = "restoreWait"
    <3>1. config' = "initial"
      BY <2>1, <2>8 DEF SchedulerKnown, InitialRuns
    <3>2. ASSUME scheduler' # None, scheduler'.generation = deployment'.generation, ~restarted'
          PROVE  scheduler'.config = "initial"
      <4>1. CASE deployment.stamp = 0
        BY <2>1, <3>2, <4>1 DEF SchedulerKnown, InitialRuns
      <4>2. CASE deployment.stamp # 0
        <5>1. deployment' = [deployment EXCEPT !.stamp = 0, !.generation = @ + 1]
          BY <2>1, <2>8, <4>2 DEF Annotate
        <5>2. deployment'.generation = deployment.generation + 1
          BY <1>1, <5>1
        <5> QED BY <1>1, <2>1, <3>2, <5>2 DEF SchedulerKnown, InitialRuns
      <4> QED BY <4>1, <4>2
    <3> QED BY <2>4, <2>5, <2>6, <2>8, <3>1, <3>2 DEF SchedulerKnown, InitialRuns
  <2>9. CASE pc' = "done"
    BY <2>4, <2>5, <2>6, <2>9 DEF SchedulerKnown, InitialRuns
  <2> QED BY <2>1, <2>7, <2>8, <2>9
<1> QED BY <1>2, <1>3, <1>4, <1>5

LEMMA AlwaysSchedulerKnown == Spec => []SchedulerKnown
<1>1. Init => SchedulerKnown
  <2> SUFFICES ASSUME Init PROVE SchedulerKnown
    OBVIOUS
  <2>1. scheduler # None
    <3>1. scheduler \in Schedulers
      BY DEF Init, Schedulers, Configs
    <3> QED BY <3>1, NoneAssumption
  <2> QED BY <2>1 DEF Init, SchedulerKnown, ProfileRuns, InitialRuns, RolledOutSteps
<1>2. SchedulerKnown /\ Types /\ [Next]_vars => SchedulerKnown'
  <2> SUFFICES ASSUME SchedulerKnown, Types, [Next]_vars PROVE SchedulerKnown'
    OBVIOUS
  <2>1. CASE Interrupt \/ CleanupExpires \/ UNCHANGED vars
    <3>1. UNCHANGED <<deployment, config, scheduler, restarted, run, pc, restored>>
      BY <2>1 DEF Interrupt, CleanupExpires, vars, runner, cluster, profileVars, progress, outcome
    <3> QED BY <3>1, SchedulerFrame
  <2> QED BY <2>1, ClusterKeepsScheduler, EffectKeepsScheduler, WaitsKeepScheduler,
             EndsKeepScheduler
          DEF Next, Runner
<1> QED BY <1>1, <1>2, AlwaysTypes, PTL DEF Spec

\* Once the restore has returned nil the Scheduler that runs has the initial
\* configuration, unless its container restarted on its own
\* (captureScheduler's restore function).
THEOREM RestoreIsReal == Spec => []RestoredSchedulerRuns
<1>1. SchedulerKnown => RestoredSchedulerRuns
  BY DEF SchedulerKnown, InitialRuns, RestoredSchedulerRuns
<1> QED BY <1>1, AlwaysSchedulerKnown, PTL

-----------------------------------------------------------------------------
(* Whose AIJobs and Pods there are. *)

Fresh(w) == w \notin aijobs \cup stale /\ stage[w] = "none"

\* Nothing of a run exists before its first AIJob is created, and no benchmark
\* touches the AIJobs of others.
NothingAhead ==
    /\ \A w \in Workloads : w[1] > run => Fresh(w)
    /\ pc \in {"start", "config", "deployment", "rollout"} => \A w \in Own(run) : Fresh(w)
    /\ \A w \in Others : w \notin stale /\ stage[w] = (IF w \in aijobs THEN "running" ELSE "none")

\* Without an error and without a JobSet recreated from the controller's stale
\* cache, no Pod of a run before is left; that is what keeps runs apart.
NothingBehind ==
    recreated = 0 /\ ~failed
      => \A w \in Workloads \ Others : w[1] # run => w \notin aijobs /\ stage[w] = "none"

Apart == NothingAhead /\ NothingBehind /\ RunsAreIsolated

LEMMA ApartFrame ==
    ASSUME Apart,
           UNCHANGED <<aijobs, stale, stage, run, failed, recreated, shared>>,
           pc' = pc \/ pc' \notin {"start", "config", "deployment", "rollout"}
                    \/ pc \in {"start", "config", "deployment", "rollout"}
    PROVE  Apart'
BY DEF Apart, NothingAhead, NothingBehind, RunsAreIsolated, Fresh

\* A workload that has something in the cluster gets further, or is removed.
LEMMA ClusterKeepsApart ==
    ASSUME Apart, Types, Cluster
    PROVE  Apart'
<1>0. /\ UNCHANGED <<pc, run, failed, aijobs>>
      /\ stage \in [Workloads -> {"none", "suspended", "pending", "unschedulable",
                                  "running", "succeeded"}]
      /\ recreated \in Nat
  BY ClusterFrame, BenchmarkAssumption DEF Types, ClusterType
<1>1. CASE Rollout \/ SchedulerStarts \/ SchedulerRestarts
  <2>1. UNCHANGED <<aijobs, stale, stage, run, failed, recreated, shared, pc>>
    BY <1>0, <1>1 DEF Rollout, SchedulerStarts, SchedulerRestarts, jobVars, podVars
  <2> QED BY <2>1, ApartFrame
<1>2. CASE CacheSyncs
  BY <1>0, <1>2 DEF CacheSyncs, podVars, Apart, NothingAhead, NothingBehind, RunsAreIsolated, Fresh
<1>3. ASSUME NEW w \in Workloads, ControllerCreates(w) PROVE Apart'
  <2>1. /\ stage[w] = "none" /\ stage' = [stage EXCEPT ![w] = "suspended"]
        /\ stale' = stale /\ shared' = shared
        /\ \/ w \in aijobs /\ recreated' = recreated
           \/ w \in stale /\ recreated' = recreated + 1
    BY <1>3 DEF ControllerCreates
  <2>2. w \notin Others
    BY <2>1 DEF Apart, NothingAhead
  <2>3. NothingAhead'
    BY <1>0, <2>1, <2>2 DEF Apart, NothingAhead, Fresh, Workloads
  <2>4. NothingBehind'
    BY <1>0, <2>1 DEF Apart, NothingBehind
  <2>5. \A v \in Others : stage'[v] = stage[v]
    BY <1>0, <2>1, <2>2 DEF Workloads
  <2>6. recreated' = 0 => recreated = 0
    BY <1>0, <2>1
  <2> QED BY <1>0, <2>1, <2>3, <2>4, <2>5, <2>6 DEF Apart, RunsAreIsolated
<1>4. ASSUME NEW w \in Workloads, KueueAdmits(w) \/ ProbeSucceeds(w) PROVE Apart'
  <2>1. /\ stage[w] # "none" /\ \E s \in {"pending", "succeeded"} : stage' = [stage EXCEPT ![w] = s]
        /\ UNCHANGED <<stale, recreated, shared>>
    BY <1>4 DEF KueueAdmits, ProbeSucceeds, jobVars
  <2>2. w \notin Others
    <3>1. w \in Others => stage[w] \in {"running", "none"} /\ w[2] = 1
      BY WorkloadShape DEF Apart, NothingAhead
    <3>2. stage[w] = "suspended" \/ w[2] = Probe
      BY <1>4 DEF KueueAdmits, ProbeSucceeds
    <3>3. Probe # 1
      BY DEF Probe
    <3>4. "suspended" \notin {"running", "none"}
      OBVIOUS
    <3> QED BY <3>1, <3>2, <3>3, <3>4, Zenon
  <2>3. \A v \in Others : stage'[v] = stage[v]
    BY <1>0, <2>1, <2>2 DEF Workloads
  <2>4. \A v \in Workloads : stage[v] = "none" => stage'[v] = "none"
    BY <1>0, <2>1
  <2>5. Others \subseteq Workloads /\ \A r \in Runs : Own(r) \subseteq Workloads
    BY OwnShape DEF Workloads
  <2>6. run \in Runs
    BY DEF Types, RunnerType
  <2> QED BY <1>0, <2>1, <2>3, <2>4, <2>5, <2>6
          DEF Apart, NothingAhead, NothingBehind, RunsAreIsolated, Fresh
<1>5. ASSUME NEW w \in Workloads, Schedules(w) PROVE Apart'
  <2>1. /\ stage[w] \in {"pending", "unschedulable"}
        /\ UNCHANGED <<stale, recreated>>
        /\ \/ stage' = [stage EXCEPT ![w] = "unschedulable"] /\ shared' = shared
           \/ /\ stage' = [stage EXCEPT ![w] = "running"]
              /\ shared' = IF w[1] = run THEN shared ELSE shared \cup {run}
    BY <1>5 DEF Schedules, jobVars
  <2>2. w \notin Others
    BY <2>1 DEF Apart, NothingAhead
  <2>3. \A v \in Others : stage'[v] = stage[v]
    BY <1>0, <2>1, <2>2 DEF Workloads
  <2>4. \A v \in Workloads : stage[v] = "none" => stage'[v] = "none"
    BY <1>0, <2>1
  <2>5. Others \subseteq Workloads /\ \A r \in Runs : Own(r) \subseteq Workloads
    BY OwnShape DEF Workloads
  <2>6. run \in Runs
    BY DEF Types, RunnerType
  <2>7. NothingAhead' /\ NothingBehind'
    BY <1>0, <2>1, <2>3, <2>4, <2>5, <2>6 DEF Apart, NothingAhead, NothingBehind, Fresh
  <2>8. recreated = 0 /\ ~failed => w[1] = run
    BY <2>1, <2>2 DEF Apart, NothingBehind
  <2> QED BY <1>0, <2>1, <2>3, <2>7, <2>8 DEF Apart, RunsAreIsolated
<1>6. ASSUME NEW w \in Workloads, ControllerReports(w) PROVE Apart'
  <2>1. UNCHANGED <<aijobs, stale, stage, run, failed, recreated, shared, pc>>
    BY <1>0, <1>6 DEF ControllerReports, profileVars, podVars
  <2> QED BY <2>1, ApartFrame
<1>7. ASSUME NEW w \in Workloads, GarbageCollect(w) PROVE Apart'
  <2>1. /\ w \notin aijobs /\ stage' = [stage EXCEPT ![w] = "none"]
        /\ UNCHANGED <<stale, recreated, shared>> /\ stage[w] # "none"
    BY <1>7 DEF GarbageCollect, jobVars
  <2>2. w \notin Others
    BY <2>1 DEF Apart, NothingAhead
  <2>3. \A v \in Others : stage'[v] = stage[v]
    BY <1>0, <2>1, <2>2 DEF Workloads
  <2>4. \A v \in Workloads : stage[v] = "none" => stage'[v] = "none"
    BY <1>0, <2>1
  <2>5. Others \subseteq Workloads /\ \A r \in Runs : Own(r) \subseteq Workloads
    BY OwnShape DEF Workloads
  <2>6. run \in Runs
    BY DEF Types, RunnerType
  <2> QED BY <1>0, <2>1, <2>3, <2>4, <2>5, <2>6
          DEF Apart, NothingAhead, NothingBehind, RunsAreIsolated, Fresh
<1> QED BY <1>1, <1>2, <1>3, <1>4, <1>5, <1>6, <1>7 DEF Cluster

\* The runner creates and deletes AIJobs of the current run alone.
LEMMA EffectKeepsApart ==
    ASSUME Apart, Types, WriteCall \/ ResponseLost \/ CleanupDeletes
    PROVE  Apart'
<1>0. run \in Runs /\ Own(run) \subseteq Workloads /\ (\A w \in Own(run) : w \notin Others)
      /\ \A w \in Workloads : w \in Own(run) <=> w[1] = run
  <2>1. run \in Runs
    BY DEF Types, RunnerType
  <2> QED BY <2>1, OwnShape, WorkloadShape
<1>1. UNCHANGED <<stage, run, failed, recreated, shared>>
  BY DEF WriteCall, ResponseLost, Abort, CleanupDeletes, podVars, outcome
<1>2. /\ \A w \in Workloads : w \notin Own(run) => (w \in aijobs' <=> w \in aijobs)
                                                 /\ (w \in stale' => w \in stale)
      /\ \/ UNCHANGED <<aijobs, stale>>
         \/ pc \notin {"start", "config", "deployment", "rollout"}
      /\ pc' \in {"start", "config", "deployment", "rollout"}
            => pc \in {"start", "config", "deployment", "rollout"}
  <2>1. CASE CleanupDeletes
    BY <2>1 DEF CleanupDeletes, Delete, RunScoped
  <2>2. CASE Effect /\ pc \in {"config", "deployment"}
    BY <2>2 DEF Effect
  <2>3. CASE Effect /\ pc \in {"hold", "probe"} /\ pc' \notin {"start", "config", "deployment", "rollout"}
    <3>1. (IF pc = "hold" THEN holder ELSE Probe) \in 1..4
      BY DEF Types, RunnerType, Probe
    <3>2. <<run, IF pc = "hold" THEN holder ELSE Probe>> \in Own(run)
      BY <1>0, <3>1, OwnShape
    <3> QED BY <2>3, <3>2 DEF Effect, Create
  <2>4. CASE Effect /\ pc = "release" /\ pc' \notin {"start", "config", "deployment", "rollout"}
    <3>1. <<run, 1>> \in Own(run)
      <4>1. \A i \in 1..4 : <<run, i>> \in Own(run)
        BY <1>0, OwnShape
      <4>2. 1 \in 1..4
        OBVIOUS
      <4> QED BY <4>1, <4>2, Zenon
    <3> QED BY <2>4, <3>1 DEF Effect, Delete
  <2>5. (WriteCall \/ ResponseLost) /\ pc \in {"hold", "probe", "release"}
           => pc' \notin {"start", "config", "deployment", "rollout"}
    BY DEF WriteCall, ResponseLost, Abort
  <2> QED BY <2>1, <2>2, <2>3, <2>4, <2>5 DEF WriteCall, ResponseLost, Effect
<1>3. \A w \in Others : w \in Workloads /\ w \notin Own(run)
  BY <1>0 DEF Workloads
<1>4. \A w \in Workloads : w[1] > run \/ w[1] # run => w \notin Own(run)
  <2>1. run \in Nat
    BY <1>0, RunsType
  <2> QED BY <1>0, <2>1
<1>5. NothingAhead'
  BY <1>0, <1>1, <1>2, <1>3, <1>4 DEF Apart, NothingAhead, Fresh
<1>6. NothingBehind'
  BY <1>1, <1>2, <1>4 DEF Apart, NothingBehind
<1> QED BY <1>1, <1>5, <1>6 DEF Apart, RunsAreIsolated

\* The next run begins: nothing of it exists yet, and without an error nothing
\* of the run that ends.
LEMMA EndRunKeepsApart ==
    ASSUME Apart, Types, NEW err \in BOOLEAN, EndRun(err),
           UNCHANGED <<stage, recreated>>,
           aijobs' \subseteq aijobs, \A w \in Others : w \in aijobs => w \in aijobs',
           \A w \in stale' : w \in stale \/ w \in Own(run),
           ~failed' => Gone /\ aijobs' = aijobs
    PROVE  Apart'
<1>0. run \in Runs /\ run \in Nat /\ failed \in BOOLEAN /\ failed' = (failed \/ err)
      /\ \A w \in Workloads : w \in Own(run) <=> w[1] = run
  <2>1. run \in Runs /\ run \in Nat
    BY RunsType DEF Types, RunnerType
  <2> QED BY <2>1, OwnShape DEF Types, RunnerType, EndRun
<1>1. ASSUME NEW w \in Workloads PROVE w[1] \in Nat
  <2>1. w[1] \in {0} \cup Runs
    BY WorkloadShape
  <2>2. \A r \in Runs : r \in Nat
    BY RunsType
  <2> QED BY <2>1, <2>2
<1>2. \/ run + 1 \in Runs /\ run' = run + 1 /\ pc' = "config"
         /\ shared' = IF SharesNodes(run + 1) THEN shared \cup {run + 1} ELSE shared
      \/ run + 1 \notin Runs /\ run' = run /\ pc' = "restoreConfig" /\ shared' = shared
  BY DEF EndRun
<1>3. \A w \in Workloads : w[1] > run => Fresh(w)'
  <2> SUFFICES ASSUME NEW w \in Workloads, w[1] > run PROVE Fresh(w)'
    OBVIOUS
  <2>1. Fresh(w) /\ w \notin Own(run)
    BY <1>0, <1>1 DEF Apart, NothingAhead
  <2> QED BY <2>1 DEF Fresh
<1>4. \A w \in Others : w \notin stale' /\ stage'[w] = (IF w \in aijobs' THEN "running" ELSE "none")
  <2> SUFFICES ASSUME NEW w \in Others
               PROVE  w \notin stale' /\ stage'[w] = (IF w \in aijobs' THEN "running" ELSE "none")
    OBVIOUS
  <2>1. w \in Workloads
    BY DEF Workloads
  <2>2. w \notin Own(run)
    BY <1>0, <2>1, WorkloadShape
  <2> QED BY <2>2 DEF Apart, NothingAhead
<1>5. NothingAhead'
  <2>1. \A w \in Workloads : w[1] > run' => w[1] > run
    BY <1>0, <1>1, <1>2
  <2>2. pc' = "config" => \A w \in Own(run') : w \in Workloads /\ w[1] > run
    <3> SUFFICES ASSUME pc' = "config", NEW w \in Own(run') PROVE w \in Workloads /\ w[1] > run
      OBVIOUS
    <3>1. run' \in Runs /\ run' = run + 1
      BY <1>2
    <3>2. w \in Workloads /\ w[1] = run'
      BY <3>1, OwnShape
    <3> QED BY <1>0, <3>1, <3>2
  <2> QED BY <1>2, <1>3, <1>4, <2>1, <2>2 DEF NothingAhead
<1>6. NothingBehind'
  <2> SUFFICES ASSUME recreated = 0, ~failed', NEW w \in Workloads \ Others, w[1] # run'
               PROVE  w \notin aijobs' /\ stage'[w] = "none"
    BY DEF NothingBehind
  <2>1. ~failed /\ Gone /\ aijobs' = aijobs
    BY <1>0
  <2>2. CASE w[1] = run
    BY <1>0, <2>1, <2>2 DEF Gone, RunScoped
  <2>3. CASE w[1] # run
    BY <2>1, <2>3 DEF Apart, NothingBehind
  <2> QED BY <2>2, <2>3
<1>7. RunsAreIsolated'
  <2> SUFFICES ASSUME \A w \in Others : stage'[w] = "none", recreated = 0, ~failed'
               PROVE  shared' = {}
    BY DEF RunsAreIsolated
  <2>1. ~failed /\ Gone /\ aijobs' = aijobs /\ shared = {}
    BY <1>0 DEF Apart, RunsAreIsolated
  <2>2. \A w \in Workloads : stage[w] = "none"
    <3> SUFFICES ASSUME NEW w \in Workloads PROVE stage[w] = "none"
      OBVIOUS
    <3>1. CASE w \in Others
      BY <3>1
    <3>2. CASE w \notin Others /\ w[1] = run
      BY <1>0, <2>1, <3>2 DEF Gone, RunScoped
    <3>3. CASE w \notin Others /\ w[1] # run
      BY <2>1, <3>3 DEF Apart, NothingBehind
    <3> QED BY <3>1, <3>2, <3>3
  <2>3. ~SharesNodes(run + 1)
    BY <2>2 DEF SharesNodes
  <2> QED BY <1>2, <2>1, <2>3
<1> QED BY <1>5, <1>6, <1>7 DEF Apart

LEMMA CleanupKeepsApart ==
    ASSUME Apart, Types, CleanupFails \/ CleanupAwaits
    PROVE  Apart'
<1>0. run \in Runs /\ runErr \in BOOLEAN /\ failed \in BOOLEAN
      /\ \A w \in Others : w \notin Own(run)
  <2>1. run \in Runs /\ runErr \in BOOLEAN /\ failed \in BOOLEAN
    BY DEF Types, RunnerType
  <2>2. \A w \in Others : w \in Workloads
    BY DEF Workloads
  <2> QED BY <2>1, <2>2, WorkloadShape
<1>1. CASE CleanupFails
  <2>1. PICK deleted \in SUBSET (RunScoped \cap aijobs) : Delete(deleted)
    BY <1>1 DEF CleanupFails
  <2>2. /\ UNCHANGED <<stage, recreated>> /\ EndRun(TRUE)
    BY <1>1 DEF CleanupFails, podVars
  <2>3. /\ aijobs' \subseteq aijobs /\ \A w \in Others : w \in aijobs => w \in aijobs'
        /\ \A w \in stale' : w \in stale \/ w \in Own(run)
    BY <1>0, <2>1 DEF Delete, RunScoped
  <2>4. failed'
    BY <2>2 DEF EndRun
  <2> QED BY <2>2, <2>3, <2>4, EndRunKeepsApart
<1>2. CASE CleanupAwaits
  <2>1. UNCHANGED <<stage, recreated, aijobs, stale>>
    BY <1>2 DEF CleanupAwaits, cluster, jobVars, podVars
  <2>2. CASE Gone /\ EndRun(runErr)
    BY <1>0, <2>1, <2>2, EndRunKeepsApart
  <2>3. CASE EndRun(TRUE)
    <3>1. failed'
      BY <2>3 DEF EndRun
    <3> QED BY <2>1, <2>3, <3>1, EndRunKeepsApart
  <2> QED BY <1>2, <2>2, <2>3 DEF CleanupAwaits
<1> QED BY <1>1, <1>2

LEMMA AlwaysApart == Spec => []Apart
<1>1. Init => Apart
  <2> SUFFICES ASSUME Init PROVE Apart
    OBVIOUS
  <2>1. \A w \in Workloads : w \notin Others => w \notin aijobs /\ stage[w] = "none"
    BY DEF Init
  <2>2. \A w \in Workloads : w[1] > run => w \notin Others
    BY WorkloadShape DEF Init
  <2>3. \A w \in Own(run) : w \in Workloads /\ w \notin Others
    BY RunsType, OwnShape, WorkloadShape DEF Init
  <2>4. \A w \in Others : stage[w] = IF w \in aijobs THEN "running" ELSE "none"
    BY DEF Init, Workloads
  <2>5. NothingAhead
    BY <2>1, <2>2, <2>3, <2>4 DEF Init, NothingAhead, Fresh
  <2>6. NothingBehind
    BY <2>1 DEF NothingBehind
  <2>7. RunsAreIsolated
    <3>1. (\A w \in Others : stage[w] = "none") => aijobs = {}
      BY <2>4 DEF Init
    <3> QED BY <3>1 DEF Init, RunsAreIsolated
  <2> QED BY <2>5, <2>6, <2>7 DEF Apart
<1>2. Apart /\ Types /\ [Next]_vars => Apart'
  <2> SUFFICES ASSUME Apart, Types, [Next]_vars PROVE Apart'
    OBVIOUS
  <2>1. CASE Interrupt \/ CleanupExpires \/ UNCHANGED vars
    <3>1. UNCHANGED <<aijobs, stale, stage, run, failed, recreated, shared, pc>>
      BY <2>1 DEF Interrupt, CleanupExpires, vars, runner, cluster, jobVars, podVars, progress,
          outcome
    <3> QED BY <3>1, ApartFrame
  <2>2. CASE \/ AwaitRollout \/ AwaitHolder \/ Measure \/ AwaitUnschedulable \/ AwaitProbe
             \/ AwaitCompleted \/ StepFails \/ Collect \/ WriteResult
    <3>1. /\ UNCHANGED <<aijobs, stale, stage, run, failed, recreated, shared>>
          /\ pc' \notin {"start", "config", "deployment", "rollout"}
      BY <2>2 DEF AwaitRollout, AwaitHolder, Measure, AwaitUnschedulable, AwaitProbe,
          AwaitCompleted, Observed, StepFails, Abort, Collect, WriteResult, cluster, jobVars,
          podVars
    <3> QED BY <3>1, ApartFrame
  <2>3. CASE Start \/ Restore \/ RestoreFails
    <3>1. /\ UNCHANGED <<aijobs, stale, stage, run, recreated, shared>>
          /\ failed' = failed \/ failed' = TRUE
          /\ pc' \in {"start", "config", "deployment", "rollout"} => pc = "start"
      BY <2>3 DEF Start, Restore, RestoreFails, RestoreEffect, RestoreCluster, cluster, jobVars,
          podVars
    <3>2. CASE failed' = failed
      BY <3>1, <3>2, ApartFrame
    <3>3. CASE failed' = TRUE
      BY <3>1, <3>3 DEF Apart, NothingAhead, NothingBehind, RunsAreIsolated, Fresh
    <3> QED BY <3>1, <3>2, <3>3
  <2> QED BY <2>1, <2>2, <2>3, ClusterKeepsApart, EffectKeepsApart, CleanupKeepsApart
          DEF Next, Runner
<1> QED BY <1>1, <1>2, AlwaysTypes, PTL DEF Spec

\* No Pod of an earlier run holds GPUs while a run measures, unless an error was
\* reported or a JobSet was recreated from a stale cache (cleanup waits for the
\* descendants).
THEOREM RunsStayApart == Spec => []RunsAreIsolated
BY AlwaysApart, PTL DEF Apart

-----------------------------------------------------------------------------
(* What was measured. *)

InUse == {"running", "succeeded"}

\* The Pods of the run were bound under its profile, and the holders that have
\* been seen to run keep running until one is released.
HoldersPlaced ==
    /\ pc \in RolledOutSteps
         => \A w \in Own(run) : stage[w] \in InUse => boundBy[w] = Profile(run)
    /\ pc \in {"hold", "holding"}
         => \A i \in 1..3 : i < holder => <<run, i>> \in aijobs /\ stage[<<run, i>>] \in InUse
    /\ pc = "holding" => <<run, holder>> \in aijobs
    /\ pc = "measure"
         => \A i \in 1..3 : <<run, i>> \in aijobs /\ stage[<<run, i>>] \in InUse

\* As long as the run met no error, its result tells how far it came.
MeasuredBy(profile, res) ==
    /\ res.fragmentation.target = 4
    /\ res.fragmentation.usable <= res.fragmentation.total
    /\ res.placedBy = {profile}

Deferred == {"collect", "evidence", "write"}

ResultTells ==
    /\ result.profile = Profile(run)
    /\ pc \in Steps \cup {"start"} => ~runErr
    /\ pc \in {"probe", "blocked", "release", "probing", "finishing"} \cup Deferred /\ ~runErr
         => MeasuredBy(Profile(run), result)
    /\ pc \in {"start", "config", "deployment", "rollout", "hold", "holding", "measure", "probe",
               "blocked"} => result.recovery = "none"
    /\ pc \in {"blocked", "release"} => Profile(run) = "baseline"
    /\ pc \in {"probing", "finishing"}
         => result.recovery = IF Profile(run) = "baseline" THEN "released" ELSE "none"
    /\ pc \in Deferred /\ ~runErr
         => /\ result.recovery = IF Profile(run) = "baseline" THEN "recovered" ELSE "none"
            /\ result.probe = "completed"

Told == HoldersPlaced /\ ResultTells /\ CompleteMeansMeasured

LEMMA ToldFrame ==
    ASSUME Told, UNCHANGED <<aijobs, stage, boundBy, pc, run, holder, result, runErr, files>>
    PROVE  Told'
BY DEF Told, HoldersPlaced, ResultTells, CompleteMeansMeasured

LEMMA OwnIn ==
    ASSUME Types
    PROVE  /\ run \in Runs
           /\ \A i \in 1..4 : <<run, i>> \in Own(run) /\ <<run, i>> \in Workloads
           /\ Own(run) \subseteq Workloads
           /\ \A i, j : <<run, i>> = <<run, j>> => i = j
<1>1. run \in Runs
  BY DEF Types, RunnerType
<1> QED BY <1>1, OwnShape

LEMMA ClusterKeepsTold ==
    ASSUME Told, Apart, SchedulerKnown, Types, Cluster
    PROVE  Told'
<1>0. /\ UNCHANGED <<pc, run, holder, result, runErr, files, aijobs>>
      /\ stage \in [Workloads -> {"none", "suspended", "pending", "unschedulable",
                                  "running", "succeeded"}]
      /\ boundBy \in [Workloads -> Configs \cup {None}]
  BY ClusterFrame DEF Types, ClusterType
<1>1. ResultTells' /\ CompleteMeansMeasured'
  BY <1>0 DEF Told, ResultTells, CompleteMeansMeasured
<1>2. ASSUME UNCHANGED <<stage, boundBy>> PROVE Told'
  BY <1>0, <1>2, ToldFrame
<1>3. ASSUME NEW w \in Workloads,
             \/ stage[w] \notin InUse /\ \E s : s \notin InUse /\ stage' = [stage EXCEPT ![w] = s]
             \/ stage[w] \in InUse /\ stage' = [stage EXCEPT ![w] = "succeeded"],
             boundBy' = boundBy
      PROVE  Told'
  <2>1. \A v \in Workloads : stage'[v] \in InUse <=> stage[v] \in InUse
    BY <1>0, <1>3 DEF InUse
  <2>2. \A i \in 1..3 : <<run, i>> \in Workloads
    BY OwnIn
  <2>3. \A v \in Own(run) : v \in Workloads
    BY OwnIn
  <2>4. HoldersPlaced'
    BY <1>0, <1>3, <2>1, <2>2, <2>3 DEF Told, HoldersPlaced
  <2> QED BY <1>1, <2>4 DEF Told
<1>4. CASE Rollout \/ SchedulerStarts \/ SchedulerRestarts \/ CacheSyncs
  <2>1. UNCHANGED <<stage, boundBy>>
    BY <1>4 DEF Rollout, SchedulerStarts, SchedulerRestarts, CacheSyncs, podVars
  <2> QED BY <1>2, <2>1
<1>5. ASSUME NEW w \in Workloads, ControllerCreates(w) \/ KueueAdmits(w) PROVE Told'
  <2>1. /\ stage[w] \in {"none", "suspended"} /\ boundBy' = boundBy
        /\ \E s \in {"suspended", "pending"} : stage' = [stage EXCEPT ![w] = s]
    BY <1>5 DEF ControllerCreates, KueueAdmits
  <2>2. {"none", "suspended", "pending"} \cap InUse = {}
    BY DEF InUse
  <2> QED BY <1>3, <2>1, <2>2
<1>6. ASSUME NEW w \in Workloads, ProbeSucceeds(w) PROVE Told'
  BY <1>3, <1>6 DEF ProbeSucceeds, InUse
<1>7. ASSUME NEW w \in Workloads, ControllerReports(w) PROVE Told'
  BY <1>2, <1>7 DEF ControllerReports, podVars
<1>8. ASSUME NEW w \in Workloads, Schedules(w) PROVE Told'
  <2>1. /\ stage[w] \in {"pending", "unschedulable"} /\ scheduler # None
        /\ \/ stage' = [stage EXCEPT ![w] = "unschedulable"] /\ boundBy' = boundBy
           \/ /\ stage' = [stage EXCEPT ![w] = "running"]
              /\ boundBy' = [boundBy EXCEPT ![w] = scheduler.config]
    BY <1>8 DEF Schedules
  <2>2. CASE stage' = [stage EXCEPT ![w] = "unschedulable"] /\ boundBy' = boundBy
    <3>1. {"pending", "unschedulable"} \cap InUse = {}
      BY DEF InUse
    <3> QED BY <1>3, <2>1, <2>2, <3>1
  <2>3. CASE /\ stage' = [stage EXCEPT ![w] = "running"]
             /\ boundBy' = [boundBy EXCEPT ![w] = scheduler.config]
    <3>1. pc \in RolledOutSteps => scheduler.config = Profile(run)
      BY <2>1 DEF SchedulerKnown, ProfileRuns
    <3>2. \A v \in Workloads : v # w => stage'[v] = stage[v] /\ boundBy'[v] = boundBy[v]
      BY <1>0, <2>3
    <3>3. stage'[w] \in InUse /\ boundBy'[w] = scheduler.config
      BY <1>0, <2>3 DEF InUse
    <3>4. \A v \in Workloads : stage[v] \in InUse => stage'[v] \in InUse
      BY <3>2, <3>3
    <3>5. pc \in RolledOutSteps
            => \A v \in Own(run) : stage'[v] \in InUse => boundBy'[v] = Profile(run)
      BY <3>1, <3>2, <3>3, OwnIn DEF Told, HoldersPlaced
    <3>6. \A i \in 1..3 : <<run, i>> \in Workloads
      BY OwnIn
    <3>7. HoldersPlaced'
      BY <1>0, <3>4, <3>5, <3>6 DEF Told, HoldersPlaced
    <3> QED BY <1>1, <3>7 DEF Told
  <2> QED BY <2>1, <2>2, <2>3
<1>9. ASSUME NEW w \in Workloads, GarbageCollect(w) PROVE Told'
  <2>1. /\ w \notin aijobs /\ stage' = [stage EXCEPT ![w] = "none"]
        /\ boundBy' = [boundBy EXCEPT ![w] = None]
    BY <1>9 DEF GarbageCollect
  <2>2. \A v \in Workloads : v # w => stage'[v] = stage[v] /\ boundBy'[v] = boundBy[v]
    BY <1>0, <2>1
  <2>3. stage'[w] \notin InUse
    BY <1>0, <2>1 DEF InUse
  <2>4. pc \in RolledOutSteps
          => \A v \in Own(run) : stage'[v] \in InUse => boundBy'[v] = Profile(run)
    BY <2>2, <2>3, OwnIn DEF Told, HoldersPlaced
  <2>5. \A i \in 1..3 : <<run, i>> \in Workloads /\ (<<run, i>> \in aijobs => <<run, i>> # w)
    BY <2>1, OwnIn
  <2>6. HoldersPlaced'
    BY <1>0, <2>2, <2>4, <2>5 DEF Told, HoldersPlaced
  <2> QED BY <1>1, <2>6 DEF Told
<1> QED BY <1>4, <1>5, <1>6, <1>7, <1>8, <1>9 DEF Cluster

LEMMA WriteCallKeepsTold ==
    ASSUME Told, Types, WriteCall
    PROVE  Told'
<1>0. /\ UNCHANGED <<stage, boundBy, run, holder, runErr, files>>
      /\ pc \in {"config", "deployment", "hold", "probe", "release"} /\ pc \in Steps
      /\ result \in Results /\ holder \in 1..3
  BY DEF WriteCall, podVars, Effect, Types, RunnerType, Steps
<1>1. /\ result' = CASE pc \in {"hold", "probe"} -> WithDefinition
                     [] pc = "release"           -> [result EXCEPT !.recovery = "released"]
                     [] OTHER                    -> result
      /\ pc' = CASE pc = "config"     -> "deployment"
                 [] pc = "deployment" -> "rollout"
                 [] pc = "hold"       -> "holding"
                 [] pc = "probe"      -> IF ProbeShouldFit(Profile(run)) THEN "probing"
                                                                         ELSE "blocked"
                 [] pc = "release"    -> "probing"
  BY DEF WriteCall
<1>2. /\ result'.profile = result.profile /\ result'.fragmentation = result.fragmentation
      /\ result'.placedBy = result.placedBy
      /\ result'.recovery = IF pc = "release" THEN "released" ELSE result.recovery
  <2>1. CASE pc \in {"hold", "probe"}
    BY <1>0, <1>1, <2>1 DEF WithDefinition, Results
  <2>2. CASE pc = "release"
    BY <1>0, <1>1, <2>2 DEF Results
  <2>3. CASE pc \in {"config", "deployment"}
    BY <1>1, <2>3
  <2> QED BY <1>0, <2>1, <2>2, <2>3
<1>3. Profile(run) \in {"baseline", "optimized"}
  BY DEF Profile
<1>4. ResultTells'
  <2>1. CASE pc \in {"config", "deployment", "hold"}
    <3>1. pc' \in {"deployment", "rollout", "holding"}
      BY <1>1, <2>1
    <3> QED BY <1>0, <1>2, <2>1, <3>1 DEF Told, ResultTells, Steps, Deferred
  <2>2. CASE pc = "probe"
    <3>1. pc' = IF Profile(run) = "optimized" THEN "probing" ELSE "blocked"
      BY <1>1, <2>2 DEF ProbeShouldFit
    <3> QED BY <1>0, <1>2, <1>3, <2>2, <3>1 DEF Told, ResultTells, Steps, Deferred, MeasuredBy
  <2>3. CASE pc = "release"
    <3>1. pc' = "probing"
      BY <1>1, <2>3
    <3> QED BY <1>0, <1>2, <2>3, <3>1 DEF Told, ResultTells, Steps, Deferred, MeasuredBy
  <2> QED BY <1>0, <2>1, <2>2, <2>3
<1>5. HoldersPlaced'
  <2>1. CASE pc \in {"config", "deployment"}
    <3>1. pc' \in {"deployment", "rollout"}
      BY <1>1, <2>1
    <3> QED BY <3>1 DEF HoldersPlaced, RolledOutSteps
  <2>2. CASE pc = "hold"
    <3>1. /\ pc' = "holding"
          /\ aijobs' = aijobs \cup {<<run, holder>>}
      BY <1>1, <2>2 DEF WriteCall, Effect, Create
    <3> QED BY <1>0, <2>2, <3>1 DEF Told, HoldersPlaced, RolledOutSteps
  <2>3. CASE pc \in {"probe", "release"}
    <3>1. pc' \in {"probing", "blocked"}
      BY <1>1, <2>3
    <3> QED BY <1>0, <2>3, <3>1 DEF Told, HoldersPlaced, RolledOutSteps
  <2> QED BY <1>0, <2>1, <2>2, <2>3
<1>6. CompleteMeansMeasured'
  BY <1>0 DEF Told, CompleteMeansMeasured
<1> QED BY <1>4, <1>5, <1>6 DEF Told

LEMMA AbortKeepsTold ==
    ASSUME Told, Types, pc \in Steps, Abort
    PROVE  Told'
<1>1. /\ pc' = "collect" /\ runErr' = TRUE /\ run' = run /\ files' = files
      /\ result' = [WithDefinition EXCEPT !.missing = TRUE]
  BY DEF Abort
<1>2. result'.profile = result.profile
  BY <1>1 DEF WithDefinition, Types, RunnerType, Results
<1>3. HoldersPlaced'
  BY <1>1 DEF HoldersPlaced, RolledOutSteps
<1>4. ResultTells'
  BY <1>1, <1>2 DEF Told, ResultTells, Steps, Deferred
<1>5. CompleteMeansMeasured'
  BY <1>1 DEF Told, CompleteMeansMeasured
<1> QED BY <1>3, <1>4, <1>5 DEF Told

\* What is measured are three holders that the profile's Scheduler placed.
LEMMA MeasureKeepsTold ==
    ASSUME Told, Types, Measure
    PROVE  Told'
<1> DEFINE measured == CalculateFragmentation(FreeGPUs(PodsOf(Own(run))), 4)
           placed == {boundBy[w] : w \in Own(run) \ {<<run, Probe>>}}
<1>1. /\ pc = "measure" /\ pc' = "probe"
      /\ result' = [result EXCEPT !.fragmentation = measured, !.placedBy = placed]
      /\ UNCHANGED <<aijobs, stage, boundBy, run, holder, runErr, files>>
  BY DEF Measure, Observed, cluster, jobVars, podVars
<1>2. measured.target = 4 /\ measured.usable <= measured.total
  BY OwnIn, MeasuredType
<1>3. placed = {Profile(run)}
  <2>1. \A w \in Own(run) \ {<<run, Probe>>} : \E i \in 1..3 : w = <<run, i>>
    <3> SUFFICES ASSUME NEW w \in Own(run), w # <<run, Probe>>
                 PROVE  \E i \in 1..3 : w = <<run, i>>
      OBVIOUS
    <3>1. PICK i \in 1..4 : w = <<run, i>>
      BY DEF Own
    <3>2. i \in 1..3
      BY <3>1 DEF Probe
    <3> QED BY <3>1, <3>2
  <2>2. \A i \in 1..3 : <<run, i>> \in Own(run) /\ boundBy[<<run, i>>] = Profile(run)
    BY <1>1, OwnIn DEF Told, HoldersPlaced, RolledOutSteps
  <2>3. <<run, 1>> \in Own(run) \ {<<run, Probe>>}
    <3>1. 1 \in 1..3 /\ Probe # 1
      BY DEF Probe
    <3>2. <<run, 1>> \in Own(run)
      BY <2>2, <3>1, Zenon
    <3> QED BY <3>1, <3>2
  <2>4. \A w \in Own(run) \ {<<run, Probe>>} : boundBy[w] = Profile(run)
    BY <2>1, <2>2
  <2> QED BY <2>3, <2>4
<1> HIDE DEF measured, placed
<1>4. /\ result'.profile = result.profile /\ result'.recovery = result.recovery
      /\ result'.fragmentation = measured /\ result'.placedBy = placed
  BY <1>1 DEF Types, RunnerType, Results
<1>5. ResultTells'
  BY <1>1, <1>2, <1>3, <1>4 DEF Told, ResultTells, Steps, Deferred, MeasuredBy
<1>6. HoldersPlaced'
  BY <1>1 DEF Told, HoldersPlaced, RolledOutSteps
<1>7. CompleteMeansMeasured'
  BY <1>1 DEF Told, CompleteMeansMeasured
<1> QED BY <1>5, <1>6, <1>7 DEF Told

LEMMA AwaitKeepsTold ==
    ASSUME Told, Apart, Types,
           AwaitRollout \/ AwaitHolder \/ AwaitUnschedulable \/ AwaitProbe \/ AwaitCompleted
    PROVE  Told'
<1>0. /\ UNCHANGED <<aijobs, stage, boundBy, run, runErr, files>>
      /\ result \in Results /\ holder \in 1..3
  BY DEF AwaitRollout, AwaitHolder, AwaitUnschedulable, AwaitProbe, AwaitCompleted,
      Observed, cluster, jobVars, podVars, Types, RunnerType
<1>1. CompleteMeansMeasured'
  BY <1>0 DEF Told, CompleteMeansMeasured
<1>2. Profile(run) \in {"baseline", "optimized"}
  BY DEF Profile
<1>3. CASE AwaitRollout
  <2>1. pc = "rollout" /\ pc' = "hold" /\ result' = result /\ holder' = 1
    BY <1>3 DEF AwaitRollout, Observed
  <2>2. \A w \in Own(run) : stage[w] \notin InUse
    BY <2>1 DEF Apart, NothingAhead, Fresh, InUse
  <2>3. \A i \in 1..3 : ~(i < holder')
    BY <2>1
  <2>4. HoldersPlaced'
    BY <1>0, <2>1, <2>2, <2>3 DEF HoldersPlaced
  <2>5. ResultTells'
    BY <1>0, <2>1 DEF Told, ResultTells, Steps, Deferred
  <2> QED BY <1>1, <2>4, <2>5 DEF Told
<1>4. CASE AwaitHolder
  <2>1. /\ pc = "holding" /\ result' = result /\ stage[<<run, holder>>] \in InUse
        /\ \/ holder < 3 /\ holder' = holder + 1 /\ pc' = "hold"
           \/ ~(holder < 3) /\ holder' = holder /\ pc' = "measure"
    BY <1>4 DEF AwaitHolder, Observed, Scheduled, InUse
  <2>2. \A i \in 1..3 : i <= holder => <<run, i>> \in aijobs /\ stage[<<run, i>>] \in InUse
    <3> SUFFICES ASSUME NEW i \in 1..3, i <= holder
                 PROVE  <<run, i>> \in aijobs /\ stage[<<run, i>>] \in InUse
      OBVIOUS
    <3>1. CASE i = holder
      BY <2>1, <3>1 DEF Told, HoldersPlaced
    <3>2. CASE i < holder
      BY <2>1, <3>2 DEF Told, HoldersPlaced
    <3> QED BY <1>0, <3>1, <3>2
  <2>3. HoldersPlaced'
    <3>1. CASE pc' = "hold"
      <4>1. \A i \in 1..3 : i < holder' => i <= holder
        BY <1>0, <2>1, <3>1
      <4> QED BY <1>0, <2>1, <2>2, <3>1, <4>1 DEF Told, HoldersPlaced, RolledOutSteps
    <3>2. CASE pc' = "measure"
      <4>1. \A i \in 1..3 : i <= holder
        BY <1>0, <2>1, <3>2
      <4> QED BY <1>0, <2>1, <2>2, <3>2, <4>1 DEF Told, HoldersPlaced, RolledOutSteps
    <3> QED BY <2>1, <3>1, <3>2
  <2>4. ResultTells'
    BY <1>0, <2>1 DEF Told, ResultTells, Steps, Deferred
  <2> QED BY <1>1, <2>3, <2>4 DEF Told
<1>5. CASE AwaitUnschedulable
  <2>1. /\ pc = "blocked" /\ pc' = "release"
        /\ result' = [result EXCEPT !.recovery = "attempted"]
    BY <1>5 DEF AwaitUnschedulable, Observed
  <2>2. /\ result'.profile = result.profile /\ result'.placedBy = result.placedBy
        /\ result'.fragmentation = result.fragmentation
    BY <1>0, <2>1 DEF Results
  <2>3. ResultTells'
    BY <1>0, <2>1, <2>2 DEF Told, ResultTells, Steps, Deferred, MeasuredBy
  <2>4. HoldersPlaced'
    BY <1>0, <2>1 DEF Told, HoldersPlaced, RolledOutSteps
  <2> QED BY <1>1, <2>3, <2>4 DEF Told
<1>6. CASE AwaitProbe
  <2>1. pc = "probing" /\ pc' = "finishing" /\ result' = result
    BY <1>6 DEF AwaitProbe, Observed
  <2>2. ResultTells'
    BY <1>0, <2>1 DEF Told, ResultTells, Steps, Deferred
  <2>3. HoldersPlaced'
    BY <1>0, <2>1 DEF Told, HoldersPlaced, RolledOutSteps
  <2> QED BY <1>1, <2>2, <2>3 DEF Told
<1>7. CASE AwaitCompleted
  <2>1. /\ pc = "finishing" /\ pc' = "collect"
        /\ result' = [result EXCEPT !.probe = "completed",
                        !.recovery = IF @ = "released" THEN "recovered" ELSE @]
    BY <1>7 DEF AwaitCompleted, Observed
  <2>2. /\ result'.profile = result.profile /\ result'.placedBy = result.placedBy
        /\ result'.fragmentation = result.fragmentation
        /\ result'.probe = "completed"
        /\ result'.recovery = IF result.recovery = "released" THEN "recovered" ELSE result.recovery
    BY <1>0, <2>1 DEF Results
  <2>3. ResultTells'
    BY <1>0, <1>2, <2>1, <2>2 DEF Told, ResultTells, Steps, Deferred, MeasuredBy
  <2>4. HoldersPlaced'
    BY <2>1 DEF HoldersPlaced, RolledOutSteps
  <2> QED BY <1>1, <2>3, <2>4 DEF Told
<1> QED BY <1>3, <1>4, <1>5, <1>6, <1>7

\* A result is marked complete only here, of a run without an error that misses
\* nothing: it has come all the way.
LEMMA WriteResultKeepsTold ==
    ASSUME Told, Types, WriteResult
    PROVE  Told'
<1>0. /\ result \in Results /\ run \in Runs /\ runErr \in BOOLEAN
      /\ files \in [Runs -> Results \cup {None}]
  BY DEF Types, RunnerType
<1>1. /\ pc = "write" /\ pc' = "delete" /\ run' = run
      /\ result' = [result EXCEPT !.complete = Completed]
      /\ files' = [files EXCEPT ![run] = result'] \/ files' = files
  BY DEF WriteResult
<1>2. /\ result'.profile = result.profile /\ result'.placedBy = result.placedBy
      /\ result'.fragmentation = result.fragmentation /\ result'.recovery = result.recovery
      /\ result'.probe = result.probe /\ result'.missing = result.missing
      /\ result'.complete <=> (~runErr /\ ~result.missing)
  BY <1>0, <1>1 DEF Results, Completed
<1>3. HoldersPlaced'
  BY <1>1 DEF HoldersPlaced, RolledOutSteps
<1>4. ResultTells'
  BY <1>1, <1>2 DEF Told, ResultTells, Steps, Deferred
<1>5. ASSUME result'.complete
      PROVE  /\ Valid(result') /\ result'.probe = "completed"
             /\ result'.placedBy = {Profile(run)}
  <2>1. ~runErr /\ ~result.missing /\ MeasuredBy(Profile(run), result)
    BY <1>1, <1>2, <1>5 DEF Told, ResultTells, Deferred
  <2>2. /\ result.recovery = IF Profile(run) = "baseline" THEN "recovered" ELSE "none"
        /\ result.probe = "completed" /\ result.profile = Profile(run)
    BY <1>1, <2>1 DEF Told, ResultTells, Deferred
  <2>3. result'.complete = ~result'.missing
    <3>1. result'.complete = TRUE /\ result'.missing = FALSE
      <4>1. result' \in Results
        BY CleanupKeepsTypes DEF Types, RunnerType
      <4>2. result'.complete \in BOOLEAN /\ result'.missing \in BOOLEAN
        BY <4>1 DEF Results
      <4> QED BY <1>2, <1>5, <2>1, <4>2
    <3> QED BY <3>1
  <2>4. Valid(result')
    BY <1>2, <2>1, <2>2, <2>3 DEF Valid, MeasuredBy
  <2> QED BY <1>2, <2>1, <2>2, <2>4 DEF MeasuredBy
<1>6. CompleteMeansMeasured'
  <2>1. CASE files' = files
    BY <2>1 DEF Told, CompleteMeansMeasured
  <2>2. CASE files' = [files EXCEPT ![run] = result']
    <3>1. \A r \in Runs : IF r = run THEN files'[r] = result' ELSE files'[r] = files[r]
      BY <1>0, <2>2
    <3> QED BY <1>5, <3>1 DEF Told, CompleteMeansMeasured
  <2> QED BY <1>1, <2>1, <2>2
<1> QED BY <1>3, <1>4, <1>6 DEF Told

LEMMA CleanupKeepsTold ==
    ASSUME Told, Types,
           Collect \/ CleanupDeletes \/ CleanupFails \/ CleanupAwaits
    PROVE  Told'
<1>1. CASE Collect
  <2>1. /\ pc \in {"collect", "evidence"} /\ pc' \in {"evidence", "write"}
        /\ UNCHANGED <<run, runErr, files>>
        /\ \E b : result' = [result EXCEPT !.missing = b]
    BY <1>1 DEF Collect
  <2>2. /\ result'.profile = result.profile /\ result'.placedBy = result.placedBy
        /\ result'.fragmentation = result.fragmentation /\ result'.recovery = result.recovery
        /\ result'.probe = result.probe
    BY <2>1 DEF Types, RunnerType, Results
  <2>3. HoldersPlaced'
    BY <2>1 DEF HoldersPlaced, RolledOutSteps
  <2>4. ResultTells'
    BY <2>1, <2>2 DEF Told, ResultTells, Steps, Deferred, MeasuredBy
  <2> QED BY <2>1, <2>3, <2>4 DEF Told, CompleteMeansMeasured
<1>2. CASE CleanupDeletes
  <2>1. pc' = "gone" /\ UNCHANGED <<run, result, runErr, files>>
    BY <1>2 DEF CleanupDeletes, outcome
  <2> QED BY <2>1 DEF Told, HoldersPlaced, ResultTells, CompleteMeansMeasured, RolledOutSteps,
                      Steps, Deferred
<1>3. CASE CleanupFails \/ CleanupAwaits
  <2>1. /\ files' = files /\ runErr' = FALSE
        /\ \/ run' = run + 1 /\ pc' = "config" /\ result' = NewResult(run + 1)
           \/ run' = run /\ pc' = "restoreConfig" /\ result' = result
    BY <1>3 DEF CleanupFails, CleanupAwaits, EndRun
  <2>2. HoldersPlaced'
    BY <2>1 DEF HoldersPlaced, RolledOutSteps
  <2>3. ResultTells'
    <3>1. CASE pc' = "config" /\ run' = run + 1 /\ result' = NewResult(run + 1)
      <4>1. result'.profile = Profile(run') /\ result'.recovery = "none"
        BY <3>1 DEF NewResult
      <4> QED BY <2>1, <3>1, <4>1 DEF ResultTells, Steps, Deferred
    <3>2. CASE pc' = "restoreConfig" /\ run' = run /\ result' = result
      BY <2>1, <3>2 DEF Told, ResultTells, Steps, Deferred
    <3> QED BY <2>1, <3>1, <3>2
  <2> QED BY <2>1, <2>2, <2>3 DEF Told, CompleteMeansMeasured
<1> QED BY <1>1, <1>2, <1>3

LEMMA EndsKeepTold ==
    ASSUME Told, Types, Start \/ Restore \/ RestoreFails
    PROVE  Told'
<1>1. /\ UNCHANGED <<run, result, runErr, files>>
      /\ \/ pc = "start" /\ pc' \in {"config", "done"}
         \/ pc \in Restoring /\ pc' \in Restoring \cup {"done"}
  BY DEF Start, Restore, RestoreFails, RestoreEffect, Restoring
<1>2. HoldersPlaced'
  BY <1>1 DEF HoldersPlaced, RolledOutSteps, Restoring
<1>3. ResultTells'
  BY <1>1 DEF Told, ResultTells, Steps, Deferred, Restoring
<1> QED BY <1>1, <1>2, <1>3 DEF Told, CompleteMeansMeasured

LEMMA AlwaysTold == Spec => []Told
<1>1. Init => Told
  <2> SUFFICES ASSUME Init PROVE Told
    OBVIOUS
  <2>1. result.profile = Profile(run) /\ result.recovery = "none"
    BY DEF Init, NewResult
  <2>2. \A r \in Runs : files[r] = None
    BY DEF Init
  <2>3. pc = "start" /\ runErr = FALSE
    BY DEF Init
  <2> QED BY <2>1, <2>2, <2>3
          DEF Told, HoldersPlaced, ResultTells, CompleteMeansMeasured, RolledOutSteps, Deferred
<1>2. Told /\ Apart /\ SchedulerKnown /\ Types /\ [Next]_vars => Told'
  <2> SUFFICES ASSUME Told, Apart, SchedulerKnown, Types, [Next]_vars PROVE Told'
    OBVIOUS
  <2>1. CASE Interrupt \/ CleanupExpires \/ UNCHANGED vars
    <3>1. UNCHANGED <<aijobs, stage, boundBy, pc, run, holder, result, runErr, files>>
      BY <2>1 DEF Interrupt, CleanupExpires, vars, runner, cluster, jobVars, podVars, progress,
          outcome
    <3> QED BY <3>1, ToldFrame
  <2>2. StepFails \/ ResponseLost => pc \in Steps /\ Abort
    BY DEF StepFails, ResponseLost, Effect, Steps
  <2> QED BY <2>1, <2>2, ClusterKeepsTold, WriteCallKeepsTold, AbortKeepsTold, MeasureKeepsTold,
             AwaitKeepsTold, WriteResultKeepsTold, CleanupKeepsTold, EndsKeepTold
          DEF Next, Runner
<1> QED BY <1>1, <1>2, AlwaysApart, AlwaysSchedulerKnown, AlwaysTypes, PTL DEF Spec

\* A result that is marked complete passes validate-results, its probe was seen
\* to complete, and the Scheduler of its own profile placed every holder,
\* whatever failed in earlier runs and however often the Scheduler restarted
\* (switchProfile, Complete in the deferred function of runOne).
THEOREM CompleteIsMeasured == Spec => []CompleteMeansMeasured
BY AlwaysTold, PTL DEF Told

-----------------------------------------------------------------------------
(* What the measurement shows, on the three Nodes of four GPUs of the lab. *)

\* What holds GPUs of a Node.
Taken(ws, n) == {w \in ws : stage[w] = "running" /\ node[w] = n}

\* The free GPUs of a Node are what the running Pods on it leave.
LEMMA FreeBesides ==
    ASSUME NEW ws, NEW n \in Nodes, NEW on, on = Taken(ws, n), IsFiniteSet(on)
    PROVE  FreeGPUs(PodsOf(ws))[n] = Remaining(Total([w \in on |-> GPUs(w)], on))
<1> DEFINE bound == {v \in ws : stage[v] \in InUse}
           record == [w \in bound |-> [name |-> w, gpus |-> GPUs(w), node |-> node[w],
                                       finished |-> stage[w] = "succeeded"]]
           requested == Requested(PodsOf(ws))
           holding == [w \in on |-> requested[record[w]]]
           gpus == [w \in on |-> GPUs(w)]
<1>1. PodsOf(ws) = {record[w] : w \in bound}
  BY DEF PodsOf, InUse
<1>2. \A w \in bound : /\ record[w].name = w /\ record[w].gpus = GPUs(w) /\ record[w].node = node[w]
                       /\ record[w].finished <=> stage[w] = "succeeded"
  OBVIOUS
<1>3. on \subseteq bound
  BY DEF InUse, Taken
<1>4. \A w \in bound : GPUs(w) \in Nat
  BY DEF GPUs
<1>5. \A w \in on : requested[record[w]] = GPUs(w)
  <2>1. \A w \in on : record[w] \in PodsOf(ws)
    BY <1>1, <1>3
  <2> HIDE DEF record
  <2> QED BY <1>2, <1>3, <2>1 DEF Requested
<1>6. {p \in PodsOf(ws) : p.node = n /\ ~p.finished} = {record[w] : w \in on}
  <2> HIDE DEF record
  <2>1. ASSUME NEW w \in bound
        PROVE  record[w].node = n /\ ~record[w].finished <=> w \in on
    <3>1. stage[w] = "running" <=> ~(stage[w] = "succeeded")
      BY DEF InUse
    <3>2. w \in ws
      OBVIOUS
    <3> QED BY <1>2, <3>1, <3>2 DEF Taken
  <2> HIDE DEF bound
  <2> QED BY <1>1, <1>3, <2>1
<1>7. FreeGPUs(PodsOf(ws))[n]
        = Remaining(Total(requested, {p \in PodsOf(ws) : p.node = n /\ ~p.finished}))
  BY DEF FreeGPUs
<1> HIDE DEF record, requested
<1>8. Total(requested, {record[w] : w \in on}) = Total(holding, on)
  <2>1. \A w \in on : requested[record[w]] \in Nat
    BY <1>3, <1>4, <1>5
  <2>2. \A v, w \in on : record[v] = record[w] => v = w
    BY <1>2, <1>3
  <2> HIDE DEF bound
  <2> QED BY <2>1, <2>2, TotalRenamed
<1>9. Total(holding, on) = Total(gpus, on)
  <2>1. \A w \in on : holding[w] \in Nat /\ holding[w] = gpus[w]
    BY <1>3, <1>4, <1>5
  <2> HIDE DEF holding, gpus
  <2> QED BY <2>1, TotalAgrees
<1> HIDE DEF gpus, holding
<1> QED BY <1>6, <1>7, <1>8, <1>9 DEF gpus

\* None, one and two holders leave four, two and none of four GPUs.
LEMMA FreeBesidesHolders ==
    ASSUME Allocatable = 4, NEW ws, NEW n \in Nodes, \A w \in Taken(ws, n) : w[2] # Probe
    PROVE  /\ Taken(ws, n) = {} => FreeGPUs(PodsOf(ws))[n] = 4
           /\ \A v : Taken(ws, n) = {v} => FreeGPUs(PodsOf(ws))[n] = 2
           /\ \A v, w : v # w /\ Taken(ws, n) = {v, w} => FreeGPUs(PodsOf(ws))[n] = 0
<1> DEFINE on == Taken(ws, n)
           gpus == [w \in on |-> GPUs(w)]
<1>1. \A w \in on : gpus[w] = 2
  BY DEF GPUs
<1>2. IsFiniteSet(on) => FreeGPUs(PodsOf(ws))[n] = Remaining(Total(gpus, on))
  BY FreeBesides
<1> HIDE DEF gpus, on
<1>3. ASSUME on = {} PROVE FreeGPUs(PodsOf(ws))[n] = 4
  <2>1. IsFiniteSet(on) /\ Total(gpus, on) = 0
    BY <1>3, TotalOfNone, FS_EmptySet
  <2> QED BY <1>2, <2>1 DEF Remaining
<1>4. ASSUME NEW v, on = {v} PROVE FreeGPUs(PodsOf(ws))[n] = 2
  <2>1. gpus[v] = 2 /\ gpus[v] \in Nat
    BY <1>1, <1>4
  <2>2. Total(gpus, {v}) = gpus[v]
    BY <2>1, TotalOfOne
  <2>3. IsFiniteSet({v})
    BY FS_Singleton
  <2>4. Remaining(2) = 2
    BY DEF Remaining
  <2> QED BY <1>2, <1>4, <2>1, <2>2, <2>3, <2>4, Zenon
<1>5. ASSUME NEW v, NEW w, v # w, on = {v, w} PROVE FreeGPUs(PodsOf(ws))[n] = 0
  <2>1. gpus[v] = 2 /\ gpus[w] = 2 /\ gpus[v] \in Nat /\ gpus[w] \in Nat
    BY <1>1, <1>5
  <2>2. Total(gpus, {v, w}) = gpus[v] + gpus[w]
    BY <1>5, <2>1, TotalOfTwo
  <2>3. IsFiniteSet({v, w})
    <3>1. IsFiniteSet({v} \cup {w}) /\ {v} \cup {w} = {v, w}
      BY FS_Singleton, FS_AddElement
    <3> QED BY <3>1
  <2>4. Remaining(gpus[v] + gpus[w]) = 0
    BY <2>1 DEF Remaining
  <2> QED BY <1>2, <1>5, <2>2, <2>3, <2>4, Zenon
<1> QED BY <1>3, <1>4, <1>5 DEF on

\* Only GPUs of the run are taken, unless it shares the Nodes.
Tenants ==
    /\ run \notin shared => \A w \in Workloads \ Own(run) : stage[w] # "running"
    /\ \A w \in Workloads : stage[w] = "succeeded" => w[2] = Probe
    /\ \A w \in Workloads : stage[w] = "running" => node[w] \in Nodes

Holding == {"hold", "holding", "measure"}
Holds(i) == stage[<<run, i>>] = "running"

\* Holders are submitted one after the other, and placed as the profile says.
HoldersApart ==
    /\ pc = "measure" => holder = 3
    /\ pc \in Holding
         => \A i \in 1..4 : i > holder \/ (i = holder /\ pc = "hold") => Fresh(<<run, i>>)
    /\ pc \in Holding /\ run \notin shared /\ Profile(run) = "baseline"
         => \A i, j \in 1..3 : i # j /\ Holds(i) /\ Holds(j)
                                 => node[<<run, i>>] # node[<<run, j>>]
    /\ pc \in Holding /\ run \notin shared /\ Profile(run) = "optimized"
         => /\ Holds(1) /\ Holds(2) => node[<<run, 1>>] = node[<<run, 2>>]
            /\ Holds(1) /\ Holds(3) => node[<<run, 1>>] # node[<<run, 3>>]

Expected(profile) ==
    [target |-> 4, total |-> 6, usable |-> IF profile = "baseline" THEN 0 ELSE 4]

ResultShows ==
    /\ pc \in {"probe", "blocked", "release", "probing", "finishing"} \cup Deferred /\ ~runErr
       /\ run \notin shared
         => result.fragmentation = Expected(Profile(run))
    /\ ProfilesToldApart

Placed == Tenants /\ HoldersApart /\ ResultShows

LEMMA TenantsFrame ==
    ASSUME Tenants, UNCHANGED <<run, shared, stage, node>>
    PROVE  Tenants'
BY DEF Tenants

\* As long as no Pod gets a Node, no more of it has to be shown.
LEMMA PlacedFrame ==
    ASSUME Placed, Types, UNCHANGED <<pc, run, holder, result, runErr, files, shared>>,
           \A w \in Workloads : Fresh(w) => Fresh(w)',
           \A w \in Workloads : stage'[w] = "running" => stage[w] = "running" /\ node'[w] = node[w],
           \A w \in Workloads : stage'[w] = "succeeded" => stage[w] = "succeeded" \/ w[2] = Probe
    PROVE  Placed'
<1>1. Tenants'
  BY DEF Placed, Tenants
<1>2. \A i \in 1..4 : <<run, i>> \in Workloads
  BY OwnIn
<1>3. \A i \in 1..4 : /\ Fresh(<<run, i>>) => Fresh(<<run, i>>)'
                      /\ Holds(i)' => Holds(i) /\ node'[<<run, i>>] = node[<<run, i>>]
  BY <1>2 DEF Holds
<1>4. HoldersApart'
  BY <1>3 DEF Placed, HoldersApart
<1>5. ResultShows'
  BY DEF Placed, ResultShows, ProfilesToldApart
<1> QED BY <1>1, <1>4, <1>5 DEF Placed

LEMMA ThreeNodes ==
    ASSUME Cardinality(Nodes) = 3
    PROVE  /\ \A a, b \in Nodes : \E n \in Nodes : n # a /\ n # b
           /\ \A a, b, c \in Nodes : a # b /\ a # c /\ b # c => Nodes = {a, b, c}
<1>1. IsFiniteSet(Nodes)
  BY NodesAssumption
<1>2. \A a, b : IsFiniteSet({a, b}) /\ Cardinality({a, b}) <= 2
  <2> SUFFICES ASSUME NEW a, NEW b PROVE IsFiniteSet({a, b}) /\ Cardinality({a, b}) <= 2
    OBVIOUS
  <2>1. IsFiniteSet({a}) /\ Cardinality({a}) = 1
    BY FS_Singleton
  <2>2. IsFiniteSet({a} \cup {b}) /\ Cardinality({a} \cup {b}) \in {1, 2}
    BY <2>1, FS_AddElement
  <2>3. {a} \cup {b} = {a, b}
    OBVIOUS
  <2> QED BY <2>2, <2>3
<1>3. ASSUME NEW a \in Nodes, NEW b \in Nodes PROVE \E n \in Nodes : n # a /\ n # b
  <2>1. ASSUME Nodes = {a, b} PROVE FALSE
    <3>1. Cardinality({a, b}) = 3
      BY <2>1, Zenon
    <3> QED BY <1>2, <3>1
  <2> QED BY <2>1
<1>4. ASSUME NEW a \in Nodes, NEW b \in Nodes, NEW c \in Nodes, a # b, a # c, b # c
      PROVE  Nodes = {a, b, c}
  <2>1. IsFiniteSet({a, b}) /\ Cardinality({a, b}) = 2
    <3>1. IsFiniteSet({a}) /\ Cardinality({a}) = 1
      BY FS_Singleton
    <3>2. {a} \cup {b} = {a, b} /\ b \notin {a}
      BY <1>4
    <3> QED BY <3>1, <3>2, FS_AddElement
  <2>2. IsFiniteSet({a, b, c}) /\ Cardinality({a, b, c}) = 3
    <3>1. {a, b} \cup {c} = {a, b, c} /\ c \notin {a, b}
      BY <1>4
    <3> QED BY <2>1, <3>1, FS_AddElement
  <2>3. {a, b, c} \in SUBSET Nodes
    OBVIOUS
  <2> QED BY <1>1, <2>2, <2>3, FS_Subset
<1> QED BY <1>3, <1>4

\* At its turn a Pod of the run is the holder last submitted, and the running
\* Pods of the run are the holders before it.
LEMMA HolderInTurn ==
    ASSUME Placed, Told, Types, pc \in Holding, NEW i \in 1..4,
           stage[<<run, i>>] \in {"pending", "unschedulable"}
    PROVE  /\ pc = "holding" /\ i = holder
           /\ \A j \in 1..4 : Holds(j) <=> j < i
<1>0. holder \in 1..3 /\ \A j \in 1..4 : <<run, j>> \in Workloads
  BY OwnIn DEF Types, RunnerType
<1>1. \A j \in 1..3 : stage[<<run, j>>] \in InUse => Holds(j)
  <2> SUFFICES ASSUME NEW j \in 1..3, stage[<<run, j>>] = "succeeded" PROVE FALSE
    BY DEF InUse, Holds
  <2>1. <<run, j>>[2] = Probe
    BY <1>0 DEF Placed, Tenants
  <2> QED BY <2>1 DEF Probe
<1>2. ~Fresh(<<run, i>>) /\ stage[<<run, i>>] \notin InUse
  BY DEF Fresh, InUse
<1>3. \A j \in 1..4 : Fresh(<<run, j>>) => ~Holds(j)
  BY DEF Fresh, Holds
<1>4. pc # "measure"
  <2> SUFFICES ASSUME pc = "measure" PROVE FALSE
    OBVIOUS
  <2>1. i = 4
    BY <1>2 DEF Told, HoldersPlaced
  <2> QED BY <1>2, <2>1 DEF Placed, HoldersApart
<1>5. \A j \in 1..3 : j < holder => stage[<<run, j>>] \in InUse
  BY <1>4 DEF Told, HoldersPlaced, Holding
<1>6. i = holder /\ pc = "holding"
  <2>1. ~(i > holder) /\ ~(i = holder /\ pc = "hold")
    BY <1>2 DEF Placed, HoldersApart
  <2>2. ~(i < holder)
    BY <1>0, <1>2, <1>5
  <2> QED BY <1>0, <1>4, <2>1, <2>2 DEF Holding
<1>7. ~Holds(i)
  BY DEF Holds
<1>8. \A j \in 1..4 : j > i => ~Holds(j)
  BY <1>3, <1>6 DEF Placed, HoldersApart
<1>9. \A j \in 1..4 : j < i => Holds(j)
  BY <1>0, <1>1, <1>5, <1>6
<1>10. \A j \in 1..4 : Holds(j) <=> j < i
  <2> SUFFICES ASSUME NEW j \in 1..4 PROVE Holds(j) <=> j < i
    OBVIOUS
  <2>1. j < i \/ j = i \/ j > i
    OBVIOUS
  <2> QED BY <1>7, <1>8, <1>9, <2>1
<1> QED BY <1>6, <1>10

\* What the holders before leave, when the run has the Nodes for itself.
LEMMA FreeInTurn ==
    ASSUME Allocatable = 4, Placed, Types, run \notin shared,
           NEW i \in 1..3, \A j \in 1..4 : Holds(j) <=> j < i, NEW n \in Nodes
    PROVE  /\ (\A j \in 1..3 : j < i => node[<<run, j>>] # n) => FreeNow[n] = 4
           /\ \A j \in 1..3 : (j < i /\ \A k \in 1..3 : k < i => (node[<<run, k>>] = n <=> k = j))
                 => FreeNow[n] = 2
           /\ i = 3 /\ node[<<run, 1>>] = n /\ node[<<run, 2>>] = n => FreeNow[n] = 0
<1> DEFINE on == Taken(Workloads, n)
<1>0. \A j \in 1..4 : <<run, j>> \in Workloads
  BY OwnIn
<1>1. \A w \in on : \E j \in 1..3 : w = <<run, j>> /\ j < i /\ node[<<run, j>>] = n
  <2> SUFFICES ASSUME NEW w \in on
               PROVE  \E j \in 1..3 : w = <<run, j>> /\ j < i /\ node[<<run, j>>] = n
    OBVIOUS
  <2>1. w \in Own(run)
    BY DEF Placed, Tenants, Taken
  <2>2. PICK j \in 1..4 : w = <<run, j>>
    BY <2>1 DEF Own
  <2>3. Holds(j) /\ node[<<run, j>>] = n
    BY <2>2 DEF Holds, Taken
  <2>4. j < i
    BY <2>3
  <2>5. j \in 1..3
    BY <2>4
  <2> QED BY <2>2, <2>3, <2>4, <2>5
<1>2. \A j \in 1..3 : j < i /\ node[<<run, j>>] = n => <<run, j>> \in on
  BY <1>0 DEF Holds, Taken
<1>3. \A w \in on : w[2] # Probe
  BY <1>1 DEF Probe
<1>4. /\ on = {} => FreeNow[n] = 4
      /\ \A v : on = {v} => FreeNow[n] = 2
      /\ \A v, w : v # w /\ on = {v, w} => FreeNow[n] = 0
  BY <1>3, FreeBesidesHolders DEF FreeNow
<1> HIDE DEF on
<1>5. ASSUME \A j \in 1..3 : j < i => node[<<run, j>>] # n PROVE FreeNow[n] = 4
  <2>1. on = {}
    BY <1>1, <1>5
  <2> QED BY <1>4, <2>1
<1>6. ASSUME NEW j \in 1..3, j < i, \A k \in 1..3 : k < i => (node[<<run, k>>] = n <=> k = j)
      PROVE  FreeNow[n] = 2
  <2>1. on = {<<run, j>>}
    <3>1. \A w \in on : w = <<run, j>>
      BY <1>1, <1>6
    <3>2. <<run, j>> \in on
      BY <1>2, <1>6
    <3> QED BY <3>1, <3>2
  <2> QED BY <1>4, <2>1
<1>7. ASSUME i = 3, node[<<run, 1>>] = n, node[<<run, 2>>] = n PROVE FreeNow[n] = 0
  <2>1. <<run, 1>> \in on /\ <<run, 2>> \in on
    BY <1>2, <1>7
  <2>2. \A w \in on : w = <<run, 1>> \/ w = <<run, 2>>
    <3> SUFFICES ASSUME NEW w \in on PROVE w = <<run, 1>> \/ w = <<run, 2>>
      OBVIOUS
    <3>1. PICK j \in 1..3 : w = <<run, j>> /\ j < i
      BY <1>1
    <3>2. j = 1 \/ j = 2
      BY <1>7, <3>1
    <3> QED BY <3>1, <3>2
  <2>3. on = {<<run, 1>>, <<run, 2>>}
    BY <2>1, <2>2
  <2>4. <<run, 1>> # <<run, 2>>
    OBVIOUS
  <2> QED BY <1>4, <2>3, <2>4
<1> QED BY <1>5, <1>6, <1>7

\* Each holder is put on an empty Node, or beside the first as long as it fits.
LEMMA HolderPut ==
    ASSUME Cardinality(Nodes) = 3, Allocatable = 4, Placed, Types, run \notin shared,
           NEW i \in 1..3, \A j \in 1..4 : Holds(j) <=> j < i,
           pc \in Holding,
           NEW pod, pod.gpus = 2, pod.preference \notin {"nvlink", "pcie"},
           pod.required \notin {"nvlink", "pcie"},
           NEW c \in Candidates(StrategyOf(Profile(run)), pod, FreeNow)
    PROVE  /\ c \in Nodes
           /\ Profile(run) = "baseline" => \A j \in 1..3 : j < i => node[<<run, j>>] # c
           /\ Profile(run) = "optimized" => /\ i = 2 => node[<<run, 1>>] = c
                                            /\ i = 3 => node[<<run, 1>>] # c
<1> DEFINE at(j) == node[<<run, j>>]
<1>1. \A j \in 1..3 : j < i => at(j) \in Nodes
  <2>1. \A j \in 1..3 : <<run, j>> \in Workloads
    BY OwnIn
  <2> QED BY <2>1 DEF Placed, Tenants, Holds
<1>2. StrategyOf(Profile(run)) = IF Profile(run) = "baseline" THEN "LeastAllocated" ELSE "MostAllocated"
  BY DEF StrategyOf, Profile
<1>3. ASSUME NEW n \in Nodes
      PROVE  /\ (\A j \in 1..3 : j < i => at(j) # n) => FreeNow[n] = 4
             /\ \A j \in 1..3 : (j < i /\ \A k \in 1..3 : k < i => (at(k) = n <=> k = j))
                   => FreeNow[n] = 2
             /\ i = 3 /\ at(1) = n /\ at(2) = n => FreeNow[n] = 0
  BY FreeInTurn
<1>4. /\ i = 3 /\ Profile(run) = "baseline" => at(1) # at(2)
      /\ i = 3 /\ Profile(run) = "optimized" => at(1) = at(2)
  BY DEF Placed, HoldersApart
<1>5. FreeNow = [n \in Nodes |-> FreeNow[n]]
  BY DEF FreeNow, FreeGPUs
<1> HIDE DEF at
<1>6. \A n \in Nodes :
        /\ i = 1 => FreeNow[n] = 4
        /\ i = 2 => FreeNow[n] = IF at(1) = n THEN 2 ELSE 4
        /\ i = 3 /\ at(1) # at(2) => FreeNow[n] = IF at(1) = n \/ at(2) = n THEN 2 ELSE 4
        /\ i = 3 /\ at(1) = at(2) => FreeNow[n] = IF at(1) = n THEN 0 ELSE 4
  <2> SUFFICES ASSUME NEW n \in Nodes
               PROVE  /\ i = 1 => FreeNow[n] = 4
                      /\ i = 2 => FreeNow[n] = IF at(1) = n THEN 2 ELSE 4
                      /\ i = 3 /\ at(1) # at(2)
                           => FreeNow[n] = IF at(1) = n \/ at(2) = n THEN 2 ELSE 4
                      /\ i = 3 /\ at(1) = at(2) => FreeNow[n] = IF at(1) = n THEN 0 ELSE 4
    OBVIOUS
  <2>1. CASE i = 1
    BY <1>3, <2>1
  <2>2. CASE i = 2
    <3>1. \A j \in 1..3 : j < i <=> j = 1
      BY <2>2
    <3>2. at(1) = n => FreeNow[n] = 2
      BY <1>3, <3>1
    <3>3. at(1) # n => FreeNow[n] = 4
      BY <1>3, <3>1
    <3> QED BY <2>2, <3>2, <3>3
  <2>3. CASE i = 3
    <3>1. \A j \in 1..3 : j < i <=> j = 1 \/ j = 2
      BY <2>3
    <3>2. at(1) = n /\ at(2) # n => FreeNow[n] = 2
      BY <1>3, <3>1
    <3>3. at(2) = n /\ at(1) # n => FreeNow[n] = 2
      BY <1>3, <3>1
    <3>4. at(1) # n /\ at(2) # n => FreeNow[n] = 4
      BY <1>3, <3>1
    <3>5. at(1) = n /\ at(2) = n => FreeNow[n] = 0
      BY <1>3, <2>3
    <3> QED BY <2>3, <3>2, <3>3, <3>4, <3>5
  <2> QED BY <2>1, <2>2, <2>3
<1>7. FreeNow \in [Nodes -> {0, 2, 4}]
  <2>1. \A n \in Nodes : FreeNow[n] \in {0, 2, 4}
    BY <1>6
  <2> QED BY <1>5, <2>1
<1>8. /\ c \in Nodes /\ FreeNow[c] # 0
      /\ Profile(run) = "baseline" /\ (\E n \in Nodes : FreeNow[n] = 4) => FreeNow[c] = 4
      /\ Profile(run) = "optimized" /\ (\E n \in Nodes : FreeNow[n] = 2) => FreeNow[c] = 2
  BY <1>2, <1>7, HalfNodePlaced
<1>9. ASSUME Profile(run) = "baseline" PROVE \A j \in 1..3 : j < i => at(j) # c
  <2>1. CASE i = 1
    BY <2>1
  <2>2. CASE i = 2
    <3>1. at(1) \in Nodes
      BY <1>1, <2>2
    <3>2. \E n \in Nodes : n # at(1)
      BY <3>1, ThreeNodes
    <3>3. FreeNow[c] = 4
      BY <1>6, <1>8, <1>9, <2>2, <3>2
    <3>4. at(1) # c
      BY <1>6, <1>8, <2>2, <3>3
    <3> QED BY <2>2, <3>4
  <2>3. CASE i = 3
    <3>1. at(1) \in Nodes /\ at(2) \in Nodes
      BY <1>1, <2>3
    <3>2. \E n \in Nodes : n # at(1) /\ n # at(2)
      BY <3>1, ThreeNodes
    <3>3. FreeNow[c] = 4
      BY <1>4, <1>6, <1>8, <1>9, <2>3, <3>2 DEF at
    <3>4. at(1) # c /\ at(2) # c
      BY <1>4, <1>6, <1>8, <1>9, <2>3, <3>3 DEF at
    <3>5. \A j \in 1..3 : j < i => j = 1 \/ j = 2
      BY <2>3
    <3> QED BY <3>4, <3>5
  <2> QED BY <2>1, <2>2, <2>3
<1>10. ASSUME Profile(run) = "optimized" PROVE (i = 2 => at(1) = c) /\ (i = 3 => at(1) # c)
  <2>1. ASSUME i = 2 PROVE at(1) = c
    <3>1. at(1) \in Nodes
      BY <1>1, <2>1
    <3>2. FreeNow[c] = 2
      BY <1>6, <1>8, <1>10, <2>1, <3>1
    <3> QED BY <1>6, <1>8, <2>1, <3>2
  <2>2. ASSUME i = 3 PROVE at(1) # c
    BY <1>4, <1>6, <1>8, <1>10, <2>2 DEF at
  <2> QED BY <2>1, <2>2
<1> QED BY <1>8, <1>9, <1>10 DEF at

\* A Pod of the run gets a Node.
LEMMA OwnPodPut ==
    ASSUME Cardinality(Nodes) = 3, Allocatable = 4, Placed, Told, SchedulerKnown, Types,
           UNCHANGED <<pc, run, holder, result, runErr, files, aijobs, stale, shared>>,
           scheduler # None, NEW i \in 1..4, stage[<<run, i>>] \in {"pending", "unschedulable"},
           stage' = [stage EXCEPT ![<<run, i>>] = "running"],
           NEW pod, pod.gpus = GPUs(<<run, i>>), pod.preference \notin {"nvlink", "pcie"},
           pod.required \notin {"nvlink", "pcie"},
           NEW c \in Candidates(StrategyOf(scheduler.config), pod, FreeNow),
           node' = [node EXCEPT ![<<run, i>>] = c]
    PROVE  Placed'
<1>0. /\ stage \in [Workloads -> {"none", "suspended", "pending", "unschedulable",
                                  "running", "succeeded"}]
      /\ node \in [Workloads -> Nodes \cup {None}] /\ holder \in 1..3
      /\ <<run, i>> \in Workloads /\ <<run, i>> \in Own(run)
  BY OwnIn DEF Types, ClusterType, RunnerType
<1>1. c \in Nodes
  BY DEF Candidates, Feasible
<1>2. /\ stage'[<<run, i>>] = "running" /\ node'[<<run, i>>] = c
      /\ \A w \in Workloads : w # <<run, i>> => stage'[w] = stage[w] /\ node'[w] = node[w]
  BY <1>0
<1>3. \A j \in 1..4 : j # i => /\ <<run, j>> \in Workloads /\ <<run, j>> # <<run, i>>
                               /\ stage'[<<run, j>>] = stage[<<run, j>>]
                               /\ node'[<<run, j>>] = node[<<run, j>>]
                               /\ Holds(j)' <=> Holds(j)
  <2> SUFFICES ASSUME NEW j \in 1..4, j # i
               PROVE  /\ <<run, j>> \in Workloads /\ <<run, j>> # <<run, i>>
                      /\ stage'[<<run, j>>] = stage[<<run, j>>]
                      /\ node'[<<run, j>>] = node[<<run, j>>]
                      /\ Holds(j)' <=> Holds(j)
    OBVIOUS
  <2>1. <<run, j>> \in Workloads /\ <<run, j>> # <<run, i>>
    BY OwnIn
  <2>2. stage'[<<run, j>>] = stage[<<run, j>>] /\ node'[<<run, j>>] = node[<<run, j>>]
    BY <1>2, <2>1
  <2>3. Holds(j)' <=> Holds(j)
    BY <2>2 DEF Holds
  <2> QED BY <2>1, <2>2, <2>3
<1>4. Tenants'
  <2>1. \A w \in Workloads \ Own(run) : stage'[w] = stage[w]
    BY <1>0, <1>2
  <2> QED BY <1>1, <1>2, <2>1 DEF Placed, Tenants
<1>5. ResultShows'
  BY DEF Placed, ResultShows, ProfilesToldApart
<1>6. CASE pc \in Holding /\ run \notin shared
  <2>1. /\ pc = "holding" /\ i = holder /\ i \in 1..3
        /\ \A j \in 1..4 : Holds(j) <=> j < i
    BY <1>0, <1>6, HolderInTurn
  <2>2. scheduler.config = Profile(run)
    BY <2>1 DEF SchedulerKnown, ProfileRuns, RolledOutSteps
  <2>3. pod.gpus = 2
    <3>1. <<run, i>>[2] # Probe
      BY <2>1 DEF Probe
    <3> QED BY <3>1 DEF GPUs
  <2>4. /\ Profile(run) = "baseline" => \A j \in 1..3 : j < i => node[<<run, j>>] # c
        /\ Profile(run) = "optimized" => /\ i = 2 => node[<<run, 1>>] = c
                                         /\ i = 3 => node[<<run, 1>>] # c
    BY <1>6, <2>1, <2>2, <2>3, HolderPut
  <2>5. \A j \in 1..4 : Holds(j)' <=> j <= i
    <3> SUFFICES ASSUME NEW j \in 1..4 PROVE Holds(j)' <=> j <= i
      OBVIOUS
    <3>1. CASE j = i
      BY <1>2, <3>1 DEF Holds
    <3>2. CASE j # i
      <4>1. j <= i <=> j < i
        BY <3>2
      <4> QED BY <1>3, <2>1, <3>2, <4>1
    <3> QED BY <3>1, <3>2
  <2>6. \A j \in 1..4 : j < i => node'[<<run, j>>] = node[<<run, j>>]
    BY <1>3
  <2>7. \A j \in 1..4 : j > holder => Fresh(<<run, j>>)'
    <3> SUFFICES ASSUME NEW j \in 1..4, j > holder PROVE Fresh(<<run, j>>)'
      OBVIOUS
    <3>1. Fresh(<<run, j>>)
      BY <2>1 DEF Placed, HoldersApart, Holding
    <3>2. j # i
      BY <1>0, <2>1
    <3> QED BY <1>3, <3>1, <3>2 DEF Fresh
  <2>8. ASSUME Profile(run) = "baseline", NEW j \in 1..3, NEW k \in 1..3, j < k, Holds(j)', Holds(k)'
        PROVE  node'[<<run, j>>] # node'[<<run, k>>]
    <3>1. k <= i /\ j < i
      BY <2>5, <2>8
    <3>2. CASE k = i
      BY <1>2, <2>4, <2>6, <2>8, <3>1, <3>2
    <3>3. CASE k < i
      BY <1>6, <2>1, <2>6, <2>8, <3>1, <3>3 DEF Placed, HoldersApart
    <3> QED BY <3>1, <3>2, <3>3
  <2>9. ASSUME Profile(run) = "baseline", NEW j \in 1..3, NEW k \in 1..3, j # k, Holds(j)', Holds(k)'
        PROVE  node'[<<run, j>>] # node'[<<run, k>>]
    <3>1. j < k \/ k < j
      BY <2>9
    <3> QED BY <2>8, <2>9, <3>1
  <2>10. ASSUME Profile(run) = "optimized", Holds(1)', Holds(2)'
         PROVE  node'[<<run, 1>>] = node'[<<run, 2>>]
    <3>1. CASE i = 2
      BY <1>2, <2>4, <2>6, <2>10, <3>1
    <3>2. CASE i = 3
      BY <1>6, <2>1, <2>6, <2>10, <3>2 DEF Placed, HoldersApart
    <3>3. 2 <= i
      BY <2>5, <2>10
    <3> QED BY <2>1, <3>1, <3>2, <3>3
  <2>11. ASSUME Profile(run) = "optimized", Holds(1)', Holds(3)'
         PROVE  node'[<<run, 1>>] # node'[<<run, 3>>]
    <3>1. i = 3
      BY <2>1, <2>5, <2>11
    <3> QED BY <1>2, <2>4, <2>6, <2>11, <3>1
  <2>12. HoldersApart'
    <3>1. pc' = "holding" /\ run' = run /\ holder' = holder
      BY <2>1
    <3> QED BY <2>7, <2>9, <2>10, <2>11, <3>1 DEF HoldersApart
  <2> QED BY <1>4, <1>5, <2>12 DEF Placed
<1>7. CASE ~(pc \in Holding /\ run \notin shared)
  <2>1. ASSUME pc \in Holding, NEW j \in 1..4, Fresh(<<run, j>>) PROVE Fresh(<<run, j>>)'
    <3>1. j # i
      BY <2>1 DEF Fresh
    <3> QED BY <1>3, <2>1, <3>1 DEF Fresh
  <2>2. HoldersApart'
    BY <1>7, <2>1 DEF Placed, HoldersApart
  <2> QED BY <1>4, <1>5, <2>2 DEF Placed
<1> QED BY <1>6, <1>7

LEMMA ClusterKeepsPlaced ==
    ASSUME Cardinality(Nodes) = 3, Allocatable = 4, Placed, Told, SchedulerKnown, Types, Cluster
    PROVE  Placed'
<1>0. /\ UNCHANGED <<pc, run, holder, result, runErr, files, aijobs>>
      /\ stage \in [Workloads -> {"none", "suspended", "pending", "unschedulable",
                                  "running", "succeeded"}]
      /\ node \in [Workloads -> Nodes \cup {None}]
  BY ClusterFrame DEF Types, ClusterType
<1>1. CASE Rollout \/ SchedulerStarts \/ SchedulerRestarts
  <2>1. UNCHANGED <<aijobs, stale, stage, node, shared>>
    BY <1>1 DEF Rollout, SchedulerStarts, SchedulerRestarts, jobVars, podVars
  <2> QED BY <1>0, <2>1, PlacedFrame DEF Fresh
<1>2. CASE CacheSyncs
  <2>1. stale' = {} /\ UNCHANGED <<aijobs, stage, node, shared>>
    BY <1>2 DEF CacheSyncs, podVars
  <2> QED BY <1>0, <2>1, PlacedFrame DEF Fresh
<1>3. ASSUME NEW w \in Workloads,
             ControllerCreates(w) \/ KueueAdmits(w) \/ ProbeSucceeds(w) \/ GarbageCollect(w)
      PROVE  Placed'
  <2>1. PICK s \in {"suspended", "pending", "succeeded", "none"} :
           stage' = [stage EXCEPT ![w] = s] /\ (s = "succeeded" => w[2] = Probe)
    BY <1>3 DEF ControllerCreates, KueueAdmits, ProbeSucceeds, GarbageCollect
  <2>2. /\ UNCHANGED <<stale, shared>>
        /\ ~Fresh(w)
        /\ node' = node \/ node' = [node EXCEPT ![w] = None]
    BY <1>3, <2>1 DEF ControllerCreates, KueueAdmits, ProbeSucceeds, GarbageCollect, jobVars, Fresh
  <2>3. \A v \in Workloads : v # w => stage'[v] = stage[v] /\ node'[v] = node[v]
    BY <1>0, <2>1, <2>2
  <2>4. stage'[w] = s
    BY <1>0, <2>1
  <2>5. \A v \in Workloads : Fresh(v) => Fresh(v)'
    BY <1>0, <2>2, <2>3 DEF Fresh
  <2>6. /\ \A v \in Workloads : stage'[v] = "running" => stage[v] = "running" /\ node'[v] = node[v]
        /\ \A v \in Workloads : stage'[v] = "succeeded" => stage[v] = "succeeded" \/ v[2] = Probe
    BY <2>1, <2>3, <2>4
  <2> QED BY <1>0, <2>2, <2>5, <2>6, PlacedFrame
<1>4. ASSUME NEW w \in Workloads, ControllerReports(w) PROVE Placed'
  <2>1. UNCHANGED <<stale, stage, node, shared>>
    BY <1>4 DEF ControllerReports, podVars
  <2> QED BY <1>0, <2>1, PlacedFrame DEF Fresh
<1>5. ASSUME NEW w \in Workloads, Schedules(w) PROVE Placed'
  <2> DEFINE pod == [gpus |-> GPUs(w), preference |-> "", required |-> ""]
             candidates == Candidates(StrategyOf(scheduler.config), pod, FreeNow)
  <2>1. /\ scheduler # None /\ stage[w] \in {"pending", "unschedulable"}
        /\ aijobs' = aijobs /\ stale' = stale
        /\ \/ stage' = [stage EXCEPT ![w] = "unschedulable"] /\ node' = node /\ shared' = shared
           \/ /\ stage' = [stage EXCEPT ![w] = "running"]
              /\ \E n \in candidates : node' = [node EXCEPT ![w] = n]
              /\ shared' = IF w[1] = run THEN shared ELSE shared \cup {run}
    BY <1>5 DEF Schedules, jobVars
  <2>2. /\ pod.gpus = GPUs(w) /\ pod.preference \notin {"nvlink", "pcie"}
        /\ pod.required \notin {"nvlink", "pcie"}
    OBVIOUS
  <2>3. candidates \subseteq Nodes
    BY DEF Candidates, Feasible
  <2>4. candidates = Candidates(StrategyOf(scheduler.config), pod, FreeNow)
    OBVIOUS
  <2> HIDE DEF pod, candidates
  <2>5. \A v \in Workloads : v # w =>
           /\ stage'[v] = stage[v]
           /\ stage' = [stage EXCEPT ![w] = "running"] => node'[v] = node[v]
    BY <1>0, <2>1
  <2>6. \A v \in Workloads : Fresh(v) => v # w /\ Fresh(v)'
    BY <2>1, <2>5 DEF Fresh
  <2>7. CASE stage' = [stage EXCEPT ![w] = "unschedulable"] /\ node' = node /\ shared' = shared
    <3>1. stage'[w] = "unschedulable"
      BY <1>0, <2>7
    <3> QED BY <1>0, <2>5, <2>6, <2>7, <3>1, PlacedFrame
  <2>8. ASSUME stage' = [stage EXCEPT ![w] = "running"],
               NEW n \in candidates, node' = [node EXCEPT ![w] = n],
               shared' = IF w[1] = run THEN shared ELSE shared \cup {run}
        PROVE  Placed'
    <3>1. CASE w[1] = run
      <4>1. run \in Runs
        BY OwnIn
      <4>2. PICK i \in 1..4 : w = <<run, i>>
        <5>1. w \in Own(run)
          BY <3>1, <4>1, OwnShape
        <5> QED BY <5>1 DEF Own
      <4>3. shared' = shared
        BY <2>8, <3>1
      <4> QED BY <1>0, <2>1, <2>2, <2>4, <2>8, <4>2, <4>3, OwnPodPut
    <3>2. CASE w[1] # run
      <4>1. shared' = shared \cup {run}
        BY <2>8, <3>2
      <4>2. stage'[w] = "running" /\ node'[w] = n /\ n \in Nodes
        BY <1>0, <2>3, <2>8
      <4>3. Tenants'
        BY <1>0, <2>5, <2>8, <4>1, <4>2 DEF Placed, Tenants
      <4>4. ResultShows'
        BY <1>0, <4>1 DEF Placed, ResultShows, ProfilesToldApart
      <4>5. \A j \in 1..4 : <<run, j>> \in Workloads
        BY OwnIn
      <4>6. HoldersApart'
        BY <1>0, <2>6, <4>1, <4>5 DEF Placed, HoldersApart
      <4> QED BY <4>3, <4>4, <4>6 DEF Placed
    <3> QED BY <3>1, <3>2
  <2> QED BY <2>1, <2>7, <2>8
<1> QED BY <1>1, <1>2, <1>3, <1>4, <1>5 DEF Cluster

\* The three holders are measured as they were put.
LEMMA MeasuredAsPut ==
    ASSUME Cardinality(Nodes) = 3, Allocatable = 4, Placed, Told, Types,
           pc = "measure", run \notin shared
    PROVE  CalculateFragmentation(FreeGPUs(PodsOf(Own(run))), 4) = Expected(Profile(run))
<1> DEFINE at(j) == node[<<run, j>>]
           free == FreeGPUs(PodsOf(Own(run)))
           on(n) == Taken(Own(run), n)
<1>0. \A j \in 1..4 : <<run, j>> \in Own(run) /\ <<run, j>> \in Workloads
  BY OwnIn
<1>1. \A j \in 1..3 : Holds(j)
  <2> SUFFICES ASSUME NEW j \in 1..3 PROVE Holds(j)
    OBVIOUS
  <2>1. stage[<<run, j>>] \in InUse
    BY DEF Told, HoldersPlaced
  <2>2. <<run, j>> \in Workloads /\ <<run, j>>[2] # Probe
    BY <1>0 DEF Probe
  <2> QED BY <2>1, <2>2 DEF Placed, Tenants, InUse, Holds
<1>2. ~Holds(4)
  <2>1. holder = 3 /\ Fresh(<<run, 4>>)
    BY DEF Placed, HoldersApart, Holding
  <2> QED BY <2>1 DEF Fresh, Holds
<1>3. at(1) \in Nodes /\ at(2) \in Nodes /\ at(3) \in Nodes
  BY <1>0, <1>1 DEF Placed, Tenants, Holds
<1>4. \A n : on(n) = {<<run, j>> : j \in {k \in 1..3 : at(k) = n}}
  <2> SUFFICES ASSUME NEW n PROVE on(n) = {<<run, j>> : j \in {k \in 1..3 : at(k) = n}}
    OBVIOUS
  <2>1. ASSUME NEW w \in on(n) PROVE \E j \in 1..3 : w = <<run, j>> /\ at(j) = n
    <3>1. PICK j \in 1..4 : w = <<run, j>>
      BY DEF Own, Taken
    <3>2. Holds(j) /\ at(j) = n
      BY <3>1 DEF Holds, Taken
    <3>3. j \in 1..3
      BY <1>2, <3>2
    <3> QED BY <3>1, <3>2, <3>3
  <2>2. ASSUME NEW j \in 1..3, at(j) = n PROVE <<run, j>> \in on(n)
    BY <1>0, <1>1, <2>2 DEF Holds, Taken
  <2> HIDE DEF on, at
  <2> QED BY <2>1, <2>2
<1>5. ASSUME NEW n \in Nodes
      PROVE  /\ on(n) = {} => free[n] = 4
             /\ \A v : on(n) = {v} => free[n] = 2
             /\ \A v, w : v # w /\ on(n) = {v, w} => free[n] = 0
  <2>1. \A w \in on(n) : w[2] # Probe
    <3> HIDE DEF on, at
    <3> QED BY <1>4 DEF Probe
  <2> QED BY <2>1, FreeBesidesHolders
<1>6. free = [n \in Nodes |-> free[n]]
  BY DEF FreeGPUs
<1> HIDE DEF at, free, on
<1>7. CASE Profile(run) = "baseline"
  <2>1. at(1) # at(2) /\ at(1) # at(3) /\ at(2) # at(3)
    BY <1>1, <1>7 DEF Placed, HoldersApart, Holding, at
  <2>2. Nodes = {at(1), at(2), at(3)}
    BY <1>3, <2>1, ThreeNodes
  <2>3. /\ on(at(1)) = {<<run, 1>>} /\ on(at(2)) = {<<run, 2>>} /\ on(at(3)) = {<<run, 3>>}
    <3>1. /\ {k \in 1..3 : at(k) = at(1)} = {1} /\ {k \in 1..3 : at(k) = at(2)} = {2}
          /\ {k \in 1..3 : at(k) = at(3)} = {3}
      BY <2>1
    <3> QED BY <1>4, <3>1
  <2>4. free[at(1)] = 2 /\ free[at(2)] = 2 /\ free[at(3)] = 2
    BY <1>3, <1>5, <2>3
  <2>5. free \in [Nodes -> {0, 2, 4}]
    <3>1. \A n \in Nodes : free[n] \in {0, 2, 4}
      BY <2>2, <2>4
    <3> QED BY <1>6, <3>1
  <2>6. CalculateFragmentation(free, 4) = [target |-> 4, total |-> 6, usable |-> 0]
    BY <2>1, <2>2, <2>4, <2>5, FragmentationOfThree
  <2> QED BY <1>7, <2>6 DEF Expected, free
<1>8. CASE Profile(run) = "optimized"
  <2>1. at(1) = at(2) /\ at(1) # at(3)
    BY <1>1, <1>8 DEF Placed, HoldersApart, Holding, at
  <2>2. PICK d \in Nodes : d # at(1) /\ d # at(3)
    BY <1>3, ThreeNodes
  <2>3. Nodes = {at(1), at(3), d}
    BY <1>3, <2>1, <2>2, ThreeNodes
  <2>4. on(at(1)) = {<<run, 1>>, <<run, 2>>} /\ on(at(3)) = {<<run, 3>>} /\ on(d) = {}
    <3>1. /\ {k \in 1..3 : at(k) = at(1)} = {1, 2} /\ {k \in 1..3 : at(k) = at(3)} = {3}
          /\ {k \in 1..3 : at(k) = d} = {}
      BY <2>1, <2>2
    <3> QED BY <1>4, <3>1
  <2>5. free[at(1)] = 0 /\ free[at(3)] = 2 /\ free[d] = 4
    <3>1. <<run, 1>> # <<run, 2>>
      OBVIOUS
    <3> QED BY <1>3, <1>5, <2>2, <2>4, <3>1
  <2>6. free \in [Nodes -> {0, 2, 4}]
    <3>1. \A n \in Nodes : free[n] \in {0, 2, 4}
      BY <2>3, <2>5
    <3> QED BY <1>6, <3>1
  <2>7. CalculateFragmentation(free, 4) = [target |-> 4, total |-> 6, usable |-> 4]
    BY <2>1, <2>2, <2>3, <2>5, <2>6, FragmentationOfThree
  <2> QED BY <1>8, <2>7 DEF Expected, free
<1> QED BY <1>7, <1>8 DEF Profile

LEMMA MeasureKeepsPlaced ==
    ASSUME Cardinality(Nodes) = 3, Allocatable = 4, Placed, Told, Types, Measure
    PROVE  Placed'
<1> DEFINE measured == CalculateFragmentation(FreeGPUs(PodsOf(Own(run))), 4)
           placed == {boundBy[w] : w \in Own(run) \ {<<run, Probe>>}}
<1>1. /\ pc = "measure" /\ pc' = "probe"
      /\ result' = [result EXCEPT !.fragmentation = measured, !.placedBy = placed]
      /\ UNCHANGED <<stage, node, run, files, shared>>
  BY DEF Measure, Observed, cluster, jobVars, podVars
<1>2. run \notin shared => measured = Expected(Profile(run))
  BY <1>1, MeasuredAsPut
<1> HIDE DEF measured, placed
<1>3. result'.fragmentation = measured
  BY <1>1 DEF Types, RunnerType, Results
<1>4. ResultShows'
  BY <1>1, <1>2, <1>3 DEF Placed, ResultShows, ProfilesToldApart
<1>5. Tenants' /\ HoldersApart'
  BY <1>1, TenantsFrame DEF Placed, HoldersApart, Holding
<1> QED BY <1>4, <1>5 DEF Placed

LEMMA CallKeepsPlaced ==
    ASSUME Placed, Told, Apart, Types,
           \/ WriteCall \/ AwaitRollout \/ AwaitHolder \/ AwaitUnschedulable \/ AwaitProbe
           \/ AwaitCompleted
    PROVE  Placed'
<1>0. /\ UNCHANGED <<stage, node, run, runErr, files, shared>>
      /\ result \in Results /\ holder \in 1..3 /\ \A i \in 1..4 : <<run, i>> \in Workloads
  BY OwnIn DEF WriteCall, AwaitRollout, AwaitHolder, AwaitUnschedulable, AwaitProbe,
      AwaitCompleted, Observed, cluster, jobVars, podVars, Types, RunnerType
<1>1. Tenants'
  BY <1>0, TenantsFrame DEF Placed
<1>2. ProfilesToldApart'
  BY <1>0 DEF Placed, ResultShows, ProfilesToldApart
<1>3. CASE WriteCall
  <2>1. /\ pc \in {"config", "deployment", "hold", "probe", "release"}
        /\ pc = "config" => pc' = "deployment"
        /\ pc = "deployment" => pc' = "rollout"
        /\ pc = "hold" => pc' = "holding"
        /\ pc = "probe" => pc' \in {"probing", "blocked"}
        /\ pc = "release" => pc' = "probing"
    BY <1>3 DEF WriteCall, Effect
  <2>2. result'.fragmentation = result.fragmentation
    BY <1>0, <1>3, <2>1 DEF WriteCall, WithDefinition, Results
  <2>3. ResultShows'
    <3>1. CASE pc \in {"config", "deployment", "hold"}
      <4>1. pc' \in {"deployment", "rollout", "holding"}
        BY <2>1, <3>1
      <4> QED BY <1>2, <4>1 DEF ResultShows, Deferred
    <3>2. CASE pc \in {"probe", "release"}
      BY <1>0, <1>2, <2>2, <3>2 DEF Placed, ResultShows
    <3> QED BY <2>1, <3>1, <3>2
  <2>4. HoldersApart'
    <3>1. CASE pc = "hold"
      <4>1. /\ pc' = "holding" /\ holder' = holder /\ stale' = stale
            /\ aijobs' = aijobs \cup {<<run, holder>>}
        BY <2>1, <1>3, <3>1 DEF WriteCall, Effect, Create
      <4>2. \A i \in 1..4 : i > holder => Fresh(<<run, i>>)'
        <5> SUFFICES ASSUME NEW i \in 1..4, i > holder PROVE Fresh(<<run, i>>)'
          OBVIOUS
        <5>1. Fresh(<<run, i>>)
          BY <3>1 DEF Placed, HoldersApart, Holding
        <5>2. <<run, i>> # <<run, holder>>
          BY <1>0
        <5> QED BY <1>0, <4>1, <5>1, <5>2 DEF Fresh
      <4> QED BY <1>0, <3>1, <4>1, <4>2 DEF Placed, HoldersApart, Holding, Holds
    <3>2. CASE pc # "hold"
      <4>1. pc' \in {"deployment", "rollout", "probing", "blocked"}
        BY <2>1, <3>2
      <4> QED BY <4>1 DEF HoldersApart, Holding
    <3> QED BY <3>1, <3>2
  <2> QED BY <1>1, <2>3, <2>4 DEF Placed
<1>4. CASE AwaitRollout
  <2>1. pc = "rollout" /\ pc' = "hold" /\ holder' = 1 /\ aijobs' = aijobs /\ stale' = stale
    BY <1>4 DEF AwaitRollout, Observed, cluster, jobVars
  <2>2. \A i \in 1..4 : Fresh(<<run, i>>)
    <3>1. \A i \in 1..4 : <<run, i>> \in Own(run)
      BY OwnIn
    <3> QED BY <2>1, <3>1 DEF Apart, NothingAhead
  <2>3. \A i \in 1..4 : Fresh(<<run, i>>)' /\ ~Holds(i)'
    BY <1>0, <2>1, <2>2 DEF Fresh, Holds
  <2>4. HoldersApart'
    BY <1>0, <2>1, <2>3 DEF HoldersApart
  <2>5. ResultShows'
    BY <1>2, <2>1 DEF ResultShows, Deferred
  <2> QED BY <1>1, <2>4, <2>5 DEF Placed
<1>5. CASE AwaitHolder
  <2>1. /\ pc = "holding" /\ aijobs' = aijobs /\ stale' = stale
        /\ \/ holder < 3 /\ holder' = holder + 1 /\ pc' = "hold"
           \/ holder = 3 /\ holder' = 3 /\ pc' = "measure"
    BY <1>0, <1>5 DEF AwaitHolder, Observed, cluster, jobVars
  <2>2. \A i \in 1..4 : i > holder => Fresh(<<run, i>>)'
    BY <1>0, <2>1 DEF Placed, HoldersApart, Holding, Fresh
  <2>3. \A i \in 1..4 : i > holder' \/ (i = holder' /\ pc' = "hold") => i > holder
    BY <1>0, <2>1
  <2>4. HoldersApart'
    BY <1>0, <2>1, <2>2, <2>3 DEF Placed, HoldersApart, Holding, Holds
  <2>5. ResultShows'
    BY <1>2, <2>1 DEF ResultShows, Deferred
  <2> QED BY <1>1, <2>4, <2>5 DEF Placed
<1>6. CASE AwaitUnschedulable \/ AwaitProbe \/ AwaitCompleted
  <2>1. /\ pc \in {"blocked", "probing", "finishing"}
        /\ pc' \in {"release", "finishing", "collect"}
    BY <1>6 DEF AwaitUnschedulable, AwaitProbe, AwaitCompleted, Observed
  <2>2. result'.fragmentation = result.fragmentation
    BY <1>0, <1>6 DEF AwaitUnschedulable, AwaitProbe, AwaitCompleted, Observed, Results
  <2>3. HoldersApart'
    BY <2>1 DEF HoldersApart, Holding
  <2>4. ResultShows'
    BY <1>0, <1>2, <2>1, <2>2 DEF Placed, ResultShows
  <2> QED BY <1>1, <2>3, <2>4 DEF Placed
<1> QED BY <1>3, <1>4, <1>5, <1>6

LEMMA AbortKeepsPlaced ==
    ASSUME Placed, pc \in Steps, Abort
    PROVE  Placed'
<1>1. /\ pc' = "collect" /\ runErr' = TRUE /\ UNCHANGED <<run, files, shared, stage, node>>
  BY DEF Abort, podVars
<1>2. Tenants'
  BY <1>1, TenantsFrame DEF Placed
<1>3. HoldersApart' /\ ResultShows'
  BY <1>1 DEF Placed, HoldersApart, Holding, ResultShows, ProfilesToldApart
<1> QED BY <1>2, <1>3 DEF Placed

\* What the file says is what was measured.
LEMMA WriteResultKeepsPlaced ==
    ASSUME Placed, Types, WriteResult
    PROVE  Placed'
<1>0. /\ result \in Results /\ run \in Runs /\ files \in [Runs -> Results \cup {None}]
  BY DEF Types, RunnerType
<1>1. /\ pc = "write" /\ pc' = "delete" /\ UNCHANGED <<run, shared, stage, node>>
      /\ result' = [result EXCEPT !.complete = Completed]
      /\ files' = [files EXCEPT ![run] = result'] \/ files' = files
  BY DEF WriteResult, cluster, podVars
<1>2. result'.fragmentation = result.fragmentation /\ (result'.complete => ~runErr)
  BY <1>0, <1>1 DEF Results, Completed
<1>3. Tenants' /\ HoldersApart'
  BY <1>1, TenantsFrame DEF Placed, HoldersApart, Holding
<1>4. result'.complete /\ run \notin shared => result'.fragmentation = Expected(Profile(run))
  BY <1>1, <1>2 DEF Placed, ResultShows, Deferred
<1>5. ProfilesToldApart'
  <2>1. CASE files' = files
    BY <1>1, <2>1 DEF Placed, ResultShows, ProfilesToldApart
  <2>2. CASE files' = [files EXCEPT ![run] = result']
    <3>1. \A r \in Runs : IF r = run THEN files'[r] = result' ELSE files'[r] = files[r]
      BY <1>0, <2>2
    <3> QED BY <1>1, <1>4, <3>1 DEF Placed, ResultShows, ProfilesToldApart, Expected
  <2> QED BY <1>1, <2>1, <2>2
<1>6. ResultShows'
  BY <1>1, <1>5 DEF ResultShows, Deferred
<1> QED BY <1>3, <1>6 DEF Placed

LEMMA CleanupKeepsPlaced ==
    ASSUME Placed, Types, Collect \/ CleanupDeletes \/ CleanupFails \/ CleanupAwaits
    PROVE  Placed'
<1>1. CASE Collect
  <2>1. /\ pc \in {"collect", "evidence"} /\ pc' \in {"evidence", "write"}
        /\ UNCHANGED <<run, runErr, files, shared, stage, node>>
        /\ \E b : result' = [result EXCEPT !.missing = b]
    BY <1>1 DEF Collect, cluster, podVars
  <2>2. result'.fragmentation = result.fragmentation
    BY <2>1 DEF Types, RunnerType, Results
  <2>3. Tenants' /\ HoldersApart'
    BY <2>1, TenantsFrame DEF Placed, HoldersApart, Holding
  <2>4. ResultShows'
    BY <2>1, <2>2 DEF Placed, ResultShows, ProfilesToldApart, Deferred
  <2> QED BY <2>3, <2>4 DEF Placed
<1>2. CASE CleanupDeletes
  <2>1. pc' = "gone" /\ UNCHANGED <<run, files, shared, stage, node>>
    BY <1>2 DEF CleanupDeletes, outcome, podVars
  <2>2. Tenants' /\ HoldersApart' /\ ResultShows'
    BY <2>1, TenantsFrame
       DEF Placed, HoldersApart, Holding, ResultShows, ProfilesToldApart, Deferred
  <2> QED BY <2>2 DEF Placed
<1>3. CASE CleanupFails \/ CleanupAwaits
  <2>1. /\ UNCHANGED <<files, stage, node>>
        /\ \/ /\ run' = run + 1 /\ run + 1 \in Runs /\ pc' = "config"
              /\ shared' = IF SharesNodes(run + 1) THEN shared \cup {run + 1} ELSE shared
           \/ run' = run /\ pc' = "restoreConfig" /\ shared' = shared
    BY <1>3 DEF CleanupFails, CleanupAwaits, EndRun, cluster, podVars
  <2>2. shared \subseteq shared' /\ pc' \in {"config", "restoreConfig"}
    BY <2>1
  <2>3. HoldersApart' /\ ResultShows'
    BY <2>1, <2>2 DEF Placed, HoldersApart, Holding, ResultShows, ProfilesToldApart, Deferred
  <2>4. Tenants'
    <3>1. CASE run' = run /\ shared' = shared
      BY <2>1, <3>1, TenantsFrame DEF Placed
    <3>2. CASE /\ run' = run + 1
               /\ shared' = IF SharesNodes(run + 1) THEN shared \cup {run + 1} ELSE shared
      <4>1. run' \notin shared' => ~SharesNodes(run')
        BY <3>2
      <4> QED BY <2>1, <4>1 DEF Placed, Tenants, SharesNodes
    <3> QED BY <2>1, <3>1, <3>2
  <2> QED BY <2>3, <2>4 DEF Placed
<1> QED BY <1>1, <1>2, <1>3

LEMMA EndsKeepPlaced ==
    ASSUME Placed, Start \/ Restore \/ RestoreFails
    PROVE  Placed'
<1>1. /\ UNCHANGED <<run, files, shared, stage, node>>
      /\ pc' \in Restoring \cup {"config", "done"}
  BY DEF Start, Restore, RestoreFails, RestoreEffect, RestoreCluster, Restoring, cluster, podVars
<1>2. Tenants' /\ HoldersApart' /\ ResultShows'
  BY <1>1, TenantsFrame
     DEF Placed, HoldersApart, Holding, ResultShows, ProfilesToldApart, Deferred, Restoring
<1> QED BY <1>2 DEF Placed

LEMMA AlwaysPlaced ==
    ASSUME Cardinality(Nodes) = 3, Allocatable = 4
    PROVE  Spec => []Placed
<1>1. Init => Placed
  <2> SUFFICES ASSUME Init PROVE Placed
    OBVIOUS
  <2>1. /\ pc = "start" /\ run = 1 /\ \A r \in Runs : files[r] = None
        /\ \A w \in Workloads : stage[w] = IF w \in aijobs THEN "running" ELSE "none"
        /\ node \in [Workloads -> Nodes \cup {None}]
        /\ \A w \in Workloads : (node[w] = None) <=> w \notin aijobs
        /\ shared = IF aijobs = {} THEN {} ELSE {1}
    BY DEF Init
  <2>2. Tenants
    <3>1. run \notin shared => aijobs = {}
      BY <2>1
    <3> QED BY <2>1, <3>1 DEF Tenants
  <2>3. HoldersApart /\ ResultShows
    BY <2>1 DEF HoldersApart, Holding, ResultShows, ProfilesToldApart, Deferred
  <2> QED BY <2>2, <2>3 DEF Placed
<1>2. Placed /\ Told /\ Apart /\ SchedulerKnown /\ Types /\ [Next]_vars => Placed'
  <2> SUFFICES ASSUME Placed, Told, Apart, SchedulerKnown, Types, [Next]_vars PROVE Placed'
    OBVIOUS
  <2>1. CASE Interrupt \/ CleanupExpires \/ UNCHANGED vars
    <3>1. UNCHANGED <<pc, run, holder, result, runErr, files, shared, aijobs, stale, stage, node>>
      BY <2>1 DEF Interrupt, CleanupExpires, vars, runner, cluster, jobVars, podVars, progress,
          outcome
    <3> QED BY <3>1, PlacedFrame DEF Fresh
  <2>2. StepFails \/ ResponseLost => pc \in Steps /\ Abort
    BY DEF StepFails, ResponseLost, Effect, Steps
  <2> QED BY <2>1, <2>2, ClusterKeepsPlaced, MeasureKeepsPlaced, CallKeepsPlaced,
             AbortKeepsPlaced, WriteResultKeepsPlaced, CleanupKeepsPlaced, EndsKeepPlaced
          DEF Next, Runner
<1> QED BY <1>1, <1>2, AlwaysTold, AlwaysApart, AlwaysSchedulerKnown, AlwaysTypes, PTL DEF Spec

\* On the three Nodes of four GPUs of the lab a complete baseline result shows six
\* free GPUs none of which the probe can use, a complete optimized one four of
\* six, for any number of runs, failures and Scheduler restarts, when no Pod of
\* others held GPUs during the run (Measure, the two profiles).
THEOREM ProfilesDiffer ==
    ASSUME Cardinality(Nodes) = 3, Allocatable = 4
    PROVE  Spec => []ProfilesToldApart
<1>1. Placed => ProfilesToldApart
  BY DEF Placed, ResultShows
<1> QED BY <1>1, AlwaysPlaced, PTL

=============================================================================
