------------------------------ MODULE Scheduling ------------------------------
(***************************************************************************)
(* How the ai-scheduler ranks GPU Nodes and how the lab measures what is   *)
(* left: the GPUTopology plugin (internal/plugin/gputopology), the         *)
(* profiles of deploy/scheduler-profiles, schedulingAnnotations of the     *)
(* controller, and FreeGPUs and CalculateFragmentation of internal/lab.    *)
(* Pure definitions, used by Placement and BenchmarkRunner.                *)
(***************************************************************************)
EXTENDS Naturals, FiniteSetsExt

CONSTANTS
    Nodes,         \* the Nodes labelled infra.example.io/gpu-node=true
    Class,         \* their gpu-topology-class label, "" when it is missing
    Allocatable    \* simulated GPUs of a Node

ASSUME NodesAssumption ==
    /\ IsFiniteSet(Nodes)
    /\ Class \in [Nodes -> {"", "nvlink-capable", "pcie-only"}]
    /\ Allocatable \in Nat \ {0}

Strategies == {"LeastAllocated", "MostAllocated", "Default"}

Topologies == [preference : {"any", "nvlink", "pcie"},
               required : {"any", "nvlink", "pcie", "same-rack"}]

-----------------------------------------------------------------------------
(* From the AIJob to the annotations of its Pods. *)

\* Variant: the rack constraint is passed to the plugin as a class.
SchedulingAnnotationsVerbatim(topology) ==
    [preference |-> IF topology.preference = "any" THEN "" ELSE topology.preference,
     required   |-> IF topology.required = "any" THEN "" ELSE topology.required]

\* schedulingAnnotations: "any" writes no annotation, and "same-rack" writes
\* the annotation of Kueue instead of the plugin's.
SchedulingAnnotations(topology) ==
    [preference |-> IF topology.preference = "any" THEN "" ELSE topology.preference,
     required   |-> IF topology.required \in {"any", "same-rack"} THEN ""
                    ELSE topology.required]

-----------------------------------------------------------------------------
(* The plugin and the profiles. *)

\* Variant: a PCIe requirement accepts PCIe-only Nodes alone.
TopologyRequirementExact(want, class) ==
    \/ want \notin {"nvlink", "pcie"}
    \/ want = "nvlink" /\ class = "nvlink-capable"
    \/ want = "pcie" /\ class = "pcie-only"

\* Variant: the fallback class of the preference also meets the requirement.
TopologyRequirementFallback(want, class) ==
    \/ want \notin {"nvlink", "pcie"}
    \/ class \in {"nvlink-capable", "pcie-only"}

\* topologyRequirementStatus.
TopologyRequirementMet(want, class) ==
    \/ want \notin {"nvlink", "pcie"}
    \/ want = "nvlink" /\ class = "nvlink-capable"
    \/ want = "pcie" /\ class \in {"nvlink-capable", "pcie-only"}

\* Variant: only the Nodes of the very class that is preferred score.
TopologyPreferenceExact(want, class) ==
    IF \/ want = "nvlink" /\ class = "nvlink-capable"
       \/ want = "pcie" /\ class = "pcie-only"
    THEN 100 ELSE 0

\* topologyPreferenceScore.
TopologyPreferenceScore(want, class) ==
    IF want \notin {"nvlink", "pcie"} THEN 0
    ELSE IF class = "nvlink-capable" THEN 100
    ELSE IF class # "pcie-only" THEN 0
    ELSE IF want = "nvlink" THEN 50 ELSE 80

\* The scoringStrategy of NodeResourcesFit on example.com/gpu.  The normal
\* lab configuration ranks by other resources: any Node may come first.
AllocationScore(strategy, used) ==
    CASE strategy = "LeastAllocated" -> ((Allocatable - used) * 100) \div Allocatable
      [] strategy = "MostAllocated"  -> (used * 100) \div Allocatable
      [] strategy = "Default"        -> 0

\* NodeResourcesFit and GPUTopology.Filter.
Feasible(pod, free) ==
    {n \in Nodes : free[n] >= pod.gpus /\ TopologyRequirementMet(pod.required, Class[n])}

\* Variant: the plugin's weight is above that of NodeResourcesFit.
NodeScoreTopologyFirst(strategy, pod, free, n) ==
    5 * AllocationScore(strategy, Allocatable - free[n] + pod.gpus)
        + 10 * TopologyPreferenceScore(pod.preference, Class[n])

\* The weights of the benchmark profiles.
NodeScore(strategy, pod, free, n) ==
    10 * AllocationScore(strategy, Allocatable - free[n] + pod.gpus)
        + 5 * TopologyPreferenceScore(pod.preference, Class[n])

\* The Nodes the Scheduler may bind the Pod to: the best of the feasible ones.
Candidates(strategy, pod, free) ==
    LET feasible == Feasible(pod, free)
    IN  IF strategy = "Default" THEN feasible
        ELSE {n \in feasible : \A m \in feasible :
                 NodeScore(strategy, pod, free, n) >= NodeScore(strategy, pod, free, m)}

-----------------------------------------------------------------------------
(* What the lab measures. *)

\* The total of f over a finite set, as the loops over Pods and Nodes add it up.
Total(f, S) == MapThenSumSet(LAMBDA x : f[x], S)

Requested(pods) == [p \in pods |-> p.gpus]

Remaining(used) == IF used > Allocatable THEN 0 ELSE Allocatable - used

\* Variant: Pods that have finished still count.
FreeGPUsWithFinished(pods) ==
    [n \in Nodes |-> Remaining(Total(Requested(pods), {p \in pods : p.node = n}))]

\* FreeGPUs: allocatable minus the requests of bound Pods that have not
\* finished, and never below zero.
FreeGPUs(pods) ==
    [n \in Nodes |->
        Remaining(Total(Requested(pods), {p \in pods : p.node = n /\ ~p.finished}))]

\* Variant: the target is divided into the total instead of each Node.
CalculateFragmentationOfTotal(free, target) ==
    [target |-> target,
     total  |-> Total(free, Nodes),
     usable |-> IF target = 0 THEN 0 ELSE (Total(free, Nodes) \div target) * target]

\* CalculateFragmentation; the ratio is (total - usable) / total.
CalculateFragmentation(free, target) ==
    [target |-> target,
     total  |-> Total(free, Nodes),
     usable |-> IF target = 0 THEN 0
                ELSE Total([n \in Nodes |-> (free[n] \div target) * target], Nodes)]

=============================================================================
