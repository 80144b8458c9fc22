------------------------------ MODULE Placement ------------------------------
(***************************************************************************)
(* Pods of AIJobs arrive, are bound one at a time by the ai-scheduler      *)
(* under one profile, and finish.  Any mix of sizes and topology requests. *)
(***************************************************************************)
EXTENDS Scheduling

CONSTANTS
    Pods,       \* names of single-worker AIJobs
    Sizes       \* values of gpuPerWorker

ASSUME SizesAssumption == Sizes \subseteq 1..Allocatable
ASSUME PodsAssumption == IsFiniteSet(Pods)

VARIABLES
    strategy,   \* the profile the Scheduler runs
    request,    \* the requests of each Pod, as its annotations state them
    topology,   \* what the AIJob of each Pod asked for
    node,       \* the Node of each bound Pod
    phase       \* phase of each Pod

vars == <<strategy, request, topology, node, phase>>

Requests == [gpus : Nat, preference : {"", "nvlink", "pcie"}, required : {"", "nvlink", "pcie"}]
NoRequest == [gpus |-> 0, preference |-> "", required |-> ""]
AnyTopology == [preference |-> "any", required |-> "any"]

\* The Pods as FreeGPUs and the Scheduler's Node snapshot see them.
Listed == {[name |-> p, gpus |-> request[p].gpus, node |-> node[p],
            finished |-> phase[p] = "Finished"] :
              p \in {q \in Pods : phase[q] \in {"Running", "Finished"}}}

Free == FreeGPUs(Listed)

Init ==
    /\ strategy \in {"LeastAllocated", "MostAllocated"}
    /\ request = [p \in Pods |-> NoRequest]
    /\ topology = [p \in Pods |-> AnyTopology]
    /\ node = [p \in Pods |-> ""]
    /\ phase = [p \in Pods |-> "Absent"]

\* An admitted AIJob's Pod is created with the annotations of its topology.
Submit(p) ==
    /\ phase[p] = "Absent"
    /\ phase' = [phase EXCEPT ![p] = "Pending"]
    /\ \E gpus \in Sizes, t \in Topologies :
          LET annotations == SchedulingAnnotations(t) IN
          /\ topology' = [topology EXCEPT ![p] = t]
          /\ request' = [request EXCEPT ![p] =
                           [gpus |-> gpus, preference |-> annotations.preference,
                            required |-> annotations.required]]
    /\ UNCHANGED <<strategy, node>>

\* A scheduling cycle that finds a Node.
Bind(p) ==
    /\ phase[p] \in {"Pending", "Unschedulable"}
    /\ \E n \in Candidates(strategy, request[p], Free) :
          node' = [node EXCEPT ![p] = n]
    /\ phase' = [phase EXCEPT ![p] = "Running"]
    /\ UNCHANGED <<strategy, request, topology>>

\* A scheduling cycle that finds none.
FindsNoNode(p) ==
    /\ phase[p] = "Pending"
    /\ Candidates(strategy, request[p], Free) = {}
    /\ phase' = [phase EXCEPT ![p] = "Unschedulable"]
    /\ UNCHANGED <<strategy, request, topology, node>>

\* The worker ends; the Pod stays listed on its Node.
Finishes(p) ==
    /\ phase[p] = "Running"
    /\ phase' = [phase EXCEPT ![p] = "Finished"]
    /\ UNCHANGED <<strategy, request, topology, node>>

Next == \E p \in Pods : Submit(p) \/ Bind(p) \/ FindsNoNode(p) \/ Finishes(p)

Spec == Init /\ [][Next]_vars

-----------------------------------------------------------------------------

TypeOK ==
    /\ strategy \in Strategies
    /\ request \in [Pods -> Requests]
    /\ topology \in [Pods -> Topologies]
    /\ node \in [Pods -> Nodes \cup {""}]
    /\ phase \in [Pods -> {"Absent", "Pending", "Unschedulable", "Running", "Finished"}]

\* What an AIJob requires of a Node is what its Pod gets, through the
\* annotations and the plugin: NVLink only on NVLink-capable Nodes, PCIe on any
\* labelled Node, and nothing is imposed on "any" or on a rack constraint:
\* a Pod that waits finds no Node with room among those its AIJob accepts.
Accepts(t, class) ==
    CASE t.required = "nvlink" -> class = "nvlink-capable"
      [] t.required = "pcie"   -> class # ""
      [] OTHER                 -> TRUE

RequirementsHonoured ==
    \A p \in Pods : phase[p] = "Running" => Accepts(topology[p], Class[node[p]])

\* A Pod is reported unschedulable only when no Node its AIJob accepts has
\* room: a preference or a rack constraint never excludes a Node in the plugin.
OnlyRequirementsExclude ==
    [][ \A p \in Pods : phase[p] = "Pending" /\ phase'[p] = "Unschedulable" =>
           \A n \in Nodes : Free[n] < request[p].gpus \/ ~Accepts(topology[p], Class[n]) ]_vars

\* Free capacity in use never exceeds what the Node has, finished Pods included.
Bound(n) == {p \in Pods : phase[p] = "Running" /\ node[p] = n}

NoOversubscription ==
    \A n \in Nodes :
        Total([p \in Pods |-> request[p].gpus], Bound(n)) + Free[n] = Allocatable

\* Among Nodes that are equally full, a preference picks the better class:
\* no Node with the same load and a higher rank is passed over
\* (docs/tutorial.md: "other conditions being equal").
Rank(class) == CASE class = "nvlink-capable" -> 2 [] class = "pcie-only" -> 1 [] OTHER -> 0

PreferenceBreaksTies ==
    [][ \A p \in Pods : phase[p] # "Running" /\ phase'[p] = "Running"
                        /\ topology[p].preference # "any" =>
           \A n \in Feasible(request[p], Free) :
              Free[n] = Free[node'[p]] => Rank(Class[n]) <= Rank(Class[node'[p]]) ]_vars

\* With the weights of the profiles a preference moves a Pod by half a Node at
\* most: the chosen Node is at most that much emptier (fuller, when spreading)
\* than the Node the profile alone would choose.  Scores are rounded to
\* integers: on Nodes of more than 50 GPUs it can be 51 hundredths.
PreferenceIsBounded ==
    [][ \A p \in Pods : phase[p] # "Running" /\ phase'[p] = "Running" =>
           \A n \in Feasible(request[p], Free) :
              IF strategy = "MostAllocated"
              THEN 2 * Free[node'[p]] <= 2 * Free[n] + Allocatable
              ELSE 2 * Free[n] <= 2 * Free[node'[p]] + Allocatable ]_vars

\* The measured fragmentation tells whether a Pod of the target size fits:
\* usable GPUs exist exactly when a Node is feasible for it.
FragmentationPredictsFit ==
    \A target \in 1..Allocatable :
        LET fragmentation == CalculateFragmentation(Free, target) IN
        /\ fragmentation.usable <= fragmentation.total
        /\ (fragmentation.usable > 0) <=>
              (Feasible([gpus |-> target, preference |-> "", required |-> ""], Free) # {})

=============================================================================
