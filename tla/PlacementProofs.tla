--------------------------- MODULE PlacementProofs ---------------------------
(***************************************************************************)
(* Theorems about Placement for every set of Nodes and Pods, every class   *)
(* and every number of GPUs.                                               *)
(***************************************************************************)
EXTENDS Placement, SchedulingProofs

-----------------------------------------------------------------------------
(* The inductive invariant. *)

GPUs == [p \in Pods |-> request[p].gpus]

\* What the Pods bound to a Node use of it.
Used(n) == Total(GPUs, Bound(n))

\* A Pod carries the annotations of what its AIJob asked for.
AnnotationsCarried ==
    \A p \in Pods : phase[p] # "Absent" =>
       /\ request[p].gpus \in Sizes
       /\ request[p].preference = SchedulingAnnotations(topology[p]).preference
       /\ request[p].required = SchedulingAnnotations(topology[p]).required

BoundToNodes == \A p \in Pods : phase[p] \in {"Running", "Finished"} => node[p] \in Nodes

NodesSuffice == \A n \in Nodes : Used(n) <= Allocatable

IInv ==
    /\ TypeOK
    /\ strategy \in {"LeastAllocated", "MostAllocated"}
    /\ AnnotationsCarried
    /\ BoundToNodes
    /\ RequirementsHonoured
    /\ NodesSuffice

-----------------------------------------------------------------------------
(* What is free is what the running Pods leave. *)

LEMMA GPUsType ==
    ASSUME TypeOK
    PROVE  \A p \in Pods : GPUs[p] \in Nat /\ GPUs[p] = request[p].gpus
BY DEF TypeOK, Requests, GPUs

LEMMA BoundIsFinite == \A n : Bound(n) \subseteq Pods /\ IsFiniteSet(Bound(n))
<1> SUFFICES ASSUME NEW n PROVE Bound(n) \subseteq Pods /\ IsFiniteSet(Bound(n))
  OBVIOUS
<1>1. Bound(n) \in SUBSET Pods
  BY DEF Bound
<1> QED BY <1>1, PodsAssumption, FS_Subset

LEMMA UsedType ==
    ASSUME TypeOK
    PROVE  \A n : Used(n) \in Nat
<1> SUFFICES ASSUME NEW n PROVE Used(n) \in Nat
  OBVIOUS
<1>1. \A p \in Bound(n) : GPUs[p] \in Nat
  BY GPUsType, BoundIsFinite
<1> QED BY <1>1, BoundIsFinite, TotalType DEF Used

LEMMA FreeIsWhatIsLeft ==
    ASSUME TypeOK
    PROVE  \A n \in Nodes : Free[n] = Remaining(Used(n))
<1> SUFFICES ASSUME NEW n \in Nodes PROVE Free[n] = Remaining(Used(n))
  OBVIOUS
<1> DEFINE record == [p \in Pods |-> [name |-> p, gpus |-> request[p].gpus, node |-> node[p],
                                      finished |-> phase[p] = "Finished"]]
           requested == Requested(Listed)
           left == [p \in Bound(n) |-> requested[record[p]]]
<1>1. \A p, q \in Pods : record[p] = record[q] => p = q
  <2>1. \A p \in Pods : record[p].name = p
    OBVIOUS
  <2> HIDE DEF record
  <2> QED BY <2>1
<1>2. Listed = {record[p] : p \in {q \in Pods : phase[q] \in {"Running", "Finished"}}}
  BY DEF Listed
<1>3. {r \in Listed : r.node = n /\ ~r.finished} = {record[p] : p \in Bound(n)}
  <2>1. \A p \in Pods : record[p].node = node[p] /\ (record[p].finished <=> phase[p] = "Finished")
    OBVIOUS
  <2> HIDE DEF record
  <2>2. ASSUME NEW r \in Listed, r.node = n, ~r.finished PROVE \E p \in Bound(n) : r = record[p]
    <3>1. PICK p \in Pods : phase[p] \in {"Running", "Finished"} /\ r = record[p]
      BY <1>2
    <3>2. p \in Bound(n)
      BY <2>1, <2>2, <3>1 DEF Bound
    <3> QED BY <3>1, <3>2
  <2>3. ASSUME NEW p \in Bound(n)
        PROVE  record[p] \in Listed /\ record[p].node = n /\ ~record[p].finished
    <3>1. p \in Pods /\ phase[p] = "Running" /\ node[p] = n
      BY DEF Bound
    <3> QED BY <1>2, <2>1, <3>1
  <2> QED BY <2>2, <2>3
<1>4. \A p \in Bound(n) : record[p] \in Listed
  BY <1>2 DEF Bound
<1>5. \A p \in Bound(n) : requested[record[p]] = GPUs[p]
  <2>1. \A p \in Bound(n) : requested[record[p]] = record[p].gpus
    BY <1>4 DEF Requested
  <2> QED BY <2>1, BoundIsFinite, GPUsType
<1>6. \A p \in Bound(n) : GPUs[p] \in Nat /\ p \in Pods
  BY GPUsType, BoundIsFinite
<1>7. Total(requested, {record[p] : p \in Bound(n)}) = Total(left, Bound(n))
  <2>1. \A p \in Bound(n) : requested[record[p]] \in Nat
    BY <1>5, <1>6
  <2>2. \A p, q \in Bound(n) : record[p] = record[q] => p = q
    BY <1>1, <1>6
  <2> HIDE DEF requested, record
  <2> QED BY <2>1, <2>2, BoundIsFinite, TotalRenamed
<1>8. Total(left, Bound(n)) = Total(GPUs, Bound(n))
  <2>1. \A p \in Bound(n) : left[p] \in Nat /\ left[p] = GPUs[p]
    BY <1>5, <1>6
  <2> HIDE DEF left
  <2> QED BY <2>1, BoundIsFinite, TotalAgrees
<1>9. Free[n] = Remaining(Total(requested, {r \in Listed : r.node = n /\ ~r.finished}))
  BY DEF Free, FreeGPUs
<1> HIDE DEF record, requested, left
<1> QED BY <1>3, <1>7, <1>8, <1>9 DEF Used

LEMMA FreeType ==
    ASSUME TypeOK
    PROVE  Free \in FreeVectors
<1>1. \A n \in Nodes : Free[n] \in 0..Allocatable
  BY FreeIsWhatIsLeft, UsedType, RemainingType
<1>2. Free = [n \in Nodes |-> Free[n]]
  BY DEF Free, FreeGPUs
<1> QED BY <1>1, <1>2 DEF FreeVectors

LEMMA RequestType ==
    ASSUME TypeOK
    PROVE  /\ \A p \in Pods : request[p] \in PodRequests
           /\ strategy \in Strategies
BY DEF TypeOK, Requests, PodRequests

-----------------------------------------------------------------------------
(* Requirements. *)

LEMMA AnnotationsType ==
    \A t \in Topologies : /\ SchedulingAnnotations(t).preference \in {"", "nvlink", "pcie"}
                          /\ SchedulingAnnotations(t).required \in {"", "nvlink", "pcie"}
BY DEF Topologies, SchedulingAnnotations

\* The plugin accepts exactly the Nodes that the AIJob accepts.
LEMMA PluginAcceptsWhatTheAIJobDoes ==
    ASSUME NEW t \in Topologies, NEW n \in Nodes
    PROVE  TopologyRequirementMet(SchedulingAnnotations(t).required, Class[n])
              <=> Accepts(t, Class[n])
<1>1. Class[n] \in {"", "nvlink-capable", "pcie-only"}
  BY NodesAssumption
<1>2. t.required \in {"any", "nvlink", "pcie", "same-rack"}
  BY DEF Topologies
<1>3. SchedulingAnnotations(t).required
         = IF t.required \in {"any", "same-rack"} THEN "" ELSE t.required
  BY DEF SchedulingAnnotations
<1> QED BY <1>1, <1>2, <1>3 DEF TopologyRequirementMet, Accepts

-----------------------------------------------------------------------------
(* The steps. *)

\* A Pod that is not bound, or no longer, leaves what is used as it was or less.
LEMMA UsedUnchanged ==
    ASSUME TypeOK, TypeOK', NEW n, Bound(n)' = Bound(n),
           \A p \in Bound(n) : request'[p] = request[p]
    PROVE  Used(n)' = Used(n)
<1>1. \A p \in Bound(n) : GPUs[p] \in Nat /\ GPUs[p] = GPUs'[p]
  BY BoundIsFinite DEF TypeOK, Requests, GPUs
<1>2. Total(GPUs, Bound(n)) = Total(GPUs', Bound(n))
  BY <1>1, BoundIsFinite, TotalAgrees
<1> QED BY <1>2 DEF Used

LEMMA SubmitKeepsIInv ==
    ASSUME IInv, NEW p \in Pods, Submit(p)
    PROVE  IInv'
<1> PICK gpus \in Sizes, t \in Topologies :
      /\ topology' = [topology EXCEPT ![p] = t]
      /\ request' = [request EXCEPT ![p] =
                       [gpus |-> gpus, preference |-> SchedulingAnnotations(t).preference,
                        required |-> SchedulingAnnotations(t).required]]
  BY DEF Submit
<1>1. phase[p] = "Absent" /\ phase' = [phase EXCEPT ![p] = "Pending"] /\ UNCHANGED <<strategy, node>>
  BY DEF Submit
<1>2. TypeOK'
  <2>1. gpus \in Nat
    BY SizesAssumption, AllocatableType
  <2>2. request' \in [Pods -> Requests]
    BY <2>1, AnnotationsType DEF IInv, TypeOK, Requests
  <2> QED BY <1>1, <2>2 DEF IInv, TypeOK
<1>3. AnnotationsCarried'
  <2> SUFFICES ASSUME NEW q \in Pods, phase'[q] # "Absent"
               PROVE  /\ request'[q].gpus \in Sizes
                      /\ request'[q].preference = SchedulingAnnotations(topology'[q]).preference
                      /\ request'[q].required = SchedulingAnnotations(topology'[q]).required
    BY DEF AnnotationsCarried
  <2>1. CASE q = p
    BY <2>1 DEF IInv, TypeOK
  <2>2. CASE q # p
    BY <1>1, <2>2 DEF IInv, TypeOK, AnnotationsCarried
  <2> QED BY <2>1, <2>2
<1>4. BoundToNodes' /\ RequirementsHonoured'
  <2>1. \A q \in Pods : phase'[q] \in {"Running", "Finished"} =>
           q # p /\ phase[q] = phase'[q] /\ node'[q] = node[q] /\ topology'[q] = topology[q]
    BY <1>1 DEF IInv, TypeOK
  <2> QED BY <2>1 DEF IInv, BoundToNodes, RequirementsHonoured
<1>5. NodesSuffice'
  <2> SUFFICES ASSUME NEW n \in Nodes PROVE Used(n)' = Used(n)
    BY DEF IInv, NodesSuffice
  <2>1. Bound(n)' = Bound(n) /\ p \notin Bound(n)
    BY <1>1 DEF IInv, TypeOK, Bound
  <2>2. \A q \in Bound(n) : request'[q] = request[q]
    BY <2>1 DEF IInv, TypeOK, Bound
  <2> QED BY <1>2, <2>1, <2>2, UsedUnchanged DEF IInv
<1> QED BY <1>1, <1>2, <1>3, <1>4, <1>5 DEF IInv

LEMMA BindKeepsIInv ==
    ASSUME IInv, NEW p \in Pods, Bind(p)
    PROVE  IInv'
<1> PICK c \in Candidates(strategy, request[p], Free) : node' = [node EXCEPT ![p] = c]
  BY DEF Bind
<1>1. /\ phase[p] \in {"Pending", "Unschedulable"}
      /\ phase' = [phase EXCEPT ![p] = "Running"]
      /\ UNCHANGED <<strategy, request, topology>>
  BY DEF Bind
<1>2. c \in Nodes /\ Free[c] >= request[p].gpus /\ TopologyRequirementMet(request[p].required, Class[c])
  <2>1. c \in Feasible(request[p], Free)
    BY CandidatesExist, FreeType, RequestType DEF IInv
  <2> QED BY <2>1 DEF Feasible
<1>3. TypeOK'
  BY <1>1, <1>2 DEF IInv, TypeOK
<1>4. AnnotationsCarried' /\ BoundToNodes'
  BY <1>1, <1>2 DEF IInv, TypeOK, AnnotationsCarried, BoundToNodes
<1>5. RequirementsHonoured'
  <2> SUFFICES ASSUME NEW q \in Pods, phase'[q] = "Running"
               PROVE  Accepts(topology[q], Class[node'[q]])
    BY <1>1 DEF RequirementsHonoured
  <2>1. CASE q = p
    <3>1. topology[p] \in Topologies
                /\ request[p].required = SchedulingAnnotations(topology[p]).required
      BY <1>1 DEF IInv, TypeOK, AnnotationsCarried
    <3>2. node'[p] = c
      BY DEF IInv, TypeOK
    <3> QED BY <1>2, <2>1, <3>1, <3>2, PluginAcceptsWhatTheAIJobDoes
  <2>2. CASE q # p
    BY <1>1, <2>2 DEF IInv, TypeOK, RequirementsHonoured
  <2> QED BY <2>1, <2>2
<1>6. NodesSuffice'
  <2> SUFFICES ASSUME NEW n \in Nodes PROVE Used(n)' <= Allocatable
    BY DEF NodesSuffice
  <2>1. GPUs' = GPUs /\ Used(n) \in Nat /\ Used(n) <= Allocatable
    BY <1>1, UsedType DEF GPUs, IInv, NodesSuffice
  <2>2. CASE n # c
    <3>1. Bound(n)' = Bound(n)
      BY <1>1, <2>2 DEF IInv, TypeOK, Bound
    <3> QED BY <2>1, <3>1 DEF Used
  <2>3. CASE n = c
    <3>1. p \notin Bound(n) /\ Bound(n)' = Bound(n) \cup {p} /\ Bound(n)' \ {p} = Bound(n)
      BY <1>1, <2>3 DEF IInv, TypeOK, Bound
    <3>2. IsFiniteSet(Bound(n)') /\ \A q \in Bound(n)' : GPUs[q] \in Nat
      BY <3>1, BoundIsFinite, FS_AddElement, GPUsType DEF IInv
    <3>3. Total(GPUs, Bound(n)') = GPUs[p] + Total(GPUs, Bound(n)' \ {p})
      BY <3>1, <3>2, TotalSplit
    <3>4. Used(n)' = request[p].gpus + Used(n)
      BY <2>1, <3>1, <3>3, GPUsType DEF Used, IInv
    <3>5. request[p].gpus <= Remaining(Used(n)) /\ request[p].gpus \in Nat
      BY <1>2, <2>3, FreeIsWhatIsLeft DEF IInv, TypeOK, Requests
    <3> QED BY <2>1, <3>4, <3>5, AllocatableType DEF Remaining
  <2> QED BY <2>2, <2>3
<1> QED BY <1>1, <1>3, <1>4, <1>5, <1>6 DEF IInv

LEMMA FindsNoNodeKeepsIInv ==
    ASSUME IInv, NEW p \in Pods, FindsNoNode(p)
    PROVE  IInv'
<1>1. /\ phase[p] = "Pending" /\ phase' = [phase EXCEPT ![p] = "Unschedulable"]
      /\ UNCHANGED <<strategy, request, topology, node>>
  BY DEF FindsNoNode
<1>2. TypeOK' /\ AnnotationsCarried' /\ BoundToNodes' /\ RequirementsHonoured'
  BY <1>1 DEF IInv, TypeOK, AnnotationsCarried, BoundToNodes, RequirementsHonoured
<1>3. \A n \in Nodes : Bound(n)' = Bound(n)
  BY <1>1 DEF IInv, TypeOK, Bound
<1>4. GPUs' = GPUs
  BY <1>1 DEF GPUs
<1> QED BY <1>1, <1>2, <1>3, <1>4 DEF IInv, NodesSuffice, Used

LEMMA FinishesKeepsIInv ==
    ASSUME IInv, NEW p \in Pods, Finishes(p)
    PROVE  IInv'
<1>1. /\ phase[p] = "Running" /\ phase' = [phase EXCEPT ![p] = "Finished"]
      /\ UNCHANGED <<strategy, request, topology, node>>
  BY DEF Finishes
<1>2. TypeOK' /\ AnnotationsCarried' /\ BoundToNodes' /\ RequirementsHonoured'
  BY <1>1 DEF IInv, TypeOK, AnnotationsCarried, BoundToNodes, RequirementsHonoured
<1>3. GPUs' = GPUs
  BY <1>1 DEF GPUs
<1>4. ASSUME NEW n \in Nodes PROVE Used(n)' <= Allocatable
  <2>1. Bound(n)' = Bound(n) \ {p}
    BY <1>1 DEF IInv, TypeOK, Bound
  <2>2. Used(n) \in Nat /\ Used(n) <= Allocatable
    BY UsedType DEF IInv, NodesSuffice
  <2>3. CASE p \notin Bound(n)
    <3>1. Bound(n)' = Bound(n)
      BY <2>1, <2>3
    <3> QED BY <1>3, <2>2, <3>1 DEF Used
  <2>4. CASE p \in Bound(n)
    <3>1. \A q \in Bound(n) : GPUs[q] \in Nat
      BY BoundIsFinite, GPUsType DEF IInv
    <3>2. Used(n) = GPUs[p] + Used(n)'
      BY <1>3, <2>1, <2>4, <3>1, BoundIsFinite, TotalSplit DEF Used
    <3>3. Total(GPUs, Bound(n) \ {p}) \in Nat
      BY <3>1, BoundIsFinite, FS_Subset, TotalType
    <3>4. Used(n)' = Total(GPUs, Bound(n) \ {p})
      BY <1>3, <2>1 DEF Used
    <3> QED BY <2>2, <2>4, <3>1, <3>2, <3>3, <3>4, AllocatableType
  <2> QED BY <2>3, <2>4
<1> QED BY <1>1, <1>2, <1>4 DEF IInv, NodesSuffice

THEOREM InductiveInvariant == Spec => []IInv
<1>1. Init => IInv
  <2> SUFFICES ASSUME Init PROVE IInv
    OBVIOUS
  <2>1. TypeOK
    BY DEF Init, TypeOK, Strategies, NoRequest, Requests, AnyTopology, Topologies
  <2>2. AnnotationsCarried /\ BoundToNodes /\ RequirementsHonoured
    BY DEF Init, AnnotationsCarried, BoundToNodes, RequirementsHonoured
  <2>3. \A n \in Nodes : Bound(n) = {}
    BY DEF Init, Bound
  <2>4. NodesSuffice
    BY <2>3, TotalOfNone, AllocatableType DEF NodesSuffice, Used
  <2> QED BY <2>1, <2>2, <2>4 DEF Init, IInv
<1>2. IInv /\ [Next]_vars => IInv'
  <2> SUFFICES ASSUME IInv, [Next]_vars PROVE IInv'
    OBVIOUS
  <2>1. CASE UNCHANGED vars
    BY <2>1 DEF vars, IInv, TypeOK, AnnotationsCarried, BoundToNodes, RequirementsHonoured,
                NodesSuffice, Used, GPUs, Bound
  <2> QED BY <2>1, SubmitKeepsIInv, BindKeepsIInv, FindsNoNodeKeepsIInv, FinishesKeepsIInv
          DEF Next
<1> QED BY <1>1, <1>2, PTL DEF Spec

-----------------------------------------------------------------------------
(* The theorems. *)

\* The values the Scheduler's and the Pods' state takes.
THEOREM TypeCorrect == Spec => []TypeOK
BY InductiveInvariant, PTL DEF IInv

\* A running Pod is on a Node of the class that its AIJob requires
\* (schedulingAnnotations, GPUTopology.Filter).
THEOREM RequirementsMet == Spec => []RequirementsHonoured
BY InductiveInvariant, PTL DEF IInv

\* On every Node the requests of the running Pods and what FreeGPUs reports add
\* up to what the Node has.
THEOREM NeverOversubscribed == Spec => []NoOversubscription
<1>1. IInv => NoOversubscription
  <2> SUFFICES ASSUME IInv, NEW n \in Nodes
               PROVE  Total([p \in Pods |-> request[p].gpus], Bound(n)) + Free[n] = Allocatable
    BY DEF NoOversubscription
  <2>1. Used(n) \in Nat /\ Used(n) <= Allocatable /\ Free[n] = Remaining(Used(n))
    BY UsedType, FreeIsWhatIsLeft DEF IInv, NodesSuffice
  <2>2. Used(n) + Free[n] = Allocatable
    BY <2>1, AllocatableType DEF Remaining
  <2> QED BY <2>2 DEF Used, GPUs
<1> QED BY <1>1, InductiveInvariant, PTL

\* CalculateFragmentation never counts more usable than free GPUs, and counts
\* some exactly when a Node has room for the target.
THEOREM FragmentationPredicts == Spec => []FragmentationPredictsFit
<1>1. IInv => FragmentationPredictsFit
  <2> SUFFICES ASSUME IInv, NEW target \in 1..Allocatable
               PROVE  LET fragmentation == CalculateFragmentation(Free, target) IN
                      /\ fragmentation.usable <= fragmentation.total
                      /\ (fragmentation.usable > 0) <=>
                            (Feasible([gpus |-> target, preference |-> "", required |-> ""],
                                      Free) # {})
    BY DEF FragmentationPredictsFit
  <2> DEFINE pod == [gpus |-> target, preference |-> "", required |-> ""]
  <2>1. target \in Nat \ {0} /\ Free \in FreeVectors
    BY FreeType, AllocatableType DEF IInv
  <2>2. \A n \in Nodes : n \in Feasible(pod, Free) <=> Free[n] >= target
    BY DEF Feasible, TopologyRequirementMet
  <2>3. Feasible(pod, Free) \subseteq Nodes
    BY DEF Feasible
  <2> HIDE DEF pod
  <2>4. /\ CalculateFragmentation(Free, target).usable <= CalculateFragmentation(Free, target).total
        /\ (CalculateFragmentation(Free, target).usable > 0) <=> (Feasible(pod, Free) # {})
    BY <2>1, <2>2, <2>3, FragmentationBounds
  <2> QED BY <2>4 DEF pod
<1> QED BY <1>1, InductiveInvariant, PTL

\* A Pod is reported unschedulable only when no Node that its AIJob accepts has
\* room: the ranking of the profiles, a preference or a rack constraint excludes
\* none (GPUTopology.Filter and Score).
THEOREM NothingElseExcludes == Spec => OnlyRequirementsExclude
<1>1. ASSUME IInv, [Next]_vars, NEW p \in Pods,
             phase[p] = "Pending", phase'[p] = "Unschedulable", NEW n \in Nodes
      PROVE  Free[n] < request[p].gpus \/ ~Accepts(topology[p], Class[n])
  <2>1. Candidates(strategy, request[p], Free) = {}
    <3>1. phase' # phase
      BY <1>1
    <3>2. PICK q \in Pods : Submit(q) \/ Bind(q) \/ FindsNoNode(q) \/ Finishes(q)
      BY <1>1, <3>1 DEF Next, vars
    <3>3. q = p
      BY <1>1, <3>2 DEF IInv, TypeOK, Submit, Bind, FindsNoNode, Finishes
    <3> QED BY <1>1, <3>2, <3>3 DEF IInv, TypeOK, Submit, Bind, FindsNoNode, Finishes
  <2>2. Feasible(request[p], Free) = {}
    BY <1>1, <2>1, CandidatesExist, FreeType, RequestType DEF IInv
  <2>3. \/ ~(Free[n] >= request[p].gpus)
        \/ ~TopologyRequirementMet(request[p].required, Class[n])
    BY <2>2 DEF Feasible
  <2>4. request[p].gpus \in Nat /\ Free[n] \in Nat
    <3>1. Free[n] \in 0..Allocatable
      BY <1>1, FreeType DEF IInv, FreeVectors
    <3>2. request[p].gpus \in Nat
      BY <1>1, RequestType DEF IInv, PodRequests
    <3> QED BY <3>1, <3>2, AllocatableType
  <2>5. /\ topology[p] \in Topologies
        /\ request[p].required = SchedulingAnnotations(topology[p]).required
    BY <1>1 DEF IInv, TypeOK, AnnotationsCarried
  <2>6. TopologyRequirementMet(request[p].required, Class[n]) <=> Accepts(topology[p], Class[n])
    BY <2>5, PluginAcceptsWhatTheAIJobDoes
  <2> QED BY <2>3, <2>4, <2>6
<1>2. IInv /\ [Next]_vars => [\A p \in Pods : phase[p] = "Pending" /\ phase'[p] = "Unschedulable" =>
           \A n \in Nodes : Free[n] < request[p].gpus \/ ~Accepts(topology[p], Class[n])]_vars
  BY <1>1
<1> QED BY <1>2, InductiveInvariant, PTL DEF Spec, OnlyRequirementsExclude

-----------------------------------------------------------------------------
(* The Node that is chosen. *)

\* A step that starts a Pod binds it to a candidate of the state before.
LEMMA StartsOnCandidate ==
    ASSUME IInv, [Next]_vars, NEW p \in Pods, phase[p] # "Running", phase'[p] = "Running"
    PROVE  /\ phase[p] \in {"Pending", "Unschedulable"}
           /\ node'[p] \in Candidates(strategy, request[p], Free)
<1>1. phase' # phase
  OBVIOUS
<1>2. PICK q \in Pods : Submit(q) \/ Bind(q) \/ FindsNoNode(q) \/ Finishes(q)
  BY <1>1 DEF Next, vars
<1>3. q = p /\ Bind(q)
  BY <1>2 DEF IInv, TypeOK, Submit, Bind, FindsNoNode, Finishes
<1>4. PICK c \in Candidates(strategy, request[p], Free) : node' = [node EXCEPT ![p] = c]
  BY <1>3 DEF Bind
<1>5. node'[p] = c
  BY <1>4 DEF IInv, TypeOK
<1>6. phase[p] \in {"Pending", "Unschedulable"}
  BY <1>3 DEF Bind
<1> QED BY <1>4, <1>5, <1>6

\* What the plugin's scores and the ranks of the classes look like together.
Graded(rank, score) ==
    \/ rank = 0 /\ score = 0
    \/ rank = 1 /\ (score = 50 \/ score = 80)
    \/ rank = 2 /\ score = 100

LEMMA GradesAgree ==
    \A ra, sa, rb, sb \in Nat : Graded(ra, sa) /\ Graded(rb, sb) /\ sa <= sb => ra <= rb
BY DEF Graded

LEMMA ClassesAreGraded ==
    ASSUME NEW want \in {"nvlink", "pcie"}, NEW class \in {"", "nvlink-capable", "pcie-only"}
    PROVE  /\ Graded(Rank(class), TopologyPreferenceScore(want, class))
           /\ Rank(class) \in Nat /\ TopologyPreferenceScore(want, class) \in Nat
<1>1. CASE class = ""
  BY <1>1 DEF TopologyPreferenceScore, Rank, Graded
<1>2. CASE class = "nvlink-capable"
  BY <1>2 DEF TopologyPreferenceScore, Rank, Graded
<1>3. CASE class = "pcie-only"
  BY <1>3 DEF TopologyPreferenceScore, Rank, Graded
<1> QED BY <1>1, <1>2, <1>3

\* A better score of the plugin is a better class, for either preference.
LEMMA ScoreRanks ==
    ASSUME NEW want \in {"nvlink", "pcie"},
           NEW a \in {"", "nvlink-capable", "pcie-only"},
           NEW b \in {"", "nvlink-capable", "pcie-only"},
           TopologyPreferenceScore(want, a) <= TopologyPreferenceScore(want, b)
    PROVE  Rank(a) <= Rank(b)
BY ClassesAreGraded, GradesAgree

\* Among Nodes that are equally full a preference picks the better class
\* (topologyPreferenceScore and the weights of the profiles).
THEOREM TiesGoToTheBetterClass == Spec => PreferenceBreaksTies
<1>1. ASSUME IInv, [Next]_vars, NEW p \in Pods,
             phase[p] # "Running", phase'[p] = "Running", topology[p].preference # "any",
             NEW n \in Feasible(request[p], Free), Free[n] = Free[node'[p]]
      PROVE  Rank(Class[n]) <= Rank(Class[node'[p]])
  <2> DEFINE c == node'[p]
             want == request[p].preference
             s(m) == 10 * AllocationScore(strategy, Allocatable - Free[m] + request[p].gpus)
             t(m) == TopologyPreferenceScore(want, Class[m])
  <2>1. c \in Candidates(strategy, request[p], Free)
    BY <1>1, StartsOnCandidate
  <2>2. /\ strategy \in {"LeastAllocated", "MostAllocated"} /\ strategy \in Strategies
        /\ request[p] \in PodRequests /\ Free \in FreeVectors
    BY <1>1, FreeType, RequestType DEF IInv
  <2>3. c \in Feasible(request[p], Free)
    BY <2>1, <2>2, CandidatesExist
  <2>4. NodeScore(strategy, request[p], Free, c) >= NodeScore(strategy, request[p], Free, n)
    BY <1>1, <2>1, <2>2 DEF Candidates
  <2>5. want \in {"nvlink", "pcie"}
    <3>1. topology[p] \in Topologies /\ phase[p] # "Absent"
      BY <1>1, StartsOnCandidate DEF IInv, TypeOK
    <3>2. want = SchedulingAnnotations(topology[p]).preference
      BY <1>1, <3>1 DEF IInv, AnnotationsCarried
    <3>3. topology[p].preference \in {"nvlink", "pcie"}
      BY <1>1, <3>1 DEF Topologies
    <3> QED BY <3>2, <3>3 DEF SchedulingAnnotations
  <2>6. n \in Nodes /\ c \in Nodes
    BY <1>1, <2>3 DEF Feasible
  <2>7. /\ Class[n] \in {"", "nvlink-capable", "pcie-only"}
        /\ Class[c] \in {"", "nvlink-capable", "pcie-only"}
    BY <2>6, NodesAssumption
  <2>8. s(c) = s(n)
    BY <1>1
  <2>9. s(n) \in Nat /\ t(n) \in Nat /\ t(c) \in Nat
    BY <1>1, <2>2, FeasibleNodes, AllocationScoreBounds, PreferenceScoreType
  <2>10. s(c) + 5 * t(c) >= s(n) + 5 * t(n)
    BY <2>4 DEF NodeScore
  <2>11. t(n) <= t(c)
    <3> HIDE DEF s, t
    <3> QED BY <2>8, <2>9, <2>10
  <2> QED BY <2>5, <2>7, <2>11, ScoreRanks
<1>2. IInv /\ [Next]_vars =>
        [\A p \in Pods : phase[p] # "Running" /\ phase'[p] = "Running"
                         /\ topology[p].preference # "any" =>
            \A n \in Feasible(request[p], Free) :
               Free[n] = Free[node'[p]] => Rank(Class[n]) <= Rank(Class[node'[p]])]_vars
  BY <1>1
<1> QED BY <1>2, InductiveInvariant, PTL DEF Spec, PreferenceBreaksTies

\* With the weights of the profiles a preference moves a Pod by half a Node at
\* most.  The scores are integers, so the exact bound is below 51 hundredths of
\* a Node (CandidateLoad): that is half a Node for Nodes of up to 50 GPUs, far
\* above the four of the lab and any real one.
THEOREM PreferenceMovesHalfANode ==
    ASSUME Allocatable <= 50
    PROVE  Spec => PreferenceIsBounded
<1>1. ASSUME IInv, [Next]_vars, NEW p \in Pods, phase[p] # "Running", phase'[p] = "Running",
             NEW n \in Feasible(request[p], Free)
      PROVE  IF strategy = "MostAllocated"
             THEN 2 * Free[node'[p]] <= 2 * Free[n] + Allocatable
             ELSE 2 * Free[n] <= 2 * Free[node'[p]] + Allocatable
  <2> DEFINE c == node'[p]
  <2>1. c \in Candidates(strategy, request[p], Free)
    BY <1>1, StartsOnCandidate
  <2>2. /\ strategy \in {"LeastAllocated", "MostAllocated"} /\ strategy \in Strategies
        /\ request[p] \in PodRequests /\ Free \in FreeVectors
    BY <1>1, FreeType, RequestType DEF IInv
  <2>3. c \in Feasible(request[p], Free)
    BY <2>1, <2>2, CandidatesExist
  <2>4. Free[n] \in Nat /\ Free[c] \in Nat /\ Allocatable \in Nat
    BY <1>1, <2>2, <2>3, FeasibleNodes, AllocatableType
  <2>5. IF strategy = "MostAllocated"
        THEN 100 * Free[c] < 100 * Free[n] + 51 * Allocatable
        ELSE 100 * Free[n] < 100 * Free[c] + 51 * Allocatable
    <3> HIDE DEF c
    <3> QED BY <1>1, <2>1, <2>2, CandidateLoad
  <2> HIDE DEF c
  <2>6. \A x, y, a \in Nat : a <= 50 /\ 100 * x < 100 * y + 51 * a => 2 * x <= 2 * y + a
    OBVIOUS
  <2> QED BY <2>4, <2>5, <2>6 DEF c
<1>2. IInv /\ [Next]_vars =>
        [\A p \in Pods : phase[p] # "Running" /\ phase'[p] = "Running" =>
            \A n \in Feasible(request[p], Free) :
               IF strategy = "MostAllocated"
               THEN 2 * Free[node'[p]] <= 2 * Free[n] + Allocatable
               ELSE 2 * Free[n] <= 2 * Free[node'[p]] + Allocatable]_vars
  BY <1>1
<1> QED BY <1>2, InductiveInvariant, PTL DEF Spec, PreferenceIsBounded

=============================================================================
