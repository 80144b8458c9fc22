-------------------------- MODULE DevicePluginProofs --------------------------
(***************************************************************************)
(* Theorems about DevicePlugin for every set of flags and every number of  *)
(* disturbances.                                                           *)
(***************************************************************************)
EXTENDS DevicePlugin, TLAPS

-----------------------------------------------------------------------------
(* The inductive invariant. *)

\* Only a process that has bound the socket and not yet ended serves it.
SocketIsServed == socket = "ours" => pc \in {"register", "serve"}

\* A kubelet that is down has no endpoint.
DownKubeletForgets == ~up => endpoint = "none"

\* Until something is disturbed nobody is asked to end, the kubelet is up and
\* knows the process that serves or none, and what it asks for is still there.
Undisturbed ==
    disturbances = 0 =>
        /\ up
        /\ ~sigterm
        /\ endpoint # "lost"
        /\ endpoint # "streaming" => listed = 0
        /\ pc # "serve" => endpoint = "none"
        /\ pc \in {"register", "serve"} => socket = "ours"
        /\ request # {} => pc = "serve" /\ request \subseteq DeviceIDs(count)

IInv == TypeOK /\ AdvertisedAreServed /\ SocketIsServed /\ DownKubeletForgets
             /\ Undisturbed

-----------------------------------------------------------------------------
(* The counts, and the end of the process. *)

LEMMA DeviceCountType == \A n \in Flags : DeviceCount(n) \in Nat
BY DevicePluginAssumption DEF DeviceCount

\* The kubelet can ask for a device only when the Node advertises one.
LEMMA NoDevicesNoRequest ==
    ASSUME NEW n \in Nat, NEW ids \in SUBSET DeviceIDs(n), ids # {}
    PROVE  n > 0
<1> PICK i \in ids : i \in DeviceIDs(n)
  OBVIOUS
<1> QED BY DEF DeviceIDs

LEMMA DisturbCounts ==
    ASSUME TypeOK, Disturb
    PROVE  disturbances' \in 1..MaxDisturbances
BY DevicePluginAssumption DEF TypeOK, Disturb

\* Whatever ends the process, its stream is broken after it; if nothing was ever
\* disturbed, there was neither a stream nor a request for it to lose.
LEMMA EndsKeepsIInv ==
    ASSUME IInv, NEW file \in {"absent", "stale"}, Ends(file),
           disturbances' \in 0..MaxDisturbances,
           disturbances' = 0 => disturbances = 0 /\ request = {} /\ endpoint = "none",
           disturbances' >= disturbances
    PROVE  IInv'
<1>1. TypeOK'
  BY DEF IInv, TypeOK, Ends, allocation
<1>2. AdvertisedAreServed'
  BY DEF IInv, TypeOK, Ends, AdvertisedAreServed
<1>3. SocketIsServed' /\ DownKubeletForgets'
  BY DEF IInv, Ends, SocketIsServed, DownKubeletForgets
<1>4. Undisturbed'
  BY DEF IInv, Undisturbed, Ends, allocation
<1> QED BY <1>1, <1>2, <1>3, <1>4 DEF IInv

-----------------------------------------------------------------------------
(* The steps. *)

LEMMA ProcessKeepsIInv ==
    ASSUME IInv, StartProcess \/ Prepare \/ Listen \/ Register
    PROVE  IInv'
<1> USE DEF IInv, TypeOK, AdvertisedAreServed, SocketIsServed, DownKubeletForgets,
            Undisturbed, Listening, process, kubelet, allocation
<1>1. ASSUME Returns, UNCHANGED disturbances, pc \in {"start", "listen"}
      PROVE  IInv'
  <2> HIDE DEF IInv
  <2>1. disturbances' = 0 => disturbances = 0 /\ request = {} /\ endpoint = "none"
    BY <1>1 DEF IInv
  <2>2. disturbances' \in 0..MaxDisturbances /\ disturbances' >= disturbances
    BY <1>1 DEF IInv
  <2> QED BY <1>1, <2>1, <2>2, EndsKeepsIInv DEF Returns
<1>2. CASE StartProcess
  BY <1>2 DEF StartProcess
<1>3. CASE Prepare
  <2>1. CASE ~Returns
    <3>1. count' \in Nat
      BY <1>3, <2>1, DeviceCountType DEF Prepare
    <3>2. /\ pc = "start" /\ pc' = "listen" /\ socket' = "absent"
          /\ UNCHANGED <<flag, sigterm, wiped, up, endpoint, listed, request, answer, disturbances>>
      BY <1>3, <2>1 DEF Prepare
    <3> QED BY <3>1, <3>2
  <2> QED BY <1>1, <1>3, <2>1 DEF Prepare
<1>4. CASE Listen
  <2>1. CASE ~Returns
    BY <1>4, <2>1 DEF Listen
  <2> QED BY <1>1, <1>4, <2>1 DEF Listen
<1>5. CASE Register
  BY <1>5 DEF Register
<1> QED BY <1>2, <1>3, <1>4, <1>5

LEMMA EndingKeepsIInv ==
    ASSUME IInv, RegisterFails \/ Stops \/ Killed
    PROVE  IInv'
<1>1. CASE Disturb /\ \E file \in {"absent", "stale"} : Ends(file)
  <2> PICK file \in {"absent", "stale"} : Ends(file)
    BY <1>1
  <2>1. disturbances' \in 1..MaxDisturbances /\ disturbances' >= disturbances
    BY <1>1, DisturbCounts DEF IInv, TypeOK, Disturb
  <2> QED BY <2>1, EndsKeepsIInv
<1>2. CASE (~up \/ sigterm) /\ UNCHANGED disturbances /\ Returns
  <2>1. disturbances \in 1..MaxDisturbances
    BY <1>2 DEF IInv, TypeOK, Undisturbed
  <2> QED BY <1>2, <2>1, EndsKeepsIInv DEF Returns
<1>3. CASE RegisterFails /\ Disturb /\ ~Returns
  <2>1. disturbances' \in 1..MaxDisturbances
    BY <1>3, DisturbCounts DEF IInv
  <2>2. /\ up /\ pc' = "down" /\ count' = 0 /\ socket' = "absent"
        /\ endpoint' = "connecting"
        /\ UNCHANGED <<flag, sigterm, wiped, up, listed, request, answer>>
    <3> HIDE DEF Returns
    <3> QED BY <1>3 DEF RegisterFails, allocation
  <2>3. TypeOK'
    BY <2>1, <2>2 DEF IInv, TypeOK
  <2>4. AdvertisedAreServed' /\ SocketIsServed' /\ DownKubeletForgets'
    BY <2>1, <2>2 DEF AdvertisedAreServed, SocketIsServed, DownKubeletForgets
  <2>5. Undisturbed'
    BY <2>1 DEF Undisturbed
  <2> QED BY <2>3, <2>4, <2>5 DEF IInv
<1> QED BY <1>1, <1>2, <1>3 DEF RegisterFails, Stops, Killed, Returns

LEMMA KubeletKeepsIInv ==
    ASSUME IInv, Allocate \/ Redeploy \/ KubeletConnects \/ KubeletNotices
                   \/ KubeletAllocates \/ Unanswered \/ KubeletStops \/ KubeletStarts
    PROVE  IInv'
<1> USE DEF IInv, TypeOK, AdvertisedAreServed, SocketIsServed, DownKubeletForgets,
            Undisturbed, Listening, process, kubelet, allocation
<1>1. CASE Allocate
  BY <1>1 DEF Allocate
<1>2. CASE Redeploy
  <2>1. disturbances' \in 1..MaxDisturbances
    BY <1>2, DisturbCounts DEF Redeploy
  <2>2. flag' \in Flags /\ sigterm' = TRUE
        /\ UNCHANGED <<pc, count, socket, wiped, up, endpoint, listed, request, answer>>
    BY <1>2 DEF Redeploy
  <2> QED BY <2>1, <2>2
<1>3. CASE KubeletConnects
  <2>1. /\ endpoint = "connecting"
        /\ \/ Listening /\ endpoint' = "streaming" /\ listed' = count
           \/ ~Listening /\ endpoint' = "none" /\ listed' = 0
        /\ UNCHANGED <<flag, pc, count, sigterm, socket, wiped, up, request, answer, disturbances>>
    BY <1>3 DEF KubeletConnects, Announced
  <2> QED BY <2>1
<1>4. CASE KubeletNotices
  BY <1>4 DEF KubeletNotices
<1>5. CASE KubeletAllocates
  <2>1. /\ request' # {} /\ request' \subseteq DeviceIDs(listed) /\ answer' = "none"
        /\ UNCHANGED <<flag, pc, count, sigterm, socket, wiped, up, endpoint, listed, disturbances>>
    BY <1>5 DEF KubeletAllocates
  <2>2. listed > 0
    BY <2>1, NoDevicesNoRequest
  <2>3. request' \subseteq Nat
    BY <2>1 DEF DeviceIDs
  <2>4. disturbances = 0 => pc = "serve" /\ listed = count
    BY <2>2
  <2>5. Undisturbed'
    BY <2>1, <2>4
  <2> QED BY <2>1, <2>3, <2>5
<1>6. CASE Unanswered
  BY <1>6 DEF Unanswered
<1>7. CASE KubeletStops
  <2>1. disturbances' \in 1..MaxDisturbances
    BY <1>7, DisturbCounts DEF KubeletStops
  <2>2. /\ up' = FALSE /\ endpoint' = "none" /\ listed' = 0
        /\ request' = {} /\ answer' = "none"
        /\ UNCHANGED <<flag, pc, count, sigterm, socket, wiped>>
    BY <1>7 DEF KubeletStops
  <2>3. request' \subseteq Nat
    BY <2>2
  <2>4. TypeOK'
    <3>1. up' \in BOOLEAN /\ answer' \in {"none", "granted", "refused"}
      BY <2>2
    <3> HIDE DEF AdvertisedAreServed, Undisturbed, process, kubelet, allocation
    <3> QED BY <2>1, <2>2, <2>3, <3>1
  <2> QED BY <2>1, <2>2, <2>4
<1>8. CASE KubeletStarts
  BY <1>8 DEF KubeletStarts
<1> QED BY <1>1, <1>2, <1>3, <1>4, <1>5, <1>6, <1>7, <1>8

THEOREM InductiveInvariant == FairSpec => []IInv
<1>1. Init => IInv
  <2> SUFFICES ASSUME Init PROVE IInv
    OBVIOUS
  <2>1. TypeOK
    <3>1. request \subseteq Nat
      BY DEF Init
    <3>2. disturbances \in 0..MaxDisturbances
      BY DevicePluginAssumption DEF Init
    <3> QED BY <3>1, <3>2 DEF Init, TypeOK
  <2>2. AdvertisedAreServed /\ SocketIsServed /\ DownKubeletForgets /\ Undisturbed
    BY DEF Init, AdvertisedAreServed, Listening, SocketIsServed, DownKubeletForgets, Undisturbed
  <2> QED BY <2>1, <2>2 DEF IInv
<1>2. IInv /\ [Next]_vars => IInv'
  <2> SUFFICES ASSUME IInv, [Next]_vars PROVE IInv'
    OBVIOUS
  <2>1. CASE Next
    BY <2>1, ProcessKeepsIInv, EndingKeepsIInv, KubeletKeepsIInv DEF Next
  <2>2. CASE UNCHANGED vars
    BY <2>2 DEF vars, process, kubelet, allocation, IInv, TypeOK, AdvertisedAreServed,
                SocketIsServed, DownKubeletForgets, Undisturbed, DeviceIDs, Listening
  <2> QED BY <2>1, <2>2
<1> QED BY <1>1, <1>2, PTL DEF FairSpec

-----------------------------------------------------------------------------
(* The theorems. *)

\* The values every variable of the plugin's process, its socket and the kubelet
\* takes (Run, ListAndWatch, Allocate).
THEOREM TypeCorrect == FairSpec => []TypeOK
BY InductiveInvariant, PTL DEF IInv

\* What a Node advertises is what the process at the other end of the stream has,
\* or, after a disturbance and until the kubelet notices, what one that has ended
\* had, however often processes and kubelets restart and registrations fail or get
\* lost in between (Run, ListAndWatch).
THEOREM AdvertisedServed == FairSpec => []AdvertisedAreServed
BY InductiveInvariant, PTL DEF IInv

\* An allocation is granted only if the process has every device of it, and is
\* refused only after a disturbance (Allocate).
THEOREM AllocationsAreBacked == FairSpec => AllocationsFit
<1> DEFINE Step == answer = "none" =>
                     /\ answer' = "granted" => request \subseteq DeviceIDs(count)
                     /\ answer' = "refused" => disturbances' > 0
<1>1. ASSUME IInv, Next PROVE Step
  <2> SUFFICES ASSUME answer = "none" PROVE Step
    OBVIOUS
  <2>1. CASE Allocate \/ Unanswered
    BY <1>1, <2>1 DEF Allocate, Unanswered, Listening, IInv, TypeOK, Undisturbed
  <2>2. CASE Disturb
    BY <1>1, <2>2, DisturbCounts DEF IInv, Next, StartProcess, Prepare, Listen, Register,
       RegisterFails, Stops, Killed, Redeploy, KubeletConnects, KubeletNotices, KubeletAllocates,
       Unanswered, KubeletStops, KubeletStarts, Returns, Ends, Allocate, process, kubelet, allocation
  <2>3. CASE Ends("absent") /\ UNCHANGED disturbances /\ (pc \in {"start", "listen"} \/ ~up \/ sigterm)
    <3>1. CASE request = {}
      BY <2>3, <3>1 DEF Ends, allocation
    <3>2. CASE request # {}
      <4>1. disturbances' > 0
        BY <1>1, <2>3, <3>2 DEF IInv, TypeOK, Undisturbed
      <4>2. answer' \in {"none", "refused"}
        BY <2>3 DEF Ends, allocation
      <4> QED BY <4>1, <4>2
    <3> QED BY <3>1, <3>2
  <2>4. CASE answer' \in {"none", answer}
    BY <2>4
  <2> QED BY <1>1, <2>1, <2>2, <2>3, <2>4
          DEF Next, StartProcess, Prepare, Listen, Register, RegisterFails, Stops, Killed,
              Redeploy, KubeletConnects, KubeletNotices, KubeletAllocates, Unanswered,
              KubeletStops, KubeletStarts,
              Returns, process, kubelet, allocation
<1>2. IInv /\ [Next]_vars => [Step]_vars
  BY <1>1
<1> QED BY <1>2, InductiveInvariant, PTL DEF FairSpec, AllocationsFit

=============================================================================
