---------------------------- MODULE DevicePlugin ----------------------------
(***************************************************************************)
(* The simulated GPU device plugin of one Node:                            *)
(* internal/deviceplugin/plugin.go and cmd/deviceplugin/main.go.           *)
(*                                                                         *)
(* A process binds a socket in the kubelet's plugin directory, registers   *)
(* with the kubelet once, and serves until it is terminated; the kubelet   *)
(* then dials the socket, reads the devices from ListAndWatch and calls    *)
(* Allocate for new containers.  Processes and the kubelet restart, and a  *)
(* starting kubelet empties the directory and has forgotten its plugins.   *)
(***************************************************************************)
EXTENDS Integers

CONSTANTS
    Flags,           \* values of --devices the DaemonSet may carry
    MaxDisturbances  \* bound: kills, failing calls, kubelet restarts, redeployments

ASSUME DevicePluginAssumption == Flags \subseteq Int /\ MaxDisturbances \in Nat

VARIABLES
    flag,      \* --devices in the DaemonSet's template
    pc,        \* where the plugin process is in Run
    count,     \* devices of the running process
    sigterm,   \* has the process got SIGTERM?
    socket,    \* file at the socket's path: absent, ours, or stale
    up,        \* does the kubelet run?
    endpoint,  \* the kubelet's connection to the plugin: none, connecting,
               \* streaming, or lost: broken, and the kubelet has not noticed
    listed,    \* devices the Node advertises
    request,   \* devices of the Allocate call in progress
    answer,    \* of the last Allocate call: none, granted, refused
    wiped,     \* has a starting kubelet removed the process's socket? (history)
    disturbances

process == <<flag, pc, count, sigterm>>
kubelet == <<up, endpoint, listed>>
allocation == <<request, answer>>
vars == <<process, socket, wiped, kubelet, allocation, disturbances>>

Disturb ==
    /\ disturbances < MaxDisturbances
    /\ disturbances' = disturbances + 1

-----------------------------------------------------------------------------
(* The plugin process. *)

\* Variant: no count is replaced or refused.
CountFromFlag(n) == n

\* Run: zero stands for the default; newPlugin refuses less than one (0 here).
DeviceCount(n) == IF n = 0 THEN 4 ELSE IF n < 1 THEN 0 ELSE n

\* deviceIDs, and the devices ListAndWatch sends
DeviceIDs(n) == 0..(n - 1)

\* Variant: one device more is announced than allocated.
AnnouncedOneMore(n) == n + 1

Announced(n) == n

Listening == socket = "ours" /\ pc \in {"register", "serve"}

\* The end of the process breaks its stream; the kubelet counts its devices until
\* it notices.  The calls in progress fail or reach the next process, which
\* listens at the same path.
Ends(file) ==
    /\ pc' = "down"
    /\ count' = 0
    /\ socket' = IF socket = "ours" THEN file ELSE socket
    /\ endpoint' = IF endpoint = "streaming" THEN "lost" ELSE endpoint
    /\ \/ UNCHANGED allocation
       \/ request # {} /\ request' = {} /\ answer' = "refused"
    /\ UNCHANGED <<flag, sigterm, wiped, up, listed>>

\* Run returns: the deferred functions remove and close the socket.
Returns == Ends("absent")

StartProcess ==
    /\ pc = "down"
    /\ pc' = "start"
    /\ sigterm' = FALSE
    /\ wiped' = FALSE
    /\ UNCHANGED <<flag, count, socket, kubelet, allocation, disturbances>>

\* Variant: a socket left by a killed process is not removed.
PrepareKeepingStale ==
    /\ pc = "start"
    /\ IF DeviceCount(flag) = 0 THEN Returns
       ELSE /\ count' = DeviceCount(flag)
            /\ pc' = "listen"
            /\ UNCHANGED <<flag, sigterm, socket, wiped, kubelet, allocation>>
    /\ UNCHANGED disturbances

\* newPlugin, then the removal of a stale socket.
Prepare ==
    /\ pc = "start"
    /\ IF DeviceCount(flag) = 0 THEN Returns
       ELSE /\ count' = DeviceCount(flag)
            /\ socket' = "absent"
            /\ pc' = "listen"
            /\ UNCHANGED <<flag, sigterm, wiped, kubelet, allocation>>
    /\ UNCHANGED disturbances

\* net.Listen fails while a file is in the way; from here the server answers.
Listen ==
    /\ pc = "listen"
    /\ IF socket # "absent" THEN Returns
       ELSE /\ socket' = "ours"
            /\ pc' = "register"
            /\ UNCHANGED <<flag, count, sigterm, wiped, kubelet, allocation>>
    /\ UNCHANGED disturbances

Register ==
    /\ pc = "register"
    /\ up
    /\ endpoint' = "connecting"
    /\ pc' = "serve"
    /\ UNCHANGED <<flag, count, sigterm, socket, wiped, up, listed, allocation, disturbances>>

\* register returns an error: the kubelet is not there for ten seconds, the
\* process is terminated, the call fails, or its answer is lost.
RegisterFails ==
    /\ pc = "register"
    /\ \/ /\ ~up \/ sigterm
          /\ UNCHANGED disturbances
          /\ Returns
       \/ /\ Disturb
          /\ Returns
       \/ /\ up
          /\ Disturb
          /\ pc' = "down"
          /\ count' = 0
          /\ socket' = "absent"
          /\ endpoint' = "connecting"
          /\ UNCHANGED <<flag, sigterm, wiped, up, listed, allocation>>

\* select: the context is done, or the server has failed.
Stops ==
    /\ pc = "serve"
    /\ \/ sigterm /\ UNCHANGED disturbances
       \/ Disturb
    /\ Returns

ProcessStep == Prepare \/ Listen \/ Register \/ (pc = "serve" /\ sigterm /\ Stops)

\* Variant: what is asked for is granted.
AllocateAnything ==
    /\ request # {}
    /\ Listening
    /\ answer' = "granted"
    /\ request' = {}
    /\ UNCHANGED <<process, socket, wiped, kubelet, disturbances>>

\* Allocate: all of the devices, or an error.
Allocate ==
    /\ request # {}
    /\ Listening
    /\ answer' = IF request \subseteq DeviceIDs(count) THEN "granted" ELSE "refused"
    /\ request' = {}
    /\ UNCHANGED <<process, socket, wiped, kubelet, disturbances>>

-----------------------------------------------------------------------------
(* The container, the DaemonSet and the kubelet. *)

Killed ==
    /\ pc # "down"
    /\ Disturb
    /\ Ends("stale")

\* A rolling update terminates the old Pod first.
Redeploy ==
    /\ Disturb
    /\ \E n \in Flags : flag' = n
    /\ sigterm' = TRUE
    /\ UNCHANGED <<pc, count, socket, wiped, kubelet, allocation>>

\* The list of a new connection replaces the one of a broken stream.  Without a
\* server at the path the kubelet gives the registration up, and what it listed.
KubeletConnects ==
    /\ endpoint = "connecting"
    /\ IF Listening
       THEN endpoint' = "streaming" /\ listed' = Announced(count)
       ELSE endpoint' = "none" /\ listed' = 0
    /\ UNCHANGED <<process, socket, wiped, up, allocation, disturbances>>

\* A broken stream is noticed, before or while the next process registers.
KubeletNotices ==
    /\ endpoint = "lost" \/ (endpoint = "connecting" /\ listed > 0)
    /\ endpoint' = IF endpoint = "lost" THEN "none" ELSE endpoint
    /\ listed' = 0
    /\ UNCHANGED <<process, socket, wiped, up, allocation, disturbances>>

\* The devices may be those of a process that has ended.
KubeletAllocates ==
    /\ request = {}
    /\ \E ids \in (SUBSET DeviceIDs(listed)) \ {{}} : request' = ids
    /\ answer' = "none"
    /\ UNCHANGED <<process, socket, wiped, kubelet, disturbances>>

\* The call meets no server.
Unanswered ==
    /\ request # {}
    /\ ~Listening
    /\ request' = {}
    /\ answer' = "refused"
    /\ UNCHANGED <<process, socket, wiped, kubelet, disturbances>>

KubeletStops ==
    /\ up
    /\ Disturb
    /\ up' = FALSE
    /\ endpoint' = "none"
    /\ listed' = 0
    /\ request' = {}
    /\ answer' = "none"
    /\ UNCHANGED <<process, socket, wiped>>

KubeletStarts ==
    /\ ~up
    /\ up' = TRUE
    /\ socket' = "absent"
    /\ wiped' = (wiped \/ socket = "ours")
    /\ UNCHANGED <<process, endpoint, listed, allocation, disturbances>>

-----------------------------------------------------------------------------

Init ==
    /\ flag \in Flags
    /\ pc = "down"
    /\ count = 0
    /\ sigterm = FALSE
    /\ socket = "absent"
    /\ up = TRUE
    /\ endpoint = "none"
    /\ listed = 0
    /\ request = {}
    /\ answer = "none"
    /\ wiped = FALSE
    /\ disturbances = 0

Next ==
    \/ StartProcess
    \/ Prepare
    \/ Listen
    \/ Register
    \/ RegisterFails
    \/ Stops
    \/ Allocate
    \/ Killed
    \/ Redeploy
    \/ KubeletConnects
    \/ KubeletNotices
    \/ KubeletAllocates
    \/ Unanswered
    \/ KubeletStops
    \/ KubeletStarts

\* The kubelet restarts containers and is restarted itself; the process runs.
FairSpec ==
    /\ Init /\ [][Next]_vars
    /\ WF_vars(StartProcess)
    /\ WF_vars(ProcessStep)
    /\ WF_vars(Allocate)
    /\ WF_vars(KubeletConnects)
    /\ WF_vars(KubeletNotices)
    /\ WF_vars(KubeletStarts)

-----------------------------------------------------------------------------
(* Properties. *)

TypeOK ==
    /\ flag \in Flags
    /\ pc \in {"down", "start", "listen", "register", "serve"}
    /\ count \in Nat
    /\ sigterm \in BOOLEAN
    /\ socket \in {"absent", "ours", "stale"}
    /\ up \in BOOLEAN
    /\ endpoint \in {"none", "connecting", "streaming", "lost"}
    /\ listed \in Nat
    /\ request \subseteq Nat
    /\ answer \in {"none", "granted", "refused"}
    /\ wiped \in BOOLEAN
    /\ disturbances \in 0..MaxDisturbances

\* What a Node advertises, and the scheduler counts on, is what the process at
\* the other end of the stream has.  It is the list of a process that has ended
\* only after a disturbance and until the kubelet notices or the next one has
\* connected, which may have fewer devices (Run, ListAndWatch).
AdvertisedAreServed ==
    /\ endpoint = "streaming" => up /\ Listening /\ listed = count
    /\ endpoint # "streaming" /\ listed > 0 =>
           up /\ endpoint # "none" /\ disturbances > 0

\* A container is never given a device that the plugin does not have, although
\* the kubelet chose it from the list of a process that had ended, or was replaced
\* meanwhile by one with fewer; and it is refused only after such a change, so
\* that the list and the check of one process agree (ListAndWatch, Allocate).
AllocationsFit ==
    [][ answer = "none" =>
          /\ answer' = "granted" => request \subseteq DeviceIDs(count)
          /\ answer' = "refused" => disturbances' > 0 ]_vars

\* Whatever was killed, failed, lost or redeployed, the Node ends up with the
\* devices of the flag, unless the kubelet has started after the process: Run
\* registers once, so only a restart of the process helps then.
NodeGetsItsGPUs ==
    <>[](up /\ ~wiped) => <>[](listed = DeviceCount(flag))

=============================================================================
