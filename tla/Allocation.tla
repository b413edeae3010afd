----------------------------- MODULE Allocation -----------------------------
(***************************************************************************)
(* Allocate of one ResourcePlugin (plugin.go): for every container of the  *)
(* request it looks the devices up, has the driver put them into an RSD    *)
(* group of their own, waits for the group's node and the devices' nodes   *)
(* in /dev and answers.  Every call runs in a goroutine of its own and     *)
(* looks neither at its context nor at stopCh: a call whose kubelet is     *)
(* gone goes on to its end, beside those of the kubelet that came back.    *)
(*                                                                         *)
(* The bus ID that a group is made of is the device's own and is           *)
(* abstracted to the device.  The RSD groups, the nodes and the kubelet    *)
(* are modelled from how the handler uses them.                            *)
(***************************************************************************)
EXTENDS Naturals

CONSTANTS
    Device,         \* device IDs
    Call,           \* the Allocate calls of this plugin's life
    MaxContainers,  \* bound on the containers of one request
    Path,           \* host paths of RSD groups
    NoPath,         \* the empty hostRsdPath
    MaxFaults       \* bound on the number of failing library and system calls
                    \* and of changes of the inventory and of device nodes

ASSUME DeviceAssumption == Device \cap Path = {} /\ NoPath \notin Path
ASSUME BoundsAssumption == MaxContainers \in Nat \ {0} /\ MaxFaults \in Nat

Container == 1 .. MaxContainers

VARIABLES
    managed,   \* the devices in p.devices, with a PCIBusID
    nodes,     \* device nodes that exist in /dev
    groups,    \* the driver's RSD groups: the devices behind each path
    maker,     \* the call that had the group at a path made, {} or a singleton
    pc,        \* where each call is
    ctr,       \* the container each call is at
    left,      \* nodes this container's specs still need
    node,      \* the node waitForDeviceNode polls, {} or a singleton
    path,      \* hostRsdPath of every container so far
    req,       \* the request: the devices of every container
    size,      \* and the number of containers
    status,    \* what the kubelet made of each call
    faults,    \* failing library and system calls and changes so far
    trampled   \* history: calls whose group an abandoned call recreated

call == <<pc, ctr, left, node, path>>
driver == <<groups, maker, nodes>>
kubelet == <<req, size, status>>
vars == <<managed, driver, call, kubelet, faults, trampled>>

\* The devices call c asks for.
Asked(c) == UNION {req[c][i] : i \in Container}

\* Calls whose devices the kubelet counts as taken.
Taken(c) == status[c] \in {"waiting", "running"}

Init ==
    /\ managed = Device
    /\ nodes = Device
    /\ groups = [p \in Path |-> {}]
    /\ maker = [p \in Path |-> {}]
    /\ pc = [c \in Call |-> "idle"]
    /\ ctr = [c \in Call |-> 1]
    /\ left = [c \in Call |-> {}]
    /\ node = [c \in Call |-> {}]
    /\ path = [c \in Call |-> [i \in Container |-> NoPath]]
    /\ req = [c \in Call |-> [i \in Container |-> {}]]
    /\ size = [c \in Call |-> 1]
    /\ status = [c \in Call |-> "unused"]
    /\ faults = 0
    /\ trampled = {}

-----------------------------------------------------------------------------
(* The handler *)

Goto(c, label) == pc' = [pc EXCEPT ![c] = label]

Fault == faults < MaxFaults /\ faults' = faults + 1

NoFault == UNCHANGED faults

\* Any error of allocateContainer ends the whole call: the answers for earlier
\* containers are dropped, the groups made for them stay.
Fail(c) ==
    /\ Goto(c, "error")
    /\ left' = [left EXCEPT ![c] = {}]
    /\ node' = [node EXCEPT ![c] = {}]
    /\ path' = [path EXCEPT ![c] = [i \in Container |-> NoPath]]
    /\ UNCHANGED <<managed, ctr, kubelet>>

\* What fails left the driver as it was.
NoGroupLost == UNCHANGED <<driver, trampled>>

\* The devices of the container c is at.
Wanted(c) == req[c][ctr[c]]

\* The checks of allocateContainer, on one snapshot taken under p.mu.
Selectable(c) == Wanted(c) # {} /\ Wanted(c) \subseteq managed

Select(c) ==
    /\ pc[c] = "select"
    /\ Selectable(c)
    /\ Goto(c, "recreate")
    /\ NoFault
    /\ UNCHANGED <<managed, driver, ctr, left, node, path, kubelet, trampled>>

\* No device IDs, a device this resource does not manage, or no bus ID.
SelectFails(c) ==
    /\ pc[c] = "select"
    /\ ~Selectable(c)
    /\ Fail(c) /\ NoGroupLost
    /\ NoFault

\* Mutant of busIDs: the slice is made once per request, not per container.
busIDsOfRequest(c) == UNION {req[c][i] : i \in 1 .. ctr[c]}

\* The bus IDs handed to rsdGroupFn.
busIDs(c) == Wanted(c)

Overlapping(devs) == {p \in Path : groups[p] \cap devs # {}}

\* The driver takes the devices out of the groups they are in, which ends those
\* groups and removes their nodes; new is where it then makes a group of them.
Regroup(c, new) ==
    LET ended == Overlapping(busIDs(c))
    IN  /\ groups' = [p \in Path |-> IF p \in new THEN busIDs(c)
                                    ELSE IF p \in ended THEN {} ELSE groups[p]]
        /\ maker' = [p \in Path |-> IF p \in new THEN {c}
                                   ELSE IF p \in ended THEN {} ELSE maker[p]]
        /\ nodes' = nodes \ (ended \cup new)
        /\ trampled' = IF status[c] = "abandoned"
                       THEN trampled \cup UNION {maker[p] : p \in ended}
                       ELSE trampled

\* deviceSpecsForDevices turns to the first node, the others come after it.
WaitFor(c, first, others) ==
    /\ node' = [node EXCEPT ![c] = first]
    /\ left' = [left EXCEPT ![c] = others]

\* rsdgroup.RecreateRsdGroup: a group of exactly these devices, at a path that
\* is free or was theirs; its node appears later.
Recreate(c) ==
    /\ pc[c] = "recreate"
    /\ \E p \in Path :
        /\ groups[p] = {} \/ p \in Overlapping(busIDs(c))
        /\ Regroup(c, {p})
        /\ path' = [path EXCEPT ![c][ctr[c]] = p]
        /\ WaitFor(c, {p}, Wanted(c))
    /\ Goto(c, "stat")
    /\ NoFault
    /\ UNCHANGED <<managed, ctr, kubelet>>

\* A driver without RSD groups: no path, and no spec for /dev/rsd0.
RecreateNothing(c) ==
    /\ pc[c] = "recreate"
    /\ \A p \in Path : groups[p] = {}
    /\ \E d \in Wanted(c) : WaitFor(c, {d}, Wanted(c) \ {d})
    /\ Goto(c, "stat")
    /\ NoFault
    /\ UNCHANGED <<managed, driver, ctr, path, kubelet, trampled>>

\* It fails, before or after it ended the old groups.
RecreateFails(c) ==
    /\ pc[c] = "recreate"
    /\ Fail(c) /\ Fault
    /\ NoGroupLost \/ Regroup(c, {})

\* os.Stat succeeds, before the deadline or after it, and newDeviceSpec returns.
\* The wait for the next node has a deadline of its own.
Found(c) ==
    /\ pc[c] = "stat"
    /\ node[c] \subseteq nodes
    /\ \/ /\ left[c] = {} /\ WaitFor(c, {}, {})
          /\ Goto(c, "annotate")
       \/ /\ \E d \in left[c] : WaitFor(c, {d}, left[c] \ {d})
          /\ UNCHANGED pc
    /\ NoFault
    /\ UNCHANGED <<managed, driver, ctr, path, kubelet, trampled>>

\* Mutant of GiveUp: every turn of the poll sets a new deadline.
GiveUpNever(c) == FALSE /\ UNCHANGED vars

\* "not exist", and deviceNodePollTimeout has passed.  Time is not modelled: any
\* poll that finds nothing may be the last.
GiveUp(c) ==
    /\ pc[c] = "stat"
    /\ ~(node[c] \subseteq nodes)
    /\ Fail(c) /\ NoGroupLost
    /\ NoFault

\* os.Stat fails in another way.
StatFails(c) == pc[c] = "stat" /\ Fail(c) /\ NoGroupLost /\ Fault

\* Mutant of Annotate: the loop runs once more than there are containers.
AnnotatePast(c) ==
    /\ pc[c] = "annotate"
    /\ \/ ctr[c] <= size[c] /\ ctr' = [ctr EXCEPT ![c] = @ + 1] /\ Goto(c, "select")
       \/ ctr[c] > size[c] /\ UNCHANGED ctr /\ Goto(c, "ok")
    /\ NoFault
    /\ UNCHANGED <<managed, driver, left, node, path, kubelet, trampled>>

\* All specs are made: the CDI annotations, then the next container or the
\* response.
Annotate(c) ==
    /\ pc[c] = "annotate"
    /\ \/ ctr[c] < size[c] /\ ctr' = [ctr EXCEPT ![c] = @ + 1] /\ Goto(c, "select")
       \/ ctr[c] = size[c] /\ UNCHANGED ctr /\ Goto(c, "ok")
    /\ NoFault
    /\ UNCHANGED <<managed, driver, left, node, path, kubelet, trampled>>

\* RuntimeAnnotations, or RDSAnnotations where an RDS node is present, fails.
AnnotateFails(c) == pc[c] = "annotate" /\ Fail(c) /\ NoGroupLost /\ Fault

Handler(c) ==
    \/ Select(c) \/ SelectFails(c)
    \/ Recreate(c) \/ RecreateNothing(c) \/ RecreateFails(c)
    \/ Found(c) \/ GiveUp(c) \/ StatFails(c)
    \/ Annotate(c) \/ AnnotateFails(c)

-----------------------------------------------------------------------------
(* The kubelet, the scans and the node *)

\* A pod is admitted: for each container the kubelet picks devices it
\* believes free, no device twice.  Its list may be older than p.devices.
Allocate(c) ==
    /\ status[c] = "unused"
    /\ \E n \in Container : \E r \in [Container -> SUBSET Device] :
        /\ \A i \in Container : r[i] = {} <=> i > n
        /\ \A i, j \in Container : i # j => r[i] \cap r[j] = {}
        /\ \A b \in Call : Taken(b) => Asked(b) \cap UNION {r[i] : i \in Container} = {}
        /\ req' = [req EXCEPT ![c] = r]
        /\ size' = [size EXCEPT ![c] = n]
    /\ status' = [status EXCEPT ![c] = "waiting"]
    /\ Goto(c, "select")
    /\ NoFault
    /\ UNCHANGED <<managed, driver, ctr, left, node, path, trampled>>

Kubelet(c, from, to) ==
    /\ status[c] = from
    /\ status' = [status EXCEPT ![c] = to]
    /\ NoFault
    /\ UNCHANGED <<managed, driver, trampled>>

\* The kubelet restarts, or the plugin is stopped under it: the call's context
\* is cancelled, the handler goes on, the devices are free to the kubelet.
Abandon(c) == Kubelet(c, "waiting", "abandoned") /\ UNCHANGED <<call, req, size>>

\* The containers start with the devices and paths of the response.
PodStarts(c) ==
    pc[c] = "ok" /\ Kubelet(c, "waiting", "running") /\ UNCHANGED <<call, req, size>>

\* The request and the response are gone.
Forget(c) ==
    /\ req' = [req EXCEPT ![c] = [i \in Container |-> {}]]
    /\ path' = [path EXCEPT ![c] = [i \in Container |-> NoPath]]
    /\ ctr' = [ctr EXCEPT ![c] = 1]
    /\ size' = [size EXCEPT ![c] = 1]
    /\ UNCHANGED <<pc, left, node>>

\* The pod is rejected.
PodRejected(c) == pc[c] = "error" /\ Kubelet(c, "waiting", "over") /\ Forget(c)

\* The pod ends.  Nothing tells the plugin: its groups stay.
PodEnds(c) == Kubelet(c, "running", "over") /\ Forget(c)

\* The response or error of a call that was abandoned finds no one.
LateAnswer(c) ==
    pc[c] \in {"ok", "error"} /\ Kubelet(c, "abandoned", "over") /\ Forget(c)

\* UpdateDevices, or a plugin restarted with another inventory; the node of a
\* device comes or goes.
Change ==
    /\ Fault
    /\ \E d \in Device :
        \/ managed' = (managed \ {d}) \cup ({d} \ managed) /\ UNCHANGED nodes
        \/ nodes' = (nodes \ {d}) \cup ({d} \ nodes) /\ UNCHANGED managed
    /\ UNCHANGED <<groups, maker, call, kubelet, trampled>>

\* udev makes the node of a group.
GroupNode(p) ==
    /\ groups[p] # {} /\ p \notin nodes
    /\ nodes' = nodes \cup {p}
    /\ NoFault
    /\ UNCHANGED <<managed, groups, maker, call, kubelet, trampled>>

Next ==
    \/ \E c \in Call :
        \/ Handler(c)
        \/ Allocate(c) \/ Abandon(c) \/ PodStarts(c) \/ PodRejected(c) \/ PodEnds(c) \/ LateAnswer(c)
    \/ Change
    \/ \E p \in Path : GroupNode(p)

Spec == Init /\ [][Next]_vars

\* Goroutines that can run do, and time passes.
FairSpec == Spec /\ \A c \in Call : WF_vars(Handler(c))

-----------------------------------------------------------------------------
(* Properties *)

\* Every variable has its type.
TypeOK ==
    /\ managed \subseteq Device
    /\ nodes \subseteq Device \cup Path
    /\ groups \in [Path -> SUBSET Device]
    /\ maker \in [Path -> SUBSET Call]
    /\ pc \in [Call -> {"idle", "select", "recreate", "stat", "annotate", "ok", "error"}]
    /\ ctr \in [Call -> Container]
    /\ left \in [Call -> SUBSET (Device \cup Path)]
    /\ node \in [Call -> SUBSET (Device \cup Path)]
    /\ path \in [Call -> [Container -> Path \cup {NoPath}]]
    /\ req \in [Call -> [Container -> SUBSET Device]]
    /\ size \in [Call -> Container]
    /\ status \in [Call -> {"unused", "waiting", "abandoned", "running", "over"}]
    /\ faults \in 0 .. MaxFaults
    /\ trampled \subseteq Call

\* The group at container i's path is the one c had made, of i's devices only.
OwnGroup(c, i) ==
    LET p == path[c][i]
    IN  p # NoPath => maker[p] = {c} /\ groups[p] = req[c][i]

\* Every container that was promised devices has an RSD group of its own:
\* freshly made by its own call, of exactly its devices, and not remade by a
\* later container of the same request, by another pod's call or by a call
\* that failed half-way.  The one exception is a call the kubelet abandoned,
\* which nothing stops: it may still recreate a group over the same devices.
DedicatedGroups ==
    \A c \in Call :
        Taken(c) /\ (pc[c] = "ok") /\ c \notin trampled =>
            \A i \in 1 .. size[c] : OwnGroup(c, i)

\* Every call ends, however late or never the nodes appear and whatever became
\* of its kubelet: the waits are bounded although they ignore the context.
EveryCallReturns ==
    \A c \in Call : pc[c] = "select" ~> pc[c] \in {"ok", "error"}
=============================================================================
