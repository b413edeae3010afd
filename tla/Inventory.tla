------------------------------ MODULE Inventory ------------------------------
(***************************************************************************)
(* One node's device scans (inventory.go, sriov.go, status.go) while the   *)
(* operator partitions the hardware.  discoverDeviceGroups lists the       *)
(* devices once and then reads several sysfs files per device, one system  *)
(* call at a time; the kernel may add or remove virtual functions between  *)
(* any two of them.                                                        *)
(*                                                                         *)
(* A device is a pair <<p, i>>: the physical function p itself (i = 0) or  *)
(* its i-th virtual function.  A resource is a pair <<name, N>>.           *)
(***************************************************************************)
EXTENDS Naturals

CONSTANTS
    PFs,             \* the physical functions of the node
    Modes,           \* the values sriov_numvfs may take
    MaxVFs,          \* the largest of them
    MaxChanges,      \* bound on the number of changes of the hardware
    MaxErrors,       \* bound on the number of failing reads
    MaxDisturbances  \* bound on both together

ASSUME ModesAssumption == MaxVFs \in Nat /\ Modes \subseteq 0 .. MaxVFs /\ 0 \in Modes
ASSUME BoundsAssumption == MaxChanges \in Nat /\ MaxErrors \in Nat /\ MaxDisturbances \in Nat

Device == PFs \X (0 .. MaxVFs)
IsVF(d) == d[2] # 0

Generic == <<"npu", 0>>
VFResource(n) == <<"npu-vf", n>>
Nothing == <<"none", 0>>
Resource == {Nothing, Generic, VFResource(1), VFResource(4)}
Health == {"Healthy", "Unhealthy"}

VARIABLES
    plugged,     \* the physical functions that are on the bus
    numVFs,      \* sriov_numvfs of every physical function
    ready,       \* the devices whose status file reads READY
    pc,          \* where the scan is
    todo,        \* listed devices the loop has yet to look at
    dev,         \* the device it looks at, {} or a singleton
    resource,    \* resourceName of that device
    groups,      \* the resource each device is grouped under so far
    health,      \* the health each grouped device is given
    advertised,  \* the groups of the last complete scan
    advHealth,   \* and their health
    changes,     \* changes of the hardware so far
    errors,      \* failing reads so far
    steady,      \* history: the hardware is as the last scan found it
    clean        \* history: none of that scan's reads failed

hardware == <<plugged, numVFs, ready, changes>>
scan == <<pc, todo, dev, resource, groups, health>>
result == <<advertised, advHealth>>
vars == <<hardware, scan, result, errors, steady, clean>>

\* The functions the bus has now.
Present == {d \in Device : d[1] \in plugged /\ d[2] <= numVFs[d[1]]}

Init ==
    /\ plugged = PFs
    /\ numVFs \in [PFs -> Modes]
    /\ ready \in {Device, {}}
    /\ pc = "idle" /\ todo = {} /\ dev = {} /\ resource = Nothing
    /\ groups = [d \in Device |-> Nothing] /\ health = [d \in Device |-> "Healthy"]
    /\ advertised = groups /\ advHealth = health
    /\ changes = 0 /\ errors = 0
    /\ steady = FALSE /\ clean = FALSE

-----------------------------------------------------------------------------
(* The scan *)

ReadOK == UNCHANGED <<errors, clean>>

\* One more error, within the bounds.
CountError ==
    /\ errors < MaxErrors /\ changes + errors < MaxDisturbances
    /\ errors' = errors + 1

ReadError == CountError /\ clean' = FALSE

\* getDevices(ctx)
List ==
    /\ pc = "idle"
    /\ pc' = "next"
    /\ groups' = [d \in Device |-> Nothing]
    /\ health' = [d \in Device |-> "Healthy"]
    /\ steady' = TRUE
    /\ \/ todo' = Present /\ clean' = TRUE /\ UNCHANGED errors
       \/ todo' = {} /\ ReadError
    /\ UNCHANGED <<hardware, dev, resource, result>>

\* The next device of the loop.
NextDevice(d) ==
    /\ pc = "next"
    /\ d \in todo
    /\ todo' = todo \ {d}
    /\ dev' = {d}
    /\ pc' = "physfn"
    /\ ReadOK
    /\ UNCHANGED <<hardware, resource, groups, health, result, steady>>

\* continue: the device is excluded.
Skip ==
    /\ pc' = "next"
    /\ dev' = {}
    /\ UNCHANGED <<todo, resource, groups, health>>

\* The device is advertised under r, once its health is read.
Advertise(r) ==
    /\ pc' = "health"
    /\ resource' = r
    /\ UNCHANGED <<todo, dev, groups, health>>

Goto(label) == pc' = label /\ UNCHANGED <<todo, dev, resource, groups, health>>

\* Mutant of Unreadable: what cannot be read is taken for missing.
UnreadableIsNone == Advertise(Generic)

\* probeSRIOV returns an error: the device is left out.
Unreadable == Skip

\* One read of probeSRIOV: what follows when it succeeds, or an error.
Read(label, d, outcome) ==
    /\ pc = label
    /\ d \in dev
    /\ (outcome /\ ReadOK) \/ (Unreadable /\ ReadError)
    /\ UNCHANGED <<hardware, result, steady>>

\* os.Lstat(physfn).  A function that is gone has no physfn either.
LstatPhysfn(d) ==
    Read("physfn", d, Goto(IF IsVF(d) /\ d \in Present THEN "readlink" ELSE "numvfs"))

\* os.Readlink(physfn) names the parent, and fails if the VF is gone by now.
ReadlinkPhysfn(d) ==
    Read("readlink", d, IF d \in Present THEN Goto("parent") ELSE Skip)

\* Mutant of vfResourceName: every partition mode is accepted.
vfResourceNameAny(n) == VFResource(n)

\* Only vf-1 and vf-4 have a resource; anything else is an error.
vfResourceName(n) == IF n \in {1, 4} THEN VFResource(n) ELSE Nothing

\* readSriovNumVFs of the parent, and resourceForDevice's VF case.
ReadParentNumVFs(d) ==
    LET r == vfResourceName(numVFs[d[1]])
    IN  Read("parent", d, IF r # Nothing THEN Advertise(r) ELSE Skip)

\* Mutant of HostsVFs: off by one.
HostsManyVFs(p) == numVFs[p] > 1

HostsVFs(p) == numVFs[p] > 0

\* readSriovNumVFs of a device without physfn, and the other two cases.  A VF
\* has no sriov_numvfs of its own, a function that is gone has nothing: a
\* device that vanished before it was read is "not exist" here and classed as
\* not partitioned.
ReadOwnNumVFs(d) ==
    Read("numvfs", d, IF ~IsVF(d) /\ HostsVFs(d[1]) THEN Skip ELSE Advertise(Generic))

\* Mutant of healthForDevice: an unreadable status counts as Unhealthy.
healthForDeviceFailsClosed(d, readable) ==
    IF readable /\ d \in ready THEN "Healthy" ELSE "Unhealthy"

\* READY is Healthy, any other status is not, an unreadable one is.
healthForDevice(d, readable) ==
    IF readable /\ d \notin ready THEN "Unhealthy" ELSE "Healthy"

\* The last step of the loop's body: the device joins its group.
ReadHealth(d) ==
    /\ pc = "health"
    /\ d \in dev
    /\ \/ health' = [health EXCEPT ![d] = healthForDevice(d, d \in Present)] /\ ReadOK
       \/ health' = [health EXCEPT ![d] = healthForDevice(d, FALSE)] /\ ReadError
    /\ groups' = [groups EXCEPT ![d] = resource]
    /\ pc' = "next"
    /\ dev' = {}
    /\ UNCHANGED <<hardware, todo, resource, result, steady>>

\* Mutant of NewInventory: devices that are gone are not dropped.
MergedInventory == [d \in Device |-> IF groups[d] = Nothing THEN advertised[d] ELSE groups[d]]

\* Mutant of NewInventory: a device keeps the resource it was first found under.
StickyInventory ==
    [d \in Device |-> IF Nothing \in {groups[d], advertised[d]} THEN groups[d] ELSE advertised[d]]

NewInventory == groups

\* The loop is over: reconcile hands the groups to the plugins, which replace
\* their devices or are stopped.
Publish ==
    /\ pc = "next"
    /\ todo = {}
    /\ advertised' = NewInventory
    /\ advHealth' = health
    /\ pc' = "idle"
    /\ ReadOK
    /\ UNCHANGED <<hardware, todo, dev, resource, groups, health, steady>>

\* discoverDeviceGroups, one system call at a time.
Discover ==
    \/ List
    \/ \E d \in Device :
        NextDevice(d) \/ LstatPhysfn(d) \/ ReadlinkPhysfn(d) \/ ReadParentNumVFs(d)
            \/ ReadOwnNumVFs(d) \/ ReadHealth(d)

Scan == Discover \/ Publish

-----------------------------------------------------------------------------
(* The hardware *)

HardwareChange ==
    /\ changes < MaxChanges /\ changes + errors < MaxDisturbances
    /\ changes' = changes + 1
    /\ steady' = FALSE
    /\ UNCHANGED <<scan, result, errors, clean>>

\* A write to sriov_numvfs: the kernel only goes from 0 to n and back to 0.
Repartition(p) ==
    /\ p \in plugged
    /\ HardwareChange
    /\ \E n \in Modes : /\ n # numVFs[p]
                        /\ n = 0 \/ numVFs[p] = 0
                        /\ numVFs' = [numVFs EXCEPT ![p] = n]
    /\ UNCHANGED <<plugged, ready>>

\* A device falls off the bus with its VFs, or comes back.
Hotplug(p) ==
    /\ HardwareChange
    /\ plugged' = (plugged \ {p}) \cup ({p} \ plugged)
    /\ numVFs' = [numVFs EXCEPT ![p] = 0]
    /\ UNCHANGED ready

\* A device's status changes, from READY or to READY.
StatusChange(d) ==
    /\ d \in Present
    /\ HardwareChange
    /\ ready' = IF d \in ready THEN ready \ {d} ELSE ready \cup {d}
    /\ UNCHANGED <<plugged, numVFs>>

Environment ==
    \/ \E p \in PFs : Repartition(p) \/ Hotplug(p)
    \/ \E d \in Device : StatusChange(d)

Next == Scan \/ Environment

Spec == Init /\ [][Next]_vars

\* The scan ticker never stops.
FairSpec == Spec /\ WF_vars(Scan)

-----------------------------------------------------------------------------
(* Properties *)

\* Every variable has its type; at most one device is looked at.
TypeOK ==
    /\ plugged \subseteq PFs
    /\ numVFs \in [PFs -> Modes]
    /\ ready \subseteq Device
    /\ pc \in {"idle", "next", "physfn", "readlink", "parent", "numvfs", "health"}
    /\ todo \subseteq Device
    /\ dev \in {{}} \cup {{d} : d \in Device}
    /\ resource \in Resource
    /\ groups \in [Device -> Resource]
    /\ health \in [Device -> Health]
    /\ advertised \in [Device -> Resource]
    /\ advHealth \in [Device -> Health]
    /\ changes \in 0 .. MaxChanges
    /\ errors \in 0 .. MaxErrors
    /\ steady \in BOOLEAN
    /\ clean \in BOOLEAN

\* What the README promises of the devices on the bus: VFs of a supported mode
\* under npu-vf<N>, physical functions without VFs under npu, nothing else.
Expected(d) ==
    LET n == numVFs[d[1]]
    IN  CASE d \in Present /\ IsVF(d) /\ n \in {1, 4} -> VFResource(n)
          [] d \in Present /\ ~IsVF(d) /\ n = 0 -> Generic
          [] OTHER -> Nothing

\* The scan that ran undisturbed on hardware that has not changed since
\* advertises exactly what is there, with the health it has.
UndisturbedScanExact ==
    pc = "idle" /\ steady /\ clean =>
        \A d \in Device :
            /\ advertised[d] = Expected(d)
            /\ advertised[d] # Nothing => (advHealth[d] = "Healthy" <=> d \in ready)

\* Whichever reads failed, on steady hardware a scan may leave a device out but
\* never advertises it under a resource it does not belong to, a VF-hosting PF
\* or an unsupported VF least of all.
ErrorsNeverMisfile ==
    pc = "idle" /\ steady => \A d \in Device : advertised[d] \in {Nothing, Expected(d)}

\* Failing reads of the status never take a READY device from the scheduler.
ErrorsNeverDrain ==
    pc = "idle" /\ steady => \A d \in Device : advHealth[d] = "Unhealthy" => d \notin ready

\* Once the hardware and sysfs settle, so does what is advertised, whatever
\* earlier scans made of a node that was being partitioned under them.
EventuallyExact == <>[](\A d \in Device : advertised[d] = Expected(d))

\* "VF resources are always named rebellions.ai/npu-vf<N>" (README.md:277).
VFNeverGeneric == \A d \in Device : IsVF(d) => advertised[d] # Generic
=============================================================================
