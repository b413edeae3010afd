# rbln-device-plugin: a TLA+ verification project

The repository is the Kubernetes device plugin for Rebellions NPUs: one process per node that
scans the node's devices, groups them into resources (`rebellions.ai/npu`, `npu-vf1`, `npu-vf4`),
serves one gRPC device-plugin endpoint per resource, registers each with the kubelet and streams the
device lists to it. This directory models that process, checks the models with TLC and proves the
most important invariants with TLAPS. Source paths below are relative to
`src/cmd/rbln-device-plugin/`.

## The system

| Part | State | Operations | Talks to |
| --- | --- | --- | --- |
| `Manager` (`manager.go`) | `plugins` (resource name -> plugin), `mu` | `Run` (initial reconcile, watch, select loop), `reconcile`, `restart`, `Stop` | discovery, plugins, kubelet's socket through fsnotify |
| `ResourcePlugin` (`plugin.go`) | `devices` under `mu`, `updateCh` (buffer of one), `stopCh`, server, socket file | `Start`/`register`, `Stop`, `UpdateDevices`; RPCs `ListAndWatch`, `Allocate`, `GetPreferredAllocation` | manager (calls), kubelet (RPCs both ways) |
| Inventory (`inventory.go`, `sriov.go`, `status.go`) | none of its own; reads the driver's device list and sysfs | `discoverDeviceGroups`, `probeSRIOV`, `healthForDevice` | kernel, partition manager |
| Allocation (`plugin.go`) | RSD groups and device nodes of the driver | `Allocate`, `allocateContainer`, `waitForDeviceNode` | driver, CDI handler |
| Preferred allocation (`topology_allocator.go`, `pci_topology.go`, `pci_allocation_bounds.go`) | none (pure) | distances on the PCI tree, branch and bound for the best set of devices | - |
| Health service (`health.go`), entry point (`main.go`), CDI handler (`cdi.go`) | one `serving` bit; the run context; transient CDI specs | start, serve, stop; signals; clean-up | kubelet's liveness probe, DaemonSet |
| Logging (`pkg/logging`, records in `plugin.go`, `inventory.go`) | the logger's level | level from the environment, one record per change of a device | whoever alerts on it |
| Tracing, logging bridges (`tracing.go`, `grpclog.go`, `otellog.go`) | none that matters | - | - |

Goroutines: the main one (all of `Manager`, and through it `Start`, `Stop` and `UpdateDevices` of
every plugin), one per `ListAndWatch`, `Allocate` or preferred-allocation call, one per gRPC server,
the signal watcher. `Manager.mu` is held across `UpdateDevices` and `Start`, that is across channel
operations and a registration of up to ten seconds.

What is hard about it, and where the properties aim (the list with lines is in `PROJECT.json`,
"hazards"):

- the one-slot channel between scans and streams: a send that must not block, a list that must not
  be the wrong one to drop, streams that compete for it, streams whose kubelet is gone;
- the kubelet restarting at any moment: before, during and after a registration or a scan, before
  the watch on its socket exists, with events pending;
- failures half-way: a registration that fails after the server is up, a `Stop` that fails after the
  server is down, a plugin that fails to start while others wait, a crash that leaves sockets;
- a scan that is not atomic while the node is being partitioned, and sysfs reads that fail;
- plugins that are updated, stopped and started one after the other from one scan, and a log that
  only reports change;
- allocation on a snapshot that a scan may outdate, with waits that ignore the request's context and
  calls that outlive their kubelet;
- pruning by lower bounds in the search for the best set of devices.

## The modules

| Module | Models | Status |
| --- | --- | --- |
| `DeviceFeed` | `UpdateDevices`, `updateCh`, `ListAndWatch`, `Stop` of one plugin, and its streams | checked, proved (`DeviceFeedProofs`) |
| `Feed` | what the feed promises, without channel, locks and transports; `DeviceFeed` implements it | checked and proved through `DeviceFeed` |
| `Manager` | the process: boot, reconcile, plugin start/registration/stop, kubelet restarts, shutdown, crash | checked, proved (`ManagerProofs`) |
| `Inventory` | one node's scans, read by read, against hardware that changes | checked, proved (`InventoryProofs`) |
| `Advertising` | extends `Inventory` with reconcile, the plugins, their streams and the log | checked, proved (`AdvertisingProofs`) |
| `Allocation` | `Allocate` of one plugin: concurrent calls, RSD groups, device nodes, the kubelet's bookkeeping | checked, proved (`AllocationProofs`) |
| `BranchAndBound` | the recursion of `search`, for any score and any sound way of skipping calls | checked, proved (`BranchAndBoundProofs`) |
| `AllocationSearch` | `GetPreferredAllocation`: the checks, the score, the undo, the bounds; refines `BranchAndBound` | checked and proved (`AllocationSearchLemmas`, `AllocationSearchProofs`) |
| `PciTopology` | the PCI forest, distances, the tree program of the bounds (operators, no state) | checked through `AllocationSearch`; distances and the tree program proved (`AllocationSearchLemmas`) |
| `MCManager`, `MCInventory`, `MCBranchAndBound`, `MCAllocationSearch` | the instances for TLC (symmetry sets, tables, requests) | |

A definition whose comment starts with "Mutant of" is a plausible bug in the definition it names; it
is used by no specification and only shows that the property it is paired with in `PROJECT.json` can
fail.

### DeviceFeed

A device list is its version: the number of scans so far that changed the inventory. That is all the
feed's correctness depends on: which list is newer. `UpdateDevices` is four steps (the critical
section; the non-blocking send; the drain; the blocking send) because `ListAndWatch` goroutines
receive between them. `ListAndWatch` is the snapshot, the sends and the select. A stream's transport is
`up` (the kubelet reads it), `cut` (the kubelet is gone, the server does not know; sends are accepted
and lost, or fail) or `done` (the stream's context is cancelled). `Stop` closes `stopCh`, then stops
the server, which cancels the streams and waits for no handler. `UpdateDevices` may be called after
`Stop`: the manager does that to a plugin whose `Stop` failed. The kubelet opens one stream per
registration; the code accepts any number, so more than one is modelled, with at most one read at a
time.

Properties. `SendNeverBlocks`: the blocking send always finds room. `FreshestNotDropped`: between two
scans the newest list is queued or was taken. `NoLostUpdate`: a lone reader has the newest list or it
is on its way. It may see an old list after a new one for a moment (a snapshot taken between the
critical section and the drain is newer than the list in the channel), and the property says that it
never stays that way. `Converges`: with several streams an abandoned one can take an update, and it is
the unconditional push of the next scan that repairs it. `StopEndsHandlers`: no handler survives `Stop`.

`ImplementsFeed`: seen without channel, locks and transports, with `held` as the list a handler has in
hand, all this is module `Feed`: a stream takes the newest inventory or the one a scan is just
replacing, and shows the kubelet what it took. That is stronger than "some list of the past": two
complete scans later an inventory can no longer turn up.

### Manager

One action per step of the main goroutine at which something else can intervene: discovery, the visit
of each plugin, the start of each (listen, then register), each stop. A resource stands for its group;
`visible` is what discovery would return, and changes at any time. `server` (gRPC servers running),
`sock` (socket files) and `plugins` (keys of `m.plugins`) are separate because the failures separate
them: a crash or a failed remove leaves a socket that nobody serves, which `Start` removes before it listens
(`Unlinked`). `mode` says which of its three callers `reconcile` returns to, which decides whether an error is
logged or fatal. A watcher that cannot be set up, or closes its channels later, ends `Run` (`WatchFails`). Faults are actions or disjuncts guarded by `Fault(kind)`: which kinds may happen is the
constant `Faults`, how many is `MaxFaults`.

The kubelet is external, modelled from how the code uses it: it answers a registration after it has
connected to the endpoint's socket; it forgets its endpoints when it goes down; when it comes back it
empties the plugin directory and creates its socket, which is an event if the watch is in place; a
request whose caller timed out may be handled later (`LateRegister`).

Properties. `NoLeakedServer`: a running server or an endpoint of the kubelet always belongs to a plugin
in `m.plugins`, or to the `Start` in progress. `NeverClobbers`: `Start` never removes the socket of a
running server. `NoSilentLoss`: at rest, with the kubelet up and no event pending, every plugin in
`m.plugins` is an endpoint of the kubelet; it is what justifies that a scan only calls `UpdateDevices` for
them. `EventuallyAdvertised`, `EventuallyWithdrawn`: what stays on (off) the node ends up advertised
(withdrawn) for good. `CleanExit`: the step with which a process ends by itself leaves no server and, unless a remove
failed, no socket of a plugin in `m.plugins`. `ShutdownCompletes`: a signal ends the process.

### Inventory

A device is a physical function or one of its virtual functions. A scan lists the devices, then, for each
in any order, does `Lstat(physfn)`, `Readlink(physfn)` and the parent's `sriov_numvfs`, or its own
`sriov_numvfs`, then the status. The hardware may change between any two reads (`Repartition`,
`Hotplug`: a PF falls off the bus with its VFs or comes back, `StatusChange`) and every read may fail. `steady` and `clean` are history variables: the hardware is still
as the last scan found it, and none of its reads failed. No action reads them.

Properties. `UndisturbedScanExact` compares the outcome with `Expected`, the README's table as a
function of the hardware. `ErrorsNeverMisfile` and `ErrorsNeverDrain` are the two halves of the error policy:
classification fails closed, health fails open. `EventuallyExact`: whatever a scan that was disturbed
published, later scans repair.

### Advertising

The scan is `Inventory`, extended; what it publishes is handed out as `reconcile` does: the range over
`m.plugins` with `UpdateDevices` or `Stop`, then the starts. A start that fails ends the reconcile (on a tick
it is retried, at boot the process ends and starts again), and so does a `Stop` that fails (`StopFails`): the range does not get to
the plugins after it, which keep the lists they had; the plugin itself stays in `m.plugins` with its devices although its
server and its streams are gone (`down`). `toVisit` tells the two kinds apart until the next scan: it is what the range was not
done with. If the resource is still away then, `Stop` is tried again; if it is back, the plugin is updated and nobody connects (finding
2). A device list is a function from devices to health or
`Absent`. A plugin has one stream and its queue of one; the finer steps are `DeviceFeed`'s and their result is
`Feed`. Registration, kubelet restarts and shutdown are `Manager`'s and are not repeated.
Logging is part of the steps that log: `parseLevel`, the fallback and the gate, and the records about devices with
their level, health and counts. `told` is a history variable: what a reader who replays the records believes.

Properties. `PluginsHoldScan`: between two reconciles every plugin has exactly its group of the last scan, also
after a start that failed half-way, but for those a failing `Stop` kept the range from; and no plugin is kept without devices. `NoDoubleCount`: a PF
that was just partitioned and its VFs are in two plugins that are updated in any order. At every moment of the reconcile, and after it was
done or cut short, the plugins it is done with never have both, as long as the hardware stayed put during the scan; so when both are
held, one of them is in a plugin the range has not got to. That does happen: each update is pushed to the kubelet at once, in map order, so the
VFs' plugin may be updated before the PF's. It takes a moment or, if a failing `Stop` ends the range in between, until the next scan.
`LogTellsInventory`: at info and below the records
add up to every plugin's devices and their health, over plugins that come and go, and the counts are right.
`FaultsAlerted`: a device that becomes, or is found, unusable always causes a warning that names it.
`ViewSettles`: the whole path, from the hardware to the kubelet's list with the health of every device, for every plugin but
one that finding 2 describes, whose resource is then not offered at all.

### Allocation

One action per step of `Allocate` at which something else can intervene: the look-up of the devices, the recreation
of the RSD group, every poll of a device node, the annotations. Any error ends the whole call (`Fail`); the groups
made for earlier containers stay. Calls run side by side. The driver is external: `RecreateRsdGroup` ends the groups its devices are
in, makes one of exactly these devices and the group's node appears later; or it fails, before or after it
ended the old groups; or there are no groups (`hostRsdPath` empty). The kubelet is external: it hands out devices
it believes free, takes the response, ends pods without telling anyone, or is gone (`Abandon`), and then the handler,
which looks neither at its context nor at `stopCh`, goes on. Bus IDs are the devices; time is not modelled, so every
poll that finds nothing may be the last.

Properties. `DedicatedGroups`: every container whose call succeeded has, as long as its pod lives, the group its own call made, of exactly its
devices ("a dedicated, freshly created group node", `plugin.go:316-318`). The exception is recorded in the history
variable `trampled`: a call that was abandoned may recreate a group over the devices of a later one, and TLC
finds that without the exception. The code cannot tell; whether the kubelet's timing ever gets there is outside it.
`EveryCallReturns`: the waits are bounded whatever becomes of nodes and kubelet.

### BranchAndBound, AllocationSearch and PciTopology

`search` is a recursion with a loop at every level. Its stack is the sequence of loop variables of the open
calls (`picks`), because a call starts where its caller's loop stands; so one step machine with `enter`
and `loop` is the whole recursion. `BranchAndBound` keeps only that, a score and an order as constant operators, and
the freedom to skip (`Cut`) any call whose subtree holds nothing better than `best`.

`AllocationSearch` is the code: `s` is the `allocationSearch` record with its shared counters, score and best; a
frame holds a level's `i` and `previous`; the mandatory devices are added one by one before the first call; `add` and `undo` are what a turn of the loop does before and after the
recursive call; `lowerBound` has the code's three exits. Device IDs are numbers in the order of `sortedDeviceIDs`; serials and NUMA values
are what the parsers make of them (0 and -1 when unknown). `Search` instantiates `BranchAndBound`
with the README's score on sets of devices.

`PciTopology` starts from a device's canonical sysfs path, a sequence of components that are host bridges, PCI addresses or neither;
`pciDeviceAncestors` takes what is below the bridge or gives up (`NoPath`). It has a node for every prefix of a path, which is how `newPCITree` interns nodes; counts of devices
below a node replace the arrays `forcedSubtree` and `capacity`. Loop limits that only skip impossible entries
(`usedCapacity`) are left out; the window of counts per root is kept. `impossiblePCICost`, a quarter of the
largest integer in the program, is a constant.

Properties. `ScoreMatchesChosen`: after any number of undone choices score and counters are those of the chosen
set, by the README's definition (distances as symmetric differences of paths, not by climbing).
`BoundsAdmissible`: `lowerBound` is a score of natural numbers, and no completion scores less. `RefinesBranchAndBound`: a call is skipped only
if nothing in it wins, and best changes only as `BranchAndBound` says. `AnswerValid`: whatever the bounds skip, a valid request is answered, with as many
devices as it asks for, in order, and any other is left to the kubelet. `AnswerOptimal`: no other answer has a smaller
score, or the same one and smaller IDs. `NothingLost` and `Exact` are about `BranchAndBound`: what was passed never beats best, and the
end is the first optimum.

## The runs

| Run | Bounds | Shows |
| --- | --- | --- |
| `device_feed` | 2 streams, 3 changes | `SendNeverBlocks`, `FreshestNotDropped`, `NoLostUpdate`, `ImplementsFeed`, `Converges`, `StopEndsHandlers` |
| `manager_safety` | 3 resources, all kinds of faults, 2 faults, 2 kubelet restarts | `NoLeakedServer`, `NeverClobbers` |
| `manager_delivery` | 2 resources, 3 survivable faults, 2 kubelet restarts | `NoSilentLoss`, `CleanExit`, `EventuallyAdvertised`, `EventuallyWithdrawn`, `ShutdownCompletes` |
| `manager_missed_restart` | no fault but the restart before the watch | violated: finding 1 |
| `manager_failed_stop` | one failing remove | violated: finding 2 |
| `inventory` | 1 PF, modes 0, 1, 2 (unsupported) and 4; 2 changes, or 1 and 1 failing read | `UndisturbedScanExact`, `ErrorsNeverMisfile`, `ErrorsNeverDrain`, `EventuallyExact` |
| `inventory_vf_generic` | 1 PF, 1 change | violated: finding 3 |
| `advertising` | 2 PFs, modes 0 and 1; 1 change and 1 failing read, start or stop, or 2 of those; an unknown level and `warning` | `PluginsHoldScan`, `NoDoubleCount`, `LogTellsInventory`, `FaultsAlerted`, `ViewSettles` |
| `advertising_loss` | 2 PFs, 1 change, no error | violated: finding 4 |
| `allocation` | 2 devices, 2 calls of up to 2 containers, 2 group paths, 1 fault or change | `DedicatedGroups`, `EveryCallReturns` |
| `branch_and_bound` | up to 3 of 4 candidates, scores 0 to 2, every assignment | `NothingLost`, `Exact` |
| `allocation_search` | 5 devices at 5 positions in a forest of two roots (one of them: below something that is not PCI), with and without a mandatory device; 4 devices of several kinds, valid and malformed requests | `ScoreMatchesChosen`, `BoundsAdmissible`, `AnswerValid`, `AnswerOptimal`, `RefinesBranchAndBound` |

Why the bounds are enough. Two streams are needed for one to take the other's update (the proofs cover any number); a third change lets a list in the channel, a list in a handler and the newest one all
differ. Two resources let one be registered while the other is being started; the third lets a reconcile
fail between two. Two faults let a failure meet another during recovery, three let that happen once more after a crash or a signal; two kubelet restarts let a second
event be pending while the first is handled. One PF in every mode gives each class of device, and one change takes it from whole to partitioned, or back, under
the scan. The kernel only goes from one partition mode to another through 0, so a VF of mode 1 that becomes one of mode 4 takes two changes
(`MaxDisturbances` bounds changes and errors together, which keeps two of one kind affordable). In `advertising` two errors let a resource go
(a read that fails), its `Stop` fail, and the resource come back. Two PFs
show that a VF's mode is its own parent's, and that a resource may lose one device, or its last. Two calls let one be abandoned and
the other take its devices, two containers let the second fail after the first got its group, and two paths let a group move or be reused.
Five devices of which three are chosen are the fewest for which a call with two devices to go is skipped after another has
been completed; two roots, two bridges under one of them and a device directly below the root give every shape of
the tree program's merge; the kinds of devices differ pairwise in the first field of the score that tells them apart.
`impossiblePCICost` is 1000000 there, because TLC's integers have 32 bits; no sum of distances in that forest comes near it.
`CHECK_DEADLOCK` is off for `Allocation`, whose calls are a finite set and may all be over; elsewhere the scan ticker never stops, and
a search that is done stutters.

Fairness. `DeviceFeed`: a plugin that is not stopped is scanned again and again (the ticker); goroutines that can
run do; a receive from `updateCh` is strongly fair, because Go hands a list to a receiver that is parked
on the channel and a scan comes every five seconds, so the manager cannot drain every list before a
waiting stream gets one. `Manager`: the main goroutine and the DaemonSet keep going; the cases of `Run`'s select are
strongly fair, because Go's select chooses at random among the cases that are ready. `Inventory`: the
scan goes on. `Advertising`: reconcile goes on (the ticker), the kubelet connects to an endpoint that registered, and each stream's
handler runs when it can. `Allocation`: every handler runs when it can, which includes that its deadline passes. Nothing else is assumed of the kubelet, of the hardware or of faults: the liveness properties
state as a premise that the kubelet stays up or the resource stays, and bounds end the faults.

## Findings

1. **A kubelet restart before the watch exists is missed** (`manager.go:65`). `Run` registers
   everything and then installs the watch; a kubelet that restarts in between loses the registration, no event
   arrives, and scans only call `UpdateDevices`. README.md:77-78 says each scan updates the resources
   advertised to the kubelet. Installing the watch before the first reconcile closes the window.
2. **A plugin whose `Stop` failed is taken for a running one** (`manager.go:151`). `reconcile` returns
   before `delete`, with the server already stopped; if the resource is back at the next scan, it is updated and never
   started.
3. **A VF that vanishes during a scan is advertised as `rebellions.ai/npu`** (`sriov.go:69`). Neither
   `physfn` nor `sriov_numvfs` exists, which is read as "not partitioned"; README.md:277 says VF resources are
   always named `npu-vf<N>`. It lasts until the next scan.
4. **The last device of a resource disappears without a warning** (`manager.go:155`). README.md:228 gives
   `Device disappeared from inventory` the level warn, and README.md:256-257 says alerting on warn cannot miss unusable hardware.
   When the device was the last of its resource, `reconcile` stops the plugin instead of calling `UpdateDevices`, and the only record is
   an info one that names no device.

## The proofs

Every theorem holds for all values of the constants that the modules' assumptions allow: bounds are natural numbers, partition
modes include 0, faults are of the listed kinds, a search has something to choose and scores are ordered. In
`AllocationSearch` a table is any sequence of devices and a request any lists of IDs with any size. The one
assumption on them (`DistancesAssumption`) is that the distances between all the available devices add up to less than `impossiblePCICost`, the
number the tree program takes for "impossible": about 2^61 in the program (`pci_allocation_bounds.go:89`), where a distance
is a number of hops between devices of one host. Only the theorems on the bounds and what follows from them use it.

`DeviceFeedProofs` proves `TypeOK`, `SendNeverBlocks`, `FreshestNotDropped` and `NoLostUpdate`. None is inductive: the proof
needs to know that the list being pushed is `p.devices` as long as `UpdateDevices` runs (`Pushing`; only the manager's goroutine
writes it), and that between two calls the channel holds nothing older than `p.devices` (`NothingStale`). With these, a stream that
receives between two scans receives the newest list, and one that receives during a push will find the newest in
the channel afterwards. `ImplementsFeed` is proved step by step and needs one more fact: what is in the channel is never older
than the list before the newest (`Recent`).

`ManagerProofs` proves `TypeOK`, `NoLeakedServer` and the action properties `NeverClobbers` and `CleanExit`. The invariant adds that
one `Start` runs at a time with its
server up (`OneStart`), that a resource the manager already has is out of `groups` before anything is started
(`Visited`), and that `restart` forgets its plugins when every server is stopped (`Stopping`). `CleanExit` needs that the plugins
which are not yet stopped on the way out are those still to be visited (`ExitInv`). For faults that exclude
a failing remove, a lost event and an unwatched restart (`SurvivableFaults`, the complement of findings 1 and 2 and of
inotify overflow) it also proves `NoSilentLoss`: a kubelet that is down while nobody watches has nothing to lose
(`NothingToLose`), and one that went down while watched leaves an event.

`InventoryProofs` proves `TypeOK`, `UndisturbedScanExact`, `ErrorsNeverMisfile` and `ErrorsNeverDrain`. They speak of the end of a scan; the
invariant (`ScanInv`) says what a scan knows on the way: a device it is not done with has nothing recorded (`Pending`), on steady
hardware the label of the scan tells what was learnt of the device at hand, and what was recorded is right (`Sound`), and
without a failing read nothing is missing (`Complete`).

`AdvertisingProofs` proves `OfferTypeOK`, `PluginsHoldScan`, `NoDoubleCount`, `LogTellsInventory` and the action property `FaultsAlerted`. It rests on
`InventoryProofs`: every step of the larger system is a step of the scan or leaves it alone (`ScanKept`). To that it adds who holds what
while reconcile goes from plugin to plugin (`Held`): those the range is done with have their group of the last scan, those outside
`m.plugins` nothing. That is said of every moment and not only of the time between two reconciles, because a failing `Stop` may end the range anywhere. `NoDoubleCount` follows from `Held` and `ErrorsNeverMisfile`. For the log, two lemmas say that the records of
`UpdateDevices` and of `Start` cover every difference and carry the right health, level and counts (`WellMade`, `Covers`).

`AllocationProofs` proves `TypeOK` and `DedicatedGroups`. The property speaks of calls that succeeded; what is preserved is that from the
moment a call recorded a path the group there is its own (`Owned`), which needs that the kubelet never asks for a device twice at
a time (`Exclusive`), and that only a call whose caller waits or gave up gets to the driver (`Working`).

`BranchAndBoundProofs` proves, for any score and any order whose ties are transitive:
`TypeOK`, `NothingLost` and `Exact`. The invariant adds the shape of the stack (`Shape`: loop variables increase and
leave enough candidates) and that everything ahead comes after best (`BestFirst`), which is why a strict
comparison at the leaf and a bound that equals best's score still give the first optimum. The central lemma is that a return removes from what
is ahead exactly the subtree of the call (`ReturnAhead`).

`AllocationSearchLemmas` and `AllocationSearchProofs` prove `TypeOK`, `ScoreMatchesChosen` and `AnswerValid` of the search as the code does it.
The lemmas are about the operators. `LCA`, which climbs, ends at the longest common prefix (`LCAIsMeet`), so a distance is the number of nodes above
one end and not the other (`HopsIsDistance`); `pciDeviceAncestors` finds the path the README describes (`AncestorsIsUpstream`);
`Sorted` enumerates its set (`SortedEnumerates`); and the score of a set with one more device is what `add` makes of
the score without it (`AddScore`). Where a fact about finite sets, numbers or sums needs induction, the proof
looks at a smallest counterexample (`LeastNumber`, `MinimalSet`), and sums are counts of units (`SumIsCount`).
The invariant `SearchInv` says that score and counters are those of the chosen devices and that every open call remembers the score of the devices
chosen before its own (`Stacked`); that is what makes `undo` exact at every depth, and it is not a consequence of the property at
one level. `AnswerValid` needs, in addition, that until a first set is complete every open call is in the first turn
of its loop (`FirstDescent`): that is why a search without a best never runs out of candidates. `SearchQualifies` shows that every
search meets the assumptions of `BranchAndBound` with the documented score and the code's `less`, so its theorems are about searches the code makes.

`BoundsAreAdmissible` proves `BoundsAdmissible`, field by field and exit by exit. A bound need not be below a completion's score in
every field: the PCI fields are computed for a completion with the fewest unknown paths, so they count only where all fields before them are
equal (`NoHigher`, and `NoHigherIsNotLess` says that this is enough).
- The prefix (`PrefixAdmissible`): the groups a completion opens and the unknown NUMA nodes and paths it must take are counted from
  the candidates that are left (`GroupBound`, `NumaBound`, `UnknownBound`).
- The first exit (`CheapAdmissible`) charges every link still to come the shortest distance of the table. That needs the
  invariant `MinimaInv`: `minDistance` and `minSeparateRoots` stay what `prepareBounds` computed.
- The second exit (`FarAdmissible`): of the candidates in the order of their distance from the chosen devices, a completion takes
  one at least as far as the one the code looks up (`WorstBound`).
- The third exit (`TreeAdmissible`) is the tree program. The comment in the code (`pci_allocation_bounds.go:91`) says that an edge above c of the K devices of a root
  adds c*(K-c) to the sum of their distances; that is `SplitsOf`, by counting triples of a node and two devices of which it is above
  the first only (`Splits`), and `FibreIsHops` and `WithinIsDistance` say that the triples of a pair are its distance. By induction from the deepest node
  no placement costs less than `pciSubtreeCosts` says (`NodeBound`, `SubtreeBound`), and by induction over the roots that were merged
  none costs less than `pciLowerBound` (`ForestBound`), which includes that the window of counts per root never
  excludes the count of a completion (`CountOfRoot`). Here `DistancesAssumption` is needed: a placement that cost as much as
  `impossiblePCICost` would be passed over.

The tree program is a recursion over the forest with a fold over the children inside. That such functions exist at all is proved first
(`FoldExists`, `CostsDefined`, `RootsFold`), again from a least counterexample, and nothing in the proof depends on the order in
which the folds visit children and roots.

`SearchRefines` proves `RefinesBranchAndBound`, step by step: adding mandatory devices is a stutter, a turn of the
loop is `Choose`, a leaf is `Leaf`, the return of a call that was left early is `Cut` or `Exhausted`. It needs, beyond `SearchInv`, that
`bestScore` is the score of `best` and that a call begins after its caller's choice (`BestInv`). The step that matters is the cut: what is below a
call are the completions of the chosen devices by later candidates (`CompletionOf`), so an admissible bound that does not beat best
leaves nothing that does.

`AnswersAreOptimal` proves `AnswerOptimal`. The prover cannot cite a theorem of an instance, so the argument of
`BranchAndBoundProofs` is made again for the concrete search: every complete choice either is still ahead (`Remains`) or does not beat best
(`Settled`, in `LostInv`). Lemmas say what each step removes from what is ahead, that of two choices the one that is found first has the smaller
of the IDs on which they differ (`FirstDifference`), and that `less` is total on scores (`LessIsTotal`), so that what does not
win loses or ties. Both arguments use of the bounds only that they are admissible (`RefinesIfAdmissible`, `OptimalIfAdmissible`), so
another admissible bound could take the place of this one.

The proofs led to two corrections: `Expected` in `Inventory` and `LCA` in `PciTopology` had `CASE` arms that overlapped, which
TLC reads in order and TLA+ does not.

Only model-checked: the liveness properties, because fairness is out of the prover's reach. Every invariant, every action
property and both refinements that the passing runs check are theorems.

## Not modelled

Not modelled: the command line and its flags (configuration); tracing and the bridges from gRPC's and OpenTelemetry's
loggers (they convert records and keep no state of this program; a failing set-up is logged and ignored); the format of
log records; the health service's `Check` (reads one bit and the service name); the spelling of addresses and
serial numbers (a device has a known one or not); what the CDI annotations say (constants); `.github/scripts/rnpm_rc.py` (a single-threaded
client of a service that is not in the repository); charts, images and workflows.
A device without a PCI bus ID (`sriov.go:47-49` classes it as not partitioned, `plugin.go:301` refuses to allocate it) and a gRPC
server whose `Serve` ends by itself (`plugin.go:90-92`, which only logs it) are left out.
How long the search for the best set takes is not modelled either: it has no limit and ignores the request's context.
