---------------------------- MODULE Advertising -----------------------------
(***************************************************************************)
(* From the hardware to the kubelet: the scans of module Inventory,        *)
(* reconcile (manager.go), which hands what a scan found to one plugin     *)
(* after the other, the list each plugin streams to the kubelet (plugin.go)*)
(* and the records the process logs on the way (inventory.go, logging.go). *)
(*                                                                         *)
(* A device list gives the health of every device, or Absent.  A plugin    *)
(* feeds its list to the kubelet as in module Feed, on one stream: the     *)
(* steps of channel, locks and transport are those of module DeviceFeed.   *)
(* Kubelet restarts and shutdown are those of module Manager.  A status is *)
(* abstracted to the health it stands for.  The scanner's state, constants *)
(* and steps are Inventory's, extended; MaxErrors bounds failing reads,    *)
(* Starts and Stops together.                                              *)
(***************************************************************************)
EXTENDS Inventory, FiniteSets

CONSTANT
    LogLevelEnv  \* values of RBLN_DEVICE_PLUGIN_LOG_LEVEL

VARIABLES
    booting,   \* the initial reconcile is not over
    phase,     \* "scan" or, in the rest of reconcile, "apply"
    plugins,   \* the keys of m.plugins
    toVisit,   \* plugins the range over m.plugins has yet to visit; after a Stop
               \* that failed, its plugin and those it never got to
    fresh,     \* the resources left in reconcile's groups
    devices,   \* p.devices of every plugin
    down,      \* plugins whose server is stopped although their Stop failed
    streams,   \* plugins whose ListAndWatch the kubelet has called
    updateCh,  \* the list queued for it, {} or a singleton
    view,      \* the kubelet's list of every resource
    env,       \* the value of RBLN_DEVICE_PLUGIN_LOG_LEVEL
    log,       \* the device records logged by the last step
    told       \* history: the lists a reader of all records has put together

manager == <<booting, phase, plugins, toVisit, fresh, devices, down>>
feed == <<streams, updateCh, view>>
logger == <<env, log, told>>
offerVars == <<vars, manager, feed, logger>>

Plugin == Resource \ {Nothing}
Absent == "absent"
NoDevices == [d \in Device |-> Absent]

\* The group of r that the last scan found.
Group(r) == [d \in Device |-> IF advertised[d] = r THEN advHealth[d] ELSE Absent]

-----------------------------------------------------------------------------
(* Logging *)

Severity == [debug |-> 0, info |-> 1, warn |-> 2, error |-> 3]

parseLevel(s) ==
    CASE s \in {"", "info"} -> "info"
      [] s \in {"warning", "warn"} -> "warn"
      [] s \in {"error", "debug"} -> s
      [] OTHER -> "invalid"

\* The level of the logger.  An unknown value falls back to info.
setupFromEnv == IF parseLevel(env) = "invalid" THEN "info" ELSE parseLevel(env)

Enabled(level) == Severity[setupFromEnv] <= Severity[level]

\* Mutant of levelForHealth: the state of a device is always information.
levelForHealthInfo(h) == "info"

levelForHealth(h) == IF h = "Unhealthy" THEN "warn" ELSE "info"

\* deviceCount is their sum.
healthCounts(list) ==
    <<Cardinality({d \in Device : list[d] = "Healthy"}),
      Cardinality({d \in Device : list[d] = "Unhealthy"})>>

Record(level, d, h, list) == [level |-> level, device |-> d, health |-> h, counts |-> healthCounts(list)]

Added(old, new) == {d \in Device : old[d] = Absent /\ new[d] # Absent}

Removed(old, new) == {d \in Device : old[d] # Absent /\ new[d] = Absent}

\* Mutant of Changed: a device that recovers has not changed.
ChangedForWorse(old, new) == {d \in Device : old[d] = "Healthy" /\ new[d] = "Unhealthy"}

Changed(old, new) == {d \in Device : old[d] # new[d]} \ (Added(old, new) \cup Removed(old, new))

\* diffDeviceInventories and the records of logInventoryDelta.
logInventoryDelta(old, new) ==
    {Record(levelForHealth(new[d]), d, new[d], new) : d \in Added(old, new) \cup Changed(old, new)}
        \cup {Record("warn", d, Absent, new) : d \in Removed(old, new)}

\* "Device exposed", after "Registered device plugin" with the counts.
Exposed(list) == {Record(levelForHealth(list[d]), d, list[d], list) : d \in Added(NoDevices, list)}

\* The records about r's devices that pass the gate, and what a reader, who had
\* put together before, makes of them.
Log(r, before, records) ==
    LET passed == {x \in records : Enabled(x.level)}
    IN  /\ log' = passed
        /\ told' = [told EXCEPT ![r] = [d \in Device |->
                        IF \E x \in passed : x.device = d
                        THEN (CHOOSE x \in passed : x.device = d).health
                        ELSE before[d]]]
        /\ UNCHANGED env

\* "Registered device plugin" and "Stopped device plugin" are about all devices.
Anew(r) == IF Enabled("info") THEN NoDevices ELSE told[r]

Quiet == log' = {} /\ UNCHANGED <<env, told>>

-----------------------------------------------------------------------------
\* All devices are READY; one may fault before the first scan.
OfferInit ==
    /\ Init /\ ready = Device
    /\ booting = TRUE /\ phase = "scan"
    /\ plugins = {} /\ toVisit = {} /\ fresh = {} /\ down = {}
    /\ devices = [r \in Plugin |-> NoDevices]
    /\ streams = {} /\ updateCh = [r \in Plugin |-> {}]
    /\ view = devices
    /\ env \in LogLevelEnv /\ log = {} /\ told = devices

-----------------------------------------------------------------------------
(* reconcile *)

Discovering ==
    /\ phase = "scan"
    /\ Discover
    /\ Quiet
    /\ UNCHANGED <<manager, feed>>

\* discoverDeviceGroups returns: the range over m.plugins begins.
Discovered ==
    /\ phase = "scan"
    /\ Publish
    /\ phase' = "apply"
    /\ toVisit' = plugins
    /\ fresh' = {r \in Plugin : \E d \in Device : advertised'[d] = r}
    /\ Quiet
    /\ UNCHANGED <<booting, plugins, devices, down, feed>>

\* A step of the rest of reconcile.
Apply == phase = "apply" /\ UNCHANGED <<hardware, scan, result, steady, clean>>

Visit(r) == r \in toVisit /\ toVisit' = toVisit \ {r} /\ UNCHANGED errors

\* reconcile returns an error: what is left of the groups is dropped.
ReconcileError ==
    /\ CountError
    /\ phase' = "scan" /\ fresh' = {}

\* Mutant of Updated: devices that are gone stay.
UpdatedAndKept(r) == [d \in Device |-> IF Group(r)[d] = Absent THEN devices[r][d] ELSE Group(r)[d]]

\* p.devices = cloneDeviceMap(devices)
Updated(r) == Group(r)

\* plugin.UpdateDevices(group.Devices)
UpdateDevices(r) ==
    /\ Apply
    /\ Visit(r) /\ r \in fresh
    /\ fresh' = fresh \ {r}
    /\ devices' = [devices EXCEPT ![r] = Updated(r)]
    /\ Log(r, told[r], logInventoryDelta(devices[r], Updated(r)))
    /\ updateCh' = [updateCh EXCEPT ![r] = {Updated(r)}]
    /\ UNCHANGED <<booting, phase, plugins, down, streams, view>>

\* Mutant of EndedStreams: ListAndWatch does not see stopCh.
NoEndedStreams(S) == streams

EndedStreams(S) == streams \ S

\* Stop of the plugins in S: their streams end, and with them the kubelet's
\* endpoints and what it has of their devices.
Stopped(S) ==
    /\ plugins' = plugins \ S /\ down' = down \ S
    /\ streams' = EndedStreams(S)
    /\ devices' = [r \in Plugin |-> IF r \in S THEN NoDevices ELSE devices[r]]
    /\ updateCh' = [r \in Plugin |-> IF r \in S THEN {} ELSE updateCh[r]]
    /\ view' = [r \in Plugin |-> IF r \in S THEN NoDevices ELSE view[r]]

\* Mutant of StopAbsent: a plugin without devices is kept, as it is.
KeepAbsent(r) ==
    /\ Apply
    /\ Visit(r) /\ r \notin fresh
    /\ Quiet
    /\ UNCHANGED <<booting, phase, fresh, plugins, devices, down, feed>>

\* A resource without devices: "Stopped device plugin for absent resource".
StopAbsent(r) ==
    /\ Apply
    /\ Visit(r) /\ r \notin fresh
    /\ Stopped({r})
    /\ Log(r, Anew(r), {})
    /\ UNCHANGED <<booting, phase, fresh>>

\* Stop returns an error after it ended server and streams: the plugin stays in
\* m.plugins with its devices, and the range does not get to those after it.
StopFails(r) ==
    /\ Apply
    /\ r \in toVisit \ fresh
    /\ ReconcileError
    /\ down' = down \cup {r}
    /\ streams' = EndedStreams({r})
    /\ view' = [view EXCEPT ![r] = NoDevices]
    /\ Quiet
    /\ UNCHANGED <<booting, toVisit, plugins, devices, updateCh>>

\* NewResourcePlugin, and Start up to its records.
Start(r) ==
    /\ Apply
    /\ toVisit = {} /\ r \in fresh
    /\ fresh' = fresh \ {r}
    /\ plugins' = plugins \cup {r}
    /\ devices' = [devices EXCEPT ![r] = Group(r)]
    /\ Log(r, Anew(r), Exposed(Group(r)))
    /\ UNCHANGED <<errors, booting, phase, toVisit, down, feed>>

\* Start fails: reconcile returns.  On a tick that is logged, the first time it
\* ends the process, which the DaemonSet starts again.
StartFails(r) ==
    /\ Apply
    /\ toVisit = {} /\ r \in fresh
    /\ ReconcileError
    /\ \/ booting /\ Stopped(plugins) /\ told' = [p \in Plugin |-> NoDevices]
       \/ ~booting /\ UNCHANGED <<plugins, devices, down, feed, told>>
    /\ log' = {}
    /\ UNCHANGED <<booting, toVisit, env>>

Reconciled ==
    /\ Apply
    /\ toVisit = {} /\ fresh = {}
    /\ phase' = "scan"
    /\ booting' = FALSE
    /\ Quiet
    /\ UNCHANGED <<errors, plugins, toVisit, fresh, devices, down, feed>>

Reconcile ==
    \/ Discovering \/ Discovered \/ Reconciled
    \/ \E r \in Plugin : UpdateDevices(r) \/ StopAbsent(r) \/ StopFails(r) \/ Start(r) \/ StartFails(r)

-----------------------------------------------------------------------------
(* ListAndWatch and the kubelet *)

\* A step of ListAndWatch leaves the manager and the scan alone.
Streaming ==
    /\ Quiet
    /\ UNCHANGED <<hardware, scan, result, errors, steady, clean, manager>>

\* The kubelet calls ListAndWatch of a running server, which begins with
\* currentDevices().
Connect(r) ==
    /\ r \in plugins \ (streams \cup down)
    /\ streams' = streams \cup {r}
    /\ view' = [view EXCEPT ![r] = devices[r]]
    /\ Streaming
    /\ UNCHANGED updateCh

\* case devices := <-p.updateCh, and stream.Send
Send(r) ==
    /\ r \in streams
    /\ \E list \in updateCh[r] : view' = [view EXCEPT ![r] = list]
    /\ updateCh' = [updateCh EXCEPT ![r] = {}]
    /\ Streaming
    /\ UNCHANGED streams

ListAndWatch(r) == Connect(r) \/ Send(r)

Hardware == Environment /\ Quiet /\ UNCHANGED <<manager, feed>>

OfferNext == Reconcile \/ Hardware \/ \E r \in Plugin : ListAndWatch(r)

OfferSpec == OfferInit /\ [][OfferNext]_offerVars

\* The scan ticker never stops, the kubelet connects to what registers, and
\* goroutines that can run do.
OfferFairSpec == OfferSpec /\ WF_offerVars(Reconcile) /\ \A r \in Plugin : WF_offerVars(ListAndWatch(r))

-----------------------------------------------------------------------------
(* Properties *)

DeviceList == [Device -> Health \cup {Absent}]

\* Every variable of this module has its type.
OfferTypeOK ==
    /\ booting \in BOOLEAN
    /\ phase \in {"scan", "apply"}
    /\ toVisit \subseteq plugins
    /\ plugins \subseteq Plugin
    /\ down \subseteq plugins
    /\ streams \subseteq plugins \ down
    /\ fresh \subseteq Plugin
    /\ devices \in [Plugin -> DeviceList]
    /\ updateCh \in [Plugin -> SUBSET DeviceList]
    /\ \A r \in Plugin : \A x, y \in updateCh[r] : x = y
    /\ view \in [Plugin -> DeviceList]
    /\ env \in LogLevelEnv
    /\ told \in [Plugin -> DeviceList]

\* Between two reconciles every plugin holds exactly its group of the last scan,
\* whichever plugins came, went or failed to start, but for those a failing Stop
\* kept the range from; and in m.plugins there is none without devices.
PluginsHoldScan ==
    /\ phase = "scan" => \A r \in plugins \ toVisit : devices[r] = Group(r)
    /\ \A r \in plugins : devices[r] # NoDevices

\* Among the plugins in S, the lists have p and one of its own VFs.
CountedTwice(p, S) ==
    \E q, r \in S : \E i \in 1 .. MaxVFs :
        devices[q][<<p, 0>>] # Absent /\ devices[r][<<p, i>>] # Absent

\* Compute is not "double-counted" by what a scan handed out: at every moment of
\* a reconcile, done or cut short, no two plugins that are done with have a PF
\* and one of its VFs, unless the hardware changed under the scan.
NoDoubleCount ==
    steady /\ pc = "idle" => \A p \in PFs : ~CountedTwice(p, Plugin \ toVisit)

\* The log "reports change" only, and that is enough: replaying its records
\* gives every plugin's devices with their health, and the counts in a record
\* are those of the devices it leaves.
LogTellsInventory ==
    env \notin {"warn", "warning", "error"} =>
        /\ told = devices
        /\ \A x \in log : \E r \in Plugin : x.counts = healthCounts(told[r])

\* Some record of this step warns of device d.
Warned(d) == \E x \in log' : x.device = d /\ Severity[x.level] >= Severity["warn"]

\* A device becomes unusable in r's plugin, or is found so when first seen.
Faults(r, d) == devices[r][d] # "Unhealthy" /\ devices'[r][d] = "Unhealthy"

\* "alerting on warn cannot miss unusable hardware" (README.md:256), unless the
\* level was set to error.
FaultsAlerted ==
    [][env # "error" => \A r \in Plugin, d \in Device : Faults(r, d) => Warned(d)]_offerVars

\* The list of r on hardware as it is.
Actual(r) ==
    [d \in Device |-> IF Expected(d) # r THEN Absent
                      ELSE IF d \in ready THEN "Healthy" ELSE "Unhealthy"]

\* Once the hardware settles, the kubelet's lists are what is there, down to the
\* health of every device, whatever was read half-way, failed to start or was
\* left with an old list before; only a resource that came back to a plugin
\* whose Stop had failed is not offered.
ViewSettles ==
    <>[](\A r \in Plugin : view[r] = IF r \in down THEN NoDevices ELSE Actual(r))

\* "Device disappeared from inventory (warn)" (README.md:228): whatever takes a
\* device out of the offer, a warning names it.
LossAlerted ==
    [][env # "error" => \A r \in Plugin, d \in Device :
          ~booting /\ d \in Removed(devices[r], devices'[r]) => Warned(d)]_offerVars
=============================================================================
