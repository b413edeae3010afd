------------------------------- MODULE Manager -------------------------------
(***************************************************************************)
(* The life of an rbln-device-plugin process: boot (main.go, health.go),   *)
(* the Manager's reconcile and restart (manager.go), the Start, register   *)
(* and Stop of its ResourcePlugins (plugin.go), shutdown, crash and        *)
(* restart by the DaemonSet; against a kubelet that may go down and come   *)
(* back at any moment.                                                     *)
(*                                                                         *)
(* A resource stands for its DeviceGroup: `visible` is the set of the      *)
(* resources discoverDeviceGroups would return now.  Faults is the set of  *)
(* the kinds of faults that may happen, MaxFaults bounds how many do.      *)
(***************************************************************************)
EXTENDS Naturals, FiniteSets

CONSTANTS
    Resource,     \* resource names
    Faults,       \* kinds of faults that may happen, a subset of FaultKind
    MaxFaults,    \* bound on the number of faults
    MaxRestarts   \* bound on the number of kubelet restarts

FaultKind == {
    "crash",      \* the process is killed
    "signal",     \* a shutdown signal is delivered
    "discover",   \* getDevices returns an error
    "remove",     \* os.Remove of a socket fails with more than "not exist"
    "listen",     \* MkdirAll, os.Remove or net.Listen fails in Start
    "register",   \* Register fails or times out although the kubelet is up
    "setup",      \* CDI clean-up, the health port or the watcher fails
    "overflow",   \* the watcher loses an event
    "unwatched" } \* the kubelet restarts before the watcher is in place

ASSUME FaultsAssumption == Faults \subseteq FaultKind /\ MaxFaults \in Nat
ASSUME RestartsAssumption == MaxRestarts \in Nat

VARIABLES
    pc,         \* where the process' main goroutine is
    mode,       \* which call of reconcile this is: "initial", "tick", "restart"
    cancelled,  \* the context of Run is cancelled
    health,     \* the health service: "off", "starting" or "serving"
    plugins,    \* the keys of m.plugins
    toVisit,    \* plugins the current range over m.plugins has yet to visit
    groups,     \* reconcile's local groups
    starting,   \* the resources whose plugin.Start is in progress (at most one)
    server,     \* resources with a listening gRPC server in this process
    sock,       \* resources with a socket file on disk
    watching,   \* the fsnotify watch on the plugin directory is in place
    events,     \* Create events of the kubelet's socket not yet handled
    visible,    \* the node's devices, as discoverDeviceGroups would group them
    kubeletUp,  \* the kubelet runs and serves its registration socket
    kreg,       \* resources whose endpoint the kubelet is connected to
    late,       \* Register requests the kubelet holds whose caller gave up
    restarts,   \* kubelet restarts so far
    faults      \* faults so far

process == <<pc, mode, cancelled, health, plugins, toVisit, groups, starting>>
disk == <<server, sock>>
watch == <<watching, events>>
kubelet == <<kubeletUp, kreg, late, restarts>>
vars == <<process, disk, watch, kubelet, visible, faults>>

\* A node on which no plugin has run yet.
Init ==
    /\ pc = "down" /\ mode = "initial" /\ cancelled = FALSE /\ health = "off"
    /\ plugins = {} /\ toVisit = {} /\ groups = {} /\ starting = {}
    /\ server = {} /\ sock = {}
    /\ watching = FALSE /\ events = 0
    /\ visible \in SUBSET Resource
    /\ kubeletUp = TRUE /\ kreg = {} /\ late = {} /\ restarts = 0
    /\ faults = 0

\* A fault of the given kind happens in this step.
Fault(kind) == kind \in Faults /\ faults < MaxFaults /\ faults' = faults + 1

NoFault == UNCHANGED faults

-----------------------------------------------------------------------------
(* ResourcePlugin.Stop, as a part of the manager's steps *)

\* p.server.Stop() and p.listener.Close(): the kubelet's stream ends, and with
\* it the endpoint.
StopServing(r) == server' = server \ {r} /\ kreg' = kreg \ {r}

\* Mutant of StopPlugin: it does nothing.
StopNothing(r) == UNCHANGED <<server, kreg, sock>> /\ NoFault

\* Stop of r's plugin returns nil.
StopPlugin(r) == StopServing(r) /\ sock' = sock \ {r} /\ NoFault

\* Stop of r's plugin returns the error of os.Remove.
StopPluginFails(r) == StopServing(r) /\ r \in sock /\ UNCHANGED sock /\ Fault("remove")

-----------------------------------------------------------------------------
(* main.Run and NewManager *)

\* NewManager succeeds; Manager.Run calls reconcile.
Boot ==
    /\ pc = "down"
    /\ pc' = "discover" /\ mode' = "initial" /\ health' = "starting"
    /\ NoFault
    /\ UNCHANGED <<cancelled, plugins, toVisit, groups, starting, disk, watch, kubelet, visible>>

\* NewManager fails and the process exits.
BootFails ==
    /\ pc = "down"
    /\ Fault("setup")
    /\ UNCHANGED <<process, disk, watch, kubelet, visible>>

\* Run returns: its deferred calls close the watcher, then Manager.Stop takes
\* the health service down before it stops the plugins that are left.
LeaveRun(left) ==
    /\ pc' = "exit" /\ health' = "off"
    /\ watching' = FALSE /\ events' = 0
    /\ toVisit' = left /\ groups' = {}

-----------------------------------------------------------------------------
(* Manager.reconcile *)

\* reconcile returns an error: fatal, except on a tick, where it is logged.
ReconcileError ==
    \/ /\ mode = "tick"
       /\ pc' = "loop" /\ toVisit' = {} /\ groups' = {}
       /\ UNCHANGED <<health, watch>>
    \/ mode \in {"initial", "restart"} /\ LeaveRun(plugins)

\* groups := discoverDeviceGroups(ctx).  A discovery error is an empty result.
Discover ==
    /\ pc = "discover"
    /\ (groups' = visible /\ NoFault) \/ (groups' = {} /\ Fault("discover"))
    /\ toVisit' = plugins
    /\ pc' = "reconcile"
    /\ UNCHANGED <<mode, cancelled, health, plugins, starting, disk, watch, kubelet, visible>>

\* A plugin whose resource is still there: UpdateDevices (module DeviceFeed).
VisitPresent(r) ==
    /\ pc = "reconcile" /\ r \in toVisit \cap groups
    /\ toVisit' = toVisit \ {r} /\ groups' = groups \ {r}
    /\ NoFault
    /\ UNCHANGED <<pc, mode, cancelled, health, plugins, starting, disk, watch, kubelet, visible>>

\* A plugin whose resource is gone is stopped and forgotten.
VisitAbsent(r) ==
    /\ pc = "reconcile" /\ r \in toVisit \ groups
    /\ StopPlugin(r)
    /\ toVisit' = toVisit \ {r} /\ plugins' = plugins \ {r}
    /\ UNCHANGED <<pc, mode, cancelled, health, groups, starting, watch, kubeletUp, late, restarts, visible>>

\* Stopping it fails: the plugin, its server stopped, stays in m.plugins.
VisitAbsentFails(r) ==
    /\ pc = "reconcile" /\ r \in toVisit \ groups
    /\ StopPluginFails(r)
    /\ ReconcileError
    /\ UNCHANGED <<mode, cancelled, plugins, starting, kubeletUp, late, restarts, visible>>

\* Mutant of Unlinked: a socket that is left over stays.
UnlinkedNothing(r) == sock

\* os.Remove of a socket that an earlier process or a failed Stop left.
Unlinked(r) == sock \ {r}

\* NewResourcePlugin and the first half of Start: net.Listen takes a free path.
StartPlugin(r) ==
    /\ pc = "reconcile" /\ toVisit = {} /\ r \in groups
    /\ starting' = {r} /\ pc' = "register"
    /\ r \notin Unlinked(r)
    /\ server' = server \cup {r} /\ sock' = Unlinked(r) \cup {r}
    /\ NoFault
    /\ UNCHANGED <<mode, cancelled, health, plugins, toVisit, groups, watch, kubelet, visible>>

\* Start fails before it listens; the rest of the groups are not started.
StartPluginFails(r) ==
    /\ pc = "reconcile" /\ toVisit = {} /\ r \in groups
    /\ Fault("listen")
    /\ ReconcileError
    /\ UNCHANGED <<mode, cancelled, plugins, starting, disk, kubelet, visible>>

\* Mutant of Keep: the started plugin is not remembered.
KeepNothing(r) == UNCHANGED plugins

\* m.plugins[resourceName] = plugin
Keep(r) == plugins' = plugins \cup {r}

\* Mutant of StartReturns: Start is taken to be still running.
StartHangs == UNCHANGED starting

StartReturns == starting' = {}

\* Register succeeds: the kubelet, which answers once it is connected to the
\* endpoint, found its socket.  Start returns nil.
Registered(r) ==
    /\ pc = "register" /\ r \in starting
    /\ kubeletUp /\ r \in sock
    /\ kreg' = kreg \cup {r}
    /\ Keep(r) /\ groups' = groups \ {r}
    /\ StartReturns /\ pc' = "reconcile"
    /\ NoFault
    /\ UNCHANGED <<mode, cancelled, health, toVisit, disk, watch, kubeletUp, late, restarts, visible>>

\* Why register fails: no kubelet within registerTimeout, a cancelled context,
\* a kubelet that wiped the socket when it came up and cannot connect to it,
\* or one that refuses or answers too late.
RegisterGivesUp(r) ==
    \/ (~kubeletUp \/ cancelled \/ r \notin sock) /\ NoFault
    \/ kubeletUp /\ Fault("register")

\* Mutant of UndoStart: Start returns the error without calling Stop.
UndoNothing(r) == UNCHANGED <<server, kreg, sock>>

\* _ = p.Stop(): its error is ignored.
UndoStart(r) ==
    /\ StopServing(r)
    /\ sock' = sock \ {r} \/ ("remove" \in Faults /\ UNCHANGED sock)

\* register fails and Start undoes what it did.  A request that timed out may
\* still be with the kubelet.
RegisterFails(r) ==
    /\ pc = "register" /\ r \in starting
    /\ RegisterGivesUp(r)
    /\ UndoStart(r)
    /\ StartReturns /\ ReconcileError
    /\ late' = late \/ (kubeletUp /\ late' = late \cup {r})
    /\ UNCHANGED <<mode, cancelled, plugins, kubeletUp, restarts, visible>>

\* reconcile returns nil; after the initial one Run reports SERVING.
ReconcileDone ==
    /\ pc = "reconcile" /\ toVisit = {} /\ groups = {}
    /\ \/ mode = "initial" /\ pc' = "watch" /\ health' = "serving"
       \/ mode \in {"tick", "restart"} /\ pc' = "loop" /\ UNCHANGED health
    /\ NoFault
    /\ UNCHANGED <<mode, cancelled, plugins, toVisit, groups, starting, disk, watch, kubelet, visible>>

-----------------------------------------------------------------------------
(* Manager.Run's loop and Manager.restart *)

\* fsnotify.NewWatcher and Add.
Watch ==
    /\ pc = "watch"
    /\ watching' = TRUE /\ pc' = "loop"
    /\ NoFault
    /\ UNCHANGED <<events, mode, cancelled, health, plugins, toVisit, groups, starting, disk, kubelet, visible>>

\* The watcher cannot be set up, or closes one of its channels unexpectedly.
WatchFails ==
    /\ pc \in {"watch", "loop"}
    /\ Fault("setup")
    /\ LeaveRun(plugins)
    /\ UNCHANGED <<mode, cancelled, plugins, starting, disk, kubelet, visible>>

\* case <-deviceTicker.C
Tick ==
    /\ pc = "loop"
    /\ pc' = "discover" /\ mode' = "tick"
    /\ NoFault
    /\ UNCHANGED <<cancelled, health, plugins, toVisit, groups, starting, disk, watch, kubelet, visible>>

\* Mutant of Cancelled: the loop has no case for ctx.Done().
NeverCancelled == FALSE /\ UNCHANGED vars

\* case <-ctx.Done()
Cancelled ==
    /\ pc = "loop" /\ cancelled
    /\ LeaveRun(plugins)
    /\ NoFault
    /\ UNCHANGED <<mode, cancelled, plugins, starting, disk, kubelet, visible>>

\* Mutant of KubeletEvent: the event is taken for something else.
KubeletEventIgnored ==
    /\ pc = "loop" /\ events > 0
    /\ events' = events - 1
    /\ NoFault
    /\ UNCHANGED <<watching, process, disk, kubelet, visible>>

\* A Create event of the kubelet's socket: restart.
KubeletEvent ==
    /\ pc = "loop" /\ events > 0
    /\ events' = events - 1
    /\ pc' = "restart" /\ mode' = "restart" /\ toVisit' = plugins
    /\ NoFault
    /\ UNCHANGED <<watching, cancelled, health, plugins, groups, starting, disk, kubelet, visible>>

\* The watcher reports an overflow, which is logged; the event is lost.
EventLost ==
    /\ pc = "loop" /\ events > 0
    /\ events' = events - 1
    /\ Fault("overflow")
    /\ UNCHANGED <<watching, process, disk, kubelet, visible>>

\* restart stops one plugin after the other.
RestartStop(r) ==
    /\ pc = "restart" /\ r \in toVisit
    /\ toVisit' = toVisit \ {r}
    /\ StopPlugin(r)
    /\ UNCHANGED <<pc, mode, cancelled, health, plugins, groups, starting, watch, kubeletUp, late, restarts, visible>>

RestartStopFails(r) ==
    /\ pc = "restart" /\ r \in toVisit
    /\ StopPluginFails(r)
    /\ LeaveRun(plugins)
    /\ UNCHANGED <<mode, cancelled, plugins, starting, kubeletUp, late, restarts, visible>>

\* Mutant of ForgetAll: the stopped plugins stay in m.plugins.
ForgetNone == UNCHANGED plugins

\* m.plugins = make(map[string]*ResourcePlugin)
ForgetAll == plugins' = {}

\* All stopped: forget them, clean up the CDI specs, reconcile.
RestartReconcile ==
    /\ pc = "restart" /\ toVisit = {}
    /\ ForgetAll
    /\ pc' = "discover"
    /\ NoFault
    /\ UNCHANGED <<mode, cancelled, health, toVisit, groups, starting, disk, watch, kubelet, visible>>

\* The CDI clean-up fails and Run returns.
RestartFails ==
    /\ pc = "restart" /\ toVisit = {}
    /\ ForgetAll
    /\ Fault("setup")
    /\ LeaveRun({})
    /\ UNCHANGED <<mode, cancelled, starting, disk, kubelet, visible>>

-----------------------------------------------------------------------------
(* Manager.Stop, and the end of the process *)

\* Manager.Stop stops one plugin after the other and only logs a failure.
ExitStop(r) ==
    /\ pc = "exit" /\ r \in toVisit
    /\ toVisit' = toVisit \ {r}
    /\ StopPlugin(r) \/ StopPluginFails(r)
    /\ UNCHANGED <<pc, mode, cancelled, health, plugins, groups, starting, watch, kubeletUp, late, restarts, visible>>

\* Nothing of the process survives it, except the socket files it left.
ProcessGone ==
    /\ pc' = "down" /\ mode' = "initial" /\ cancelled' = FALSE /\ health' = "off"
    /\ plugins' = {} /\ toVisit' = {} /\ groups' = {} /\ starting' = {}
    /\ server' = {} /\ kreg' = {}
    /\ watching' = FALSE /\ events' = 0
    /\ UNCHANGED <<sock, kubeletUp, late, restarts, visible>>

Exit == pc = "exit" /\ toVisit = {} /\ ProcessGone /\ NoFault

Crash == pc # "down" /\ Fault("crash") /\ ProcessGone

\* watchShutdownSignals cancels the context.
Signal ==
    /\ pc # "down" /\ ~cancelled
    /\ Fault("signal")
    /\ cancelled' = TRUE
    /\ UNCHANGED <<pc, mode, health, plugins, toVisit, groups, starting, disk, watch, kubelet, visible>>

-----------------------------------------------------------------------------
(* The environment *)

\* Devices appear, disappear or are partitioned: one resource comes or goes.
DevicesChange ==
    /\ \E r \in Resource : visible' = (visible \ {r}) \cup ({r} \ visible)
    /\ NoFault
    /\ UNCHANGED <<process, disk, watch, kubelet>>

\* The kubelet goes down and forgets its endpoints.  A process that has
\* plugins but no watch yet would not learn that it came back: "unwatched".
KubeletDown ==
    /\ kubeletUp /\ restarts < MaxRestarts
    /\ watching \/ plugins = {} \/ "unwatched" \in Faults
    /\ kubeletUp' = FALSE /\ kreg' = {} /\ late' = {}
    /\ restarts' = restarts + 1
    /\ NoFault
    /\ UNCHANGED <<process, disk, watch, visible>>

\* It comes back: it empties its plugin directory and creates its socket.
KubeletUp ==
    /\ ~kubeletUp
    /\ kubeletUp' = TRUE
    /\ sock' = {}
    /\ events' = IF watching THEN events + 1 ELSE events
    /\ NoFault
    /\ UNCHANGED <<watching, server, process, kreg, late, restarts, visible>>

\* The kubelet handles a request whose caller gave up: it dials the endpoint,
\* which a later Start may be serving again by now.
LateRegister(r) ==
    /\ kubeletUp /\ r \in late
    /\ late' = late \ {r}
    /\ kreg' = kreg \cup ({r} \cap server \cap sock)
    /\ NoFault
    /\ UNCHANGED <<kubeletUp, restarts, process, disk, watch, visible>>

-----------------------------------------------------------------------------
Reconcile ==
    \/ Discover \/ ReconcileDone
    \/ \E r \in Resource :
        VisitPresent(r) \/ VisitAbsent(r) \/ VisitAbsentFails(r)
            \/ StartPlugin(r) \/ StartPluginFails(r) \/ Registered(r) \/ RegisterFails(r)

Restart ==
    \/ RestartReconcile \/ RestartFails
    \/ \E r \in Resource : RestartStop(r) \/ RestartStopFails(r)

Shutdown == Exit \/ \E r \in Resource : ExitStop(r)

\* The steps of the process' main goroutine outside the loop's select.
Running == Boot \/ Reconcile \/ Restart \/ Watch \/ Shutdown

Environment ==
    \/ DevicesChange \/ KubeletDown \/ KubeletUp
    \/ \E r \in Resource : LateRegister(r)

Next ==
    \/ Running \/ Tick \/ Cancelled \/ KubeletEvent
    \/ BootFails \/ WatchFails \/ EventLost \/ Crash \/ Signal
    \/ Environment

(***************************************************************************)
(* The main goroutine keeps running and the DaemonSet restarts a container *)
(* that ended.  select picks among the cases that are ready at random, so  *)
(* a case that stays ready, or is ready again and again, is not starved    *)
(* by the others: the cases of Run's select are strongly fair.             *)
(***************************************************************************)
Fairness ==
    /\ WF_vars(Running)
    /\ WF_vars(Tick)
    /\ SF_vars(KubeletEvent)
    /\ SF_vars(Cancelled)

Spec == Init /\ [][Next]_vars

FairSpec == Spec /\ Fairness

-----------------------------------------------------------------------------
(* Properties *)

\* Every variable has its type.
TypeOK ==
    /\ pc \in {"down", "discover", "reconcile", "register", "watch", "loop", "restart", "exit"}
    /\ mode \in {"initial", "tick", "restart"}
    /\ cancelled \in BOOLEAN
    /\ health \in {"off", "starting", "serving"}
    /\ plugins \subseteq Resource
    /\ toVisit \subseteq plugins
    /\ groups \subseteq Resource
    /\ starting \subseteq groups
    /\ server \subseteq Resource
    /\ sock \subseteq Resource
    /\ watching \in BOOLEAN
    /\ events \in Nat
    /\ visible \subseteq Resource
    /\ kubeletUp \in BOOLEAN
    /\ kreg \subseteq Resource
    /\ late \subseteq Resource
    /\ restarts \in Nat
    /\ faults \in Nat

\* No gRPC server and no endpoint of the kubelet outlives its plugin's entry in
\* m.plugins: the manager could never stop it, and the kubelet would go on
\* placing pods on devices that no scan updates any more.
NoLeakedServer ==
    /\ server \subseteq plugins \cup starting
    /\ kreg \subseteq server

\* Start never takes over the socket of a server that is still running.
NeverClobbers ==
    [][\A r \in Resource : r \in starting' \ starting => r \notin server]_vars

\* At rest, with the kubelet up and no restart of it left to handle, every
\* plugin the manager holds is an endpoint the kubelet uses: a plugin the
\* kubelet forgot is never taken for one that only needs UpdateDevices.
NoSilentLoss ==
    pc = "loop" /\ kubeletUp /\ events = 0 => plugins \subseteq kreg

\* A resource that stays on the node, with a kubelet that stays up, ends up
\* advertised for good, whatever failed or restarted before.
EventuallyAdvertised ==
    \A r \in Resource : <>[](r \in visible /\ kubeletUp) => <>[](r \in kreg)

\* A resource that stays away ends up withdrawn for good.
EventuallyWithdrawn ==
    \A r \in Resource : <>[](r \notin visible) => <>[](r \notin kreg)

\* A process that was not killed has ended every server it started, those of
\* failed starts and of half-done restarts too, before it is gone, and leaves no
\* socket of a plugin of its behind unless the file system refused to remove it.
CleanExit ==
    [][pc = "exit" /\ pc' = "down" /\ faults' = faults =>
          server = {} /\ ("remove" \in Faults \/ sock \cap plugins = {})]_vars

\* A shutdown signal ends the process, whatever it was doing.
ShutdownCompletes == cancelled ~> pc = "down"
=============================================================================
