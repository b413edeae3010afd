---------------------------- MODULE ManagerProofs ----------------------------
(***************************************************************************)
(* Proofs, for any set of resources, any faults and any number of kubelet  *)
(* restarts, that the manager never loses track of a running server; and,  *)
(* for the faults it is built to survive, that it never takes a plugin the *)
(* kubelet forgot for one that is registered.                              *)
(***************************************************************************)
EXTENDS Manager, TLAPS

(***************************************************************************)
(* The inductive invariant.  Besides the types and NoLeakedServer itself:  *)
(* Start runs one plugin, with its server, at a time; a plugin the manager already has is    *)
(* taken out of groups before anything is started (Visited); and restart   *)
(* forgets its plugins only once it has stopped every server (Stopping).   *)
(***************************************************************************)
OneStart ==
    /\ pc # "register" => starting = {}
    /\ pc = "register" => toVisit = {}
    /\ \A q, r \in starting : q = r
    /\ starting \subseteq server

Visited == pc \in {"reconcile", "register"} => groups \cap plugins \subseteq toVisit

Stopping == pc = "restart" => server \subseteq toVisit

DownEmpty == pc = "down" => plugins = {}

ManagerInv ==
    /\ TypeOK
    /\ NoLeakedServer
    /\ OneStart
    /\ Visited
    /\ Stopping
    /\ DownEmpty

LEMMA InitInv == Init => ManagerInv
<1>1. Init => TypeOK
    <2>1. 0 \in Nat
        OBVIOUS
    <2> QED
        BY <2>1 DEF Init, TypeOK
<1> QED
    BY <1>1 DEF Init, ManagerInv, NoLeakedServer, OneStart, Visited, Stopping, DownEmpty

LEMMA FaultType ==
    ASSUME ManagerInv
    PROVE  /\ \A kind : Fault(kind) => faults' \in Nat
           /\ NoFault => faults' \in Nat
<1>1. faults \in Nat
    BY DEF ManagerInv, TypeOK
<1> QED
    BY <1>1 DEF Fault, NoFault

\* What reconcile's error leaves behind, fatal or not.
LEMMA ErrorOutcome ==
    ASSUME ManagerInv, ReconcileError
    PROVE  /\ pc' \in {"loop", "exit"}
           /\ toVisit' \subseteq plugins
           /\ groups' = {}
           /\ health' \in {"off", "starting", "serving"}
           /\ watching' \in BOOLEAN
           /\ events' \in Nat
<1>1. CASE LeaveRun(plugins)
    BY <1>1 DEF LeaveRun
<1>2. CASE /\ pc' = "loop" /\ toVisit' = {} /\ groups' = {}
           /\ UNCHANGED <<health, watch>>
    BY <1>2 DEF ManagerInv, TypeOK, watch
<1> QED
    BY <1>1, <1>2 DEF ReconcileError

LEMMA ReconcileInv ==
    ASSUME ManagerInv, Reconcile
    PROVE  ManagerInv'
<1> USE FaultType DEF ManagerInv, TypeOK, NoLeakedServer, OneStart, Visited, Stopping, DownEmpty,
            disk, watch, kubelet
<1>1. CASE Discover
    BY <1>1 DEF Discover
<1>2. CASE ReconcileDone
    BY <1>2 DEF ReconcileDone
<1> SUFFICES ASSUME NEW r \in Resource,
                    \/ VisitPresent(r) \/ VisitAbsent(r) \/ VisitAbsentFails(r)
                    \/ StartPlugin(r) \/ StartPluginFails(r)
                    \/ Registered(r) \/ RegisterFails(r)
             PROVE  ManagerInv'
    BY <1>1, <1>2 DEF Reconcile
<1>3. CASE VisitPresent(r)
    BY <1>3 DEF VisitPresent
<1>4. CASE VisitAbsent(r)
    BY <1>4 DEF VisitAbsent, StopPlugin, StopServing
<1>5. CASE VisitAbsentFails(r)
    BY <1>5, ErrorOutcome DEF VisitAbsentFails, StopPluginFails, StopServing
<1>6. CASE StartPlugin(r)
    BY <1>6 DEF StartPlugin, Unlinked
<1>7. CASE StartPluginFails(r)
    BY <1>7, ErrorOutcome DEF StartPluginFails
<1>8. CASE Registered(r)
    <2>1. TypeOK'
        BY <1>8 DEF Registered, Keep, StartReturns
    <2>2. NoLeakedServer'
        BY <1>8 DEF Registered, Keep, StartReturns
    <2>3. (OneStart /\ Visited /\ Stopping /\ DownEmpty)'
        BY <1>8 DEF Registered, Keep, StartReturns
    <2> QED
        BY <2>1, <2>2, <2>3
<1>9. CASE RegisterFails(r)
    <2>1. TypeOK'
        <3>1. faults' \in Nat
            BY <1>9 DEF RegisterFails, RegisterGivesUp
        <3>2. late' \subseteq Resource
            BY <1>9 DEF RegisterFails
        <3>3. sock' \subseteq Resource
            BY <1>9 DEF RegisterFails, UndoStart
        <3> QED
            BY <1>9, <3>1, <3>2, <3>3, ErrorOutcome
            DEF RegisterFails, UndoStart, StopServing, StartReturns
    <2>2. NoLeakedServer'
        BY <1>9 DEF RegisterFails, UndoStart, StopServing, StartReturns
    <2>3. (OneStart /\ Visited /\ Stopping /\ DownEmpty)'
        BY <1>9, ErrorOutcome DEF RegisterFails, StartReturns
    <2> QED
        BY <2>1, <2>2, <2>3
<1> QED
    BY <1>3, <1>4, <1>5, <1>6, <1>7, <1>8, <1>9

LEMMA RestartInv ==
    ASSUME ManagerInv, Restart
    PROVE  ManagerInv'
<1> USE FaultType DEF ManagerInv, TypeOK, NoLeakedServer, OneStart, Visited, Stopping, DownEmpty,
            disk, watch, kubelet
<1>1. CASE RestartReconcile
    BY <1>1 DEF RestartReconcile, ForgetAll
<1>2. CASE RestartFails
    BY <1>2 DEF RestartFails, ForgetAll, LeaveRun
<1>3. ASSUME NEW r \in Resource, RestartStop(r)
      PROVE  ManagerInv'
    BY <1>3 DEF RestartStop, StopPlugin, StopServing
<1>4. ASSUME NEW r \in Resource, RestartStopFails(r)
      PROVE  ManagerInv'
    BY <1>4 DEF RestartStopFails, StopPluginFails, StopServing, LeaveRun
<1> QED
    BY <1>1, <1>2, <1>3, <1>4 DEF Restart

LEMMA LoopInv ==
    ASSUME ManagerInv,
           \/ Boot \/ BootFails \/ Watch \/ WatchFails
           \/ Tick \/ Cancelled \/ KubeletEvent \/ EventLost
    PROVE  ManagerInv'
<1> USE FaultType DEF ManagerInv, TypeOK, NoLeakedServer, OneStart, Visited, Stopping, DownEmpty,
            process, disk, watch, kubelet
<1>1. CASE Boot
    BY <1>1 DEF Boot
<1>2. CASE BootFails
    BY <1>2 DEF BootFails
<1>3. CASE Watch
    BY <1>3 DEF Watch
<1>4. CASE WatchFails
    BY <1>4 DEF WatchFails, LeaveRun
<1>5. CASE Tick
    BY <1>5 DEF Tick
<1>6. CASE Cancelled
    BY <1>6 DEF Cancelled, LeaveRun
<1>7. CASE KubeletEvent
    BY <1>7 DEF KubeletEvent
<1>8. CASE EventLost
    BY <1>8 DEF EventLost
<1> QED
    BY <1>1, <1>2, <1>3, <1>4, <1>5, <1>6, <1>7, <1>8

LEMMA EndInv ==
    ASSUME ManagerInv, Shutdown \/ Crash \/ Signal
    PROVE  ManagerInv'
<1> USE FaultType DEF ManagerInv, TypeOK, NoLeakedServer, OneStart, Visited, Stopping, DownEmpty,
            disk, watch, kubelet
<1>1. CASE Exit
    BY <1>1 DEF Exit, ProcessGone
<1>2. CASE Crash
    BY <1>2 DEF Crash, ProcessGone
<1>3. CASE Signal
    BY <1>3 DEF Signal
<1>4. ASSUME NEW r \in Resource, ExitStop(r)
      PROVE  ManagerInv'
    BY <1>4 DEF ExitStop, StopPlugin, StopPluginFails, StopServing
<1> QED
    BY <1>1, <1>2, <1>3, <1>4 DEF Shutdown

LEMMA EnvironmentInv ==
    ASSUME ManagerInv, Environment
    PROVE  ManagerInv'
<1> USE FaultType DEF ManagerInv, TypeOK, NoLeakedServer, OneStart, Visited, Stopping, DownEmpty,
            process, disk, watch, kubelet
<1>1. CASE DevicesChange
    BY <1>1 DEF DevicesChange
<1>2. CASE KubeletDown
    <2>1. restarts' \in Nat
        BY <1>2 DEF KubeletDown
    <2>2. UNCHANGED <<process, disk, watch, visible>> /\ NoFault
          /\ kubeletUp' = FALSE /\ kreg' = {} /\ late' = {}
        BY <1>2 DEF KubeletDown
    <2> QED
        BY <2>1, <2>2
<1>3. CASE KubeletUp
    BY <1>3 DEF KubeletUp
<1>4. ASSUME NEW r \in Resource, LateRegister(r)
      PROVE  ManagerInv'
    BY <1>4 DEF LateRegister
<1> QED
    BY <1>1, <1>2, <1>3, <1>4 DEF Environment

\* ManagerInv holds in every reachable state.
THEOREM ManagerInvariance == Spec => []ManagerInv
<1>1. ManagerInv /\ [Next]_vars => ManagerInv'
    <2> SUFFICES ASSUME ManagerInv, [Next]_vars
                 PROVE  ManagerInv'
        OBVIOUS
    <2>1. CASE UNCHANGED vars
        BY <2>1 DEF vars, process, disk, watch, kubelet, ManagerInv, TypeOK, NoLeakedServer,
           OneStart, Visited, Stopping, DownEmpty
    <2> QED
        BY <2>1, ReconcileInv, RestartInv, LoopInv, EndInv, EnvironmentInv
        DEF Next, Running
<1> QED
    BY <1>1, InitInv, PTL DEF Spec

\* Every reachable state is well typed.
THEOREM TypeCorrect == Spec => []TypeOK
<1>1. ManagerInv => TypeOK
    BY DEF ManagerInv
<1> QED
    BY <1>1, ManagerInvariance, PTL

\* No server and no endpoint outlives its plugin's entry in m.plugins, whatever
\* fails and whenever the process is killed.
THEOREM NothingLeaks == Spec => []NoLeakedServer
<1>1. ManagerInv => NoLeakedServer
    BY DEF ManagerInv
<1> QED
    BY <1>1, ManagerInvariance, PTL

-----------------------------------------------------------------------------
(* Start and the servers that are running *)

\* Only StartPlugin begins a Start.
LEMMA OnlyStartPluginStarts ==
    ASSUME ManagerInv, [Next]_vars, NEW q \in starting', q \notin starting
    PROVE  \E r \in Resource : StartPlugin(r) /\ q = r
<1> USE DEF process
<1>1. ~(Boot \/ BootFails \/ Watch \/ WatchFails \/ Tick \/ Cancelled \/ KubeletEvent \/ EventLost)
    BY DEF Boot, BootFails, Watch, WatchFails, Tick, Cancelled, KubeletEvent, EventLost
<1>2. ~(Exit \/ Crash \/ Signal \/ UNCHANGED vars)
    BY DEF Exit, Crash, Signal, ProcessGone, vars
<1>3. ~(DevicesChange \/ KubeletDown \/ KubeletUp)
    BY DEF DevicesChange, KubeletDown, KubeletUp
<1>4. ~(Discover \/ ReconcileDone \/ RestartReconcile \/ RestartFails)
    BY DEF Discover, ReconcileDone, RestartReconcile, RestartFails
<1>5. ASSUME NEW r \in Resource
      PROVE  ~(ExitStop(r) \/ LateRegister(r) \/ RestartStop(r) \/ RestartStopFails(r))
    BY DEF ExitStop, LateRegister, RestartStop, RestartStopFails
<1>6. ASSUME NEW r \in Resource
      PROVE  ~(VisitPresent(r) \/ VisitAbsent(r) \/ VisitAbsentFails(r))
    BY DEF VisitPresent, VisitAbsent, VisitAbsentFails
<1>7. ASSUME NEW r \in Resource
      PROVE  ~(StartPluginFails(r) \/ Registered(r) \/ RegisterFails(r))
    BY DEF StartPluginFails, Registered, RegisterFails, StartReturns
<1>8. PICK r \in Resource : StartPlugin(r)
    BY <1>1, <1>2, <1>3, <1>4, <1>5, <1>6, <1>7
    DEF Next, Running, Reconcile, Restart, Shutdown, Environment
<1> QED
    BY <1>8 DEF StartPlugin

\* Start never takes over the socket of a server that is still running.
THEOREM StartsAreFresh == Spec => NeverClobbers
<1>1. ManagerInv /\ [Next]_vars
        => [\A r \in Resource : r \in starting' \ starting => r \notin server]_vars
    <2> SUFFICES ASSUME ManagerInv, [Next]_vars,
                        NEW q \in Resource, q \in starting' \ starting
                 PROVE  q \notin server
        OBVIOUS
    <2>1. pc = "reconcile" /\ toVisit = {} /\ q \in groups
        BY OnlyStartPluginStarts DEF StartPlugin
    <2> QED
        BY <2>1 DEF ManagerInv, Visited, OneStart, NoLeakedServer
<1> QED
    BY <1>1, ManagerInvariance, PTL DEF NeverClobbers, Spec

-----------------------------------------------------------------------------
(***************************************************************************)
(* NoSilentLoss, for the faults the manager is built to survive: a socket  *)
(* can be removed, the watcher loses no event, and the kubelet does not    *)
(* restart between the first registration and the watch.  The invariant    *)
(* adds that a kubelet that is down while nobody watches can have lost     *)
(* nothing (NothingToLose).                                                *)
(***************************************************************************)
SurvivableFaults == Faults \cap {"remove", "overflow", "unwatched"} = {}

NothingToLose == ~kubeletUp /\ ~watching /\ pc # "exit" => plugins = {}

Known ==
    kubeletUp /\ events = 0 /\ pc \notin {"restart", "exit"} => plugins \subseteq kreg

LossInv == NothingToLose /\ Known

LEMMA LossStep ==
    ASSUME SurvivableFaults, ManagerInv, LossInv, [Next]_vars
    PROVE  LossInv'
<1> USE DEF LossInv, NothingToLose, Known, disk, watch, kubelet
<1>1. ~Fault("remove") /\ ~Fault("overflow")
    BY DEF SurvivableFaults, Fault
<1>2. CASE Boot \/ BootFails \/ Watch \/ Tick \/ Discover \/ ReconcileDone \/ Signal
    BY <1>2 DEF Boot, BootFails, Watch, Tick, Discover, ReconcileDone, Signal, process
<1>3. CASE WatchFails \/ Cancelled \/ RestartFails
    BY <1>3 DEF WatchFails, Cancelled, RestartFails, LeaveRun
<1>4. CASE KubeletEvent
    BY <1>4 DEF KubeletEvent
<1>5. CASE RestartReconcile
    BY <1>5 DEF RestartReconcile, ForgetAll
<1>6. CASE Exit \/ Crash
    BY <1>6 DEF Exit, Crash, ProcessGone
<1>7. CASE DevicesChange
    BY <1>7 DEF DevicesChange, process
<1>8. CASE KubeletDown
    BY <1>8 DEF KubeletDown, SurvivableFaults, process
<1>9. CASE KubeletUp
    <2>1. watching => events' # 0
        BY <1>9 DEF KubeletUp, ManagerInv, TypeOK
    <2> QED
        BY <1>9, <2>1 DEF KubeletUp, process
<1>10. ASSUME NEW r \in Resource, LateRegister(r)
       PROVE  LossInv'
    BY <1>10 DEF LateRegister, process
<1>11. ASSUME NEW r \in Resource, RestartStop(r) \/ ExitStop(r)
       PROVE  LossInv'
    BY <1>11 DEF RestartStop, ExitStop
<1>12. ASSUME NEW r \in Resource
       PROVE  ~(EventLost \/ VisitAbsentFails(r) \/ RestartStopFails(r))
    BY <1>1 DEF EventLost, VisitAbsentFails, RestartStopFails, StopPluginFails
<1>13. ASSUME NEW r \in Resource, VisitPresent(r) \/ StartPlugin(r)
       PROVE  LossInv'
    BY <1>13 DEF VisitPresent, StartPlugin
<1>14. ASSUME NEW r \in Resource, VisitAbsent(r)
       PROVE  LossInv'
    BY <1>14 DEF VisitAbsent, StopPlugin, StopServing
<1>15. ASSUME NEW r \in Resource, Registered(r)
       PROVE  LossInv'
    BY <1>15 DEF Registered, Keep
\* After an error the process is on its way out, or back in the loop with the
\* watch as it was.
<1>16. ASSUME ReconcileError
       PROVE  pc' = "exit" \/ (pc' = "loop" /\ UNCHANGED <<watching, events>>)
    BY <1>16 DEF ReconcileError, LeaveRun
<1>17. ASSUME NEW r \in Resource, StartPluginFails(r)
       PROVE  LossInv'
    BY <1>17, <1>16 DEF StartPluginFails, ManagerInv, DownEmpty
<1>18. ASSUME NEW r \in Resource, RegisterFails(r)
       PROVE  LossInv'
    <2>1. r \notin plugins
        BY <1>18 DEF RegisterFails, ManagerInv, TypeOK, OneStart, Visited
    <2> QED
        BY <1>18, <1>16, <2>1 DEF RegisterFails, UndoStart, StopServing
<1>19. CASE UNCHANGED vars
    BY <1>19 DEF vars, process
<1>20. CASE Reconcile
    BY <1>20, <1>2, <1>12, <1>13, <1>14, <1>15, <1>17, <1>18 DEF Reconcile
<1>21. CASE Restart
    BY <1>21, <1>3, <1>5, <1>11, <1>12 DEF Restart
<1>22. CASE Shutdown
    BY <1>22, <1>6, <1>11 DEF Shutdown
<1>23. CASE Environment
    BY <1>23, <1>7, <1>8, <1>9, <1>10 DEF Environment
<1>24. CASE EventLost
    BY <1>24, <1>1 DEF EventLost
<1> QED
    BY <1>2, <1>3, <1>4, <1>6, <1>19, <1>20, <1>21, <1>22, <1>23, <1>24 DEF Next, Running

\* At rest, with the kubelet up and no restart of it left to handle, every
\* plugin the manager holds is an endpoint the kubelet uses.
THEOREM NothingLostSilently ==
    ASSUME SurvivableFaults
    PROVE  Spec => []NoSilentLoss
<1>1. Init => LossInv
    BY DEF Init, LossInv, NothingToLose, Known
<1>2. ManagerInv /\ LossInv /\ [Next]_vars => LossInv'
    BY LossStep
<1>3. LossInv => NoSilentLoss
    BY DEF LossInv, Known, NoSilentLoss
<1> QED
    BY <1>1, <1>2, <1>3, ManagerInvariance, PTL DEF Spec

-----------------------------------------------------------------------------
(***************************************************************************)
(* CleanExit.  Every way out of Run hands Manager.Stop the plugins that    *)
(* are left, and these own all that is still running: whatever Stop has    *)
(* yet to visit covers every server and, when sockets can be removed,      *)
(* every socket of a plugin.                                               *)
(***************************************************************************)
ExitInv ==
    pc = "exit" =>
        /\ server \subseteq toVisit
        /\ "remove" \notin Faults => sock \cap plugins \subseteq toVisit

\* Every step preserves it.
LEMMA ExitStep ==
    ASSUME ManagerInv, ExitInv, [Next]_vars
    PROVE  ExitInv'
<1> USE DEF ExitInv, disk, watch, kubelet
<1>1. CASE Boot \/ BootFails \/ Watch \/ Tick \/ Discover \/ ReconcileDone
    BY <1>1 DEF Boot, BootFails, Watch, Tick, Discover, ReconcileDone, process
<1>2. CASE KubeletEvent \/ EventLost \/ RestartReconcile
    BY <1>2 DEF KubeletEvent, EventLost, RestartReconcile, process
<1>3. CASE Exit \/ Crash
    BY <1>3 DEF Exit, Crash, ProcessGone
<1>4. CASE Signal \/ UNCHANGED vars
    BY <1>4 DEF Signal, vars, process
<1>5. CASE WatchFails \/ Cancelled
    BY <1>5 DEF WatchFails, Cancelled, LeaveRun, ManagerInv, NoLeakedServer, OneStart
<1>6. CASE RestartFails
    BY <1>6 DEF RestartFails, LeaveRun, ForgetAll, ManagerInv, Stopping
<1>7. CASE DevicesChange \/ KubeletDown
    BY <1>7 DEF DevicesChange, KubeletDown, process
<1>8. CASE KubeletUp
    BY <1>8 DEF KubeletUp, process
<1>9. ASSUME NEW r \in Resource, LateRegister(r)
      PROVE  ExitInv'
    BY <1>9 DEF LateRegister, process
<1>10. ASSUME NEW r \in Resource, VisitPresent(r) \/ VisitAbsent(r) \/ StartPlugin(r) \/ Registered(r)
       PROVE  ExitInv'
    BY <1>10 DEF VisitPresent, VisitAbsent, StartPlugin, Registered
<1>11. ASSUME NEW r \in Resource, RestartStop(r)
       PROVE  ExitInv'
    BY <1>11 DEF RestartStop
\* A fatal error of reconcile or restart leaves all of the plugins to Stop.
<1>12. ASSUME ReconcileError, pc' = "exit"
       PROVE  toVisit' = plugins
    BY <1>12 DEF ReconcileError, LeaveRun
<1>13. ASSUME NEW r \in Resource, VisitAbsentFails(r)
       PROVE  ExitInv'
    BY <1>13, <1>12 DEF VisitAbsentFails, StopPluginFails, StopServing,
       ManagerInv, NoLeakedServer, OneStart
<1>14. ASSUME NEW r \in Resource, StartPluginFails(r)
       PROVE  ExitInv'
    BY <1>14, <1>12 DEF StartPluginFails, ManagerInv, NoLeakedServer, OneStart
<1>15. ASSUME NEW r \in Resource, RegisterFails(r)
       PROVE  ExitInv'
    BY <1>15, <1>12 DEF RegisterFails, UndoStart, StopServing,
       ManagerInv, NoLeakedServer, OneStart
<1>16. ASSUME NEW r \in Resource, RestartStopFails(r)
       PROVE  ExitInv'
    BY <1>16 DEF RestartStopFails, StopPluginFails, StopServing, LeaveRun,
       ManagerInv, NoLeakedServer, OneStart
<1>17. ASSUME NEW r \in Resource, ExitStop(r)
       PROVE  ExitInv'
    BY <1>17 DEF ExitStop, StopPlugin, StopPluginFails, StopServing, Fault
<1>18. CASE Reconcile
    BY <1>18, <1>1, <1>10, <1>13, <1>14, <1>15 DEF Reconcile
<1>19. CASE Restart
    BY <1>19, <1>2, <1>6, <1>11, <1>16 DEF Restart
<1>20. CASE Shutdown
    BY <1>20, <1>3, <1>17 DEF Shutdown
<1>21. CASE Environment
    BY <1>21, <1>7, <1>8, <1>9 DEF Environment
<1> QED
    BY <1>1, <1>2, <1>3, <1>4, <1>5, <1>18, <1>19, <1>20, <1>21 DEF Next, Running

\* Without a fault, only Exit ends a process, and only once Stop has visited
\* every plugin.
LEMMA OnlyExitEnds ==
    ASSUME ManagerInv, Next, pc = "exit", pc' = "down", UNCHANGED faults
    PROVE  toVisit = {}
<1> USE DEF process
<1>1. ~Crash
    <2>1. faults \in Nat
        BY DEF ManagerInv, TypeOK
    <2> QED
        BY <2>1 DEF Crash, Fault
<1>2. ~(Boot \/ BootFails \/ Watch \/ WatchFails \/ Tick \/ Cancelled \/ KubeletEvent \/ EventLost)
    BY DEF Boot, BootFails, Watch, WatchFails, Tick, Cancelled, KubeletEvent, EventLost
<1>3. ~(Signal \/ DevicesChange \/ KubeletDown \/ KubeletUp)
    BY DEF Signal, DevicesChange, KubeletDown, KubeletUp
<1>4. ~(Discover \/ ReconcileDone \/ RestartReconcile \/ RestartFails)
    BY DEF Discover, ReconcileDone, RestartReconcile, RestartFails
<1>5. ASSUME NEW r \in Resource
      PROVE  ~(ExitStop(r) \/ LateRegister(r) \/ RestartStop(r) \/ RestartStopFails(r))
    BY DEF ExitStop, LateRegister, RestartStop, RestartStopFails
<1>6. ASSUME NEW r \in Resource
      PROVE  ~(VisitPresent(r) \/ VisitAbsent(r) \/ VisitAbsentFails(r) \/ StartPlugin(r)
               \/ StartPluginFails(r) \/ Registered(r) \/ RegisterFails(r))
    BY DEF VisitPresent, VisitAbsent, VisitAbsentFails, StartPlugin, StartPluginFails,
       Registered, RegisterFails
<1>7. Exit
    BY <1>1, <1>2, <1>3, <1>4, <1>5, <1>6
    DEF Next, Running, Reconcile, Restart, Shutdown, Environment
<1> QED
    BY <1>7 DEF Exit

\* A process that was not killed ends every server it started, and removes the
\* socket of every plugin it has unless the file system refuses, before it is gone.
THEOREM ExitsClean == Spec => CleanExit
<1>1. Init => ExitInv
    BY DEF Init, ExitInv
<1>2. ManagerInv /\ ExitInv /\ [Next]_vars => ExitInv'
    BY ExitStep
<1>3. ManagerInv /\ ExitInv /\ [Next]_vars
        => [pc = "exit" /\ pc' = "down" /\ faults' = faults =>
              server = {} /\ ("remove" \in Faults \/ sock \cap plugins = {})]_vars
    <2> SUFFICES ASSUME ManagerInv, ExitInv, Next,
                        pc = "exit", pc' = "down", faults' = faults
                 PROVE  server = {} /\ ("remove" \in Faults \/ sock \cap plugins = {})
        OBVIOUS
    <2>1. toVisit = {}
        BY OnlyExitEnds
    <2> QED
        BY <2>1 DEF ExitInv
<1> QED
    BY <1>1, <1>2, <1>3, ManagerInvariance, PTL DEF CleanExit, Spec
=============================================================================
