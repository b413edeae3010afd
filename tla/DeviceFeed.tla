----------------------------- MODULE DeviceFeed -----------------------------
(***************************************************************************)
(* How a ResourcePlugin (plugin.go) keeps the kubelet's device list up to  *)
(* date.  The manager's goroutine calls UpdateDevices once per scan; every *)
(* ListAndWatch call runs in a goroutine of its own and streams the lists  *)
(* it takes from updateCh, a channel with room for one list.               *)
(*                                                                         *)
(* A device list is abstracted to its version: the number of scans so far  *)
(* that found a changed inventory.  A stream is one ListAndWatch call; the *)
(* code accepts any number of them, the kubelet reads one at a time and    *)
(* may abandon one (conn = "cut") long before the server's transport       *)
(* notices and cancels the stream's context (conn = "done").               *)
(***************************************************************************)
EXTENDS Naturals, Sequences

CONSTANTS
    Streams,     \* the ListAndWatch calls this plugin will ever serve
    MaxChanges   \* bound on the number of scans that change the inventory

ASSUME MaxChangesAssumption == MaxChanges \in Nat

Version == 0 .. MaxChanges

VARIABLES
    devices,   \* p.devices, written and read under p.mu
    current,   \* UpdateDevices' local copy, the list it is about to push
    updateCh,  \* the buffered channel: empty or one list
    stopCh,    \* TRUE once p.stopCh is closed
    server,    \* TRUE until p.server.Stop() has returned
    pcM,       \* where the manager's goroutine is in UpdateDevices or Stop
    pcS,       \* where each ListAndWatch goroutine is
    list,      \* the list each ListAndWatch goroutine holds
    conn,      \* each stream's transport
    view       \* the last list the kubelet received on each stream

vars == <<devices, current, updateCh, stopCh, server, pcM, pcS, list, conn, view>>

\* No stream and no queued list: the plugin NewResourcePlugin builds, its
\* server already listening (Start).
Init ==
    /\ devices = 0
    /\ current = 0
    /\ updateCh = <<>>
    /\ stopCh = FALSE
    /\ server = TRUE
    /\ pcM = "idle"
    /\ pcS = [s \in Streams |-> "none"]
    /\ list = [s \in Streams |-> 0]
    /\ conn = [s \in Streams |-> "none"]
    /\ view = [s \in Streams |-> 0]

-----------------------------------------------------------------------------
(* The manager's goroutine.  It holds Manager.mu, so UpdateDevices and Stop *)
(* of one plugin never overlap.                                             *)

\* The critical section of UpdateDevices: the scan found inventory v, the one
\* already held or a new one.  A scan that changed nothing pushes all the same.
UpdateDevices(v) ==
    /\ pcM = "idle"
    /\ devices' = v
    /\ current' = v
    /\ pcM' = "send"
    /\ UNCHANGED <<updateCh, stopCh, server, pcS, list, conn, view>>

\* Mutant of Scan: only a changed inventory is pushed.
ScanOnlyChanges == devices < MaxChanges /\ UpdateDevices(devices + 1)

\* One scan that still finds this plugin's resource.  The manager also calls
\* it on a plugin whose Stop failed, hence no guard on stopCh.
Scan ==
    \/ UpdateDevices(devices)
    \/ devices < MaxChanges /\ UpdateDevices(devices + 1)

\* Mutant of Full: the channel has no bound.
NeverFull == FALSE

Full == Len(updateCh) = 1

\* Mutant of TrySend: when the channel is full the new list is dropped.
TrySendOrDrop ==
    /\ pcM = "send"
    /\ pcM' = "idle"
    /\ updateCh' = IF Full THEN updateCh ELSE <<current>>
    /\ UNCHANGED <<devices, current, stopCh, server, pcS, list, conn, view>>

\* select { case p.updateCh <- current: default: }
TrySend ==
    /\ pcM = "send"
    /\ \/ ~Full /\ updateCh' = Append(updateCh, current) /\ pcM' = "idle"
       \/ Full /\ pcM' = "drain" /\ UNCHANGED updateCh
    /\ UNCHANGED <<devices, current, stopCh, server, pcS, list, conn, view>>

\* Mutant of Drain: the queued list is not taken out.
DrainNothing ==
    /\ pcM = "drain"
    /\ pcM' = "resend"
    /\ UNCHANGED <<devices, current, updateCh, stopCh, server, pcS, list, conn, view>>

\* select { case <-p.updateCh: default: }: a stream may have emptied it first.
Drain ==
    /\ pcM = "drain"
    /\ updateCh' = <<>>
    /\ pcM' = "resend"
    /\ UNCHANGED <<devices, current, stopCh, server, pcS, list, conn, view>>

\* p.updateCh <- current: blocks while the channel is full.
Resend ==
    /\ pcM = "resend"
    /\ ~Full
    /\ updateCh' = Append(updateCh, current)
    /\ pcM' = "idle"
    /\ UNCHANGED <<devices, current, stopCh, server, pcS, list, conn, view>>

\* Stop: close(p.stopCh) unless an earlier call closed it.
Stop ==
    /\ pcM = "idle"
    /\ stopCh' = TRUE
    /\ pcM' = "stopping"
    /\ UNCHANGED <<devices, current, updateCh, server, pcS, list, conn, view>>

\* The rest of Stop: p.server.Stop() closes the listener and the transports,
\* which cancels every stream's context, and waits for no handler.
StopServer ==
    /\ pcM = "stopping"
    /\ server' = FALSE
    /\ conn' = [s \in Streams |-> IF conn[s] = "none" THEN "none" ELSE "done"]
    /\ pcM' = "idle"
    /\ UNCHANGED <<devices, current, updateCh, stopCh, pcS, list, view>>

-----------------------------------------------------------------------------
(* The ListAndWatch goroutines. *)

\* The kubelet calls ListAndWatch; the handler's goroutine has yet to run.
Connect(s) ==
    /\ server
    /\ conn[s] = "none"
    /\ \A t \in Streams : conn[t] # "up"
    /\ conn' = [conn EXCEPT ![s] = "up"]
    /\ pcS' = [pcS EXCEPT ![s] = "begin"]
    /\ UNCHANGED <<devices, current, updateCh, stopCh, server, pcM, list, view>>

\* devices := p.currentDevices()
Snapshot(s) ==
    /\ pcS[s] = "begin"
    /\ list' = [list EXCEPT ![s] = devices]
    /\ pcS' = [pcS EXCEPT ![s] = "send"]
    /\ UNCHANGED <<devices, current, updateCh, stopCh, server, pcM, conn, view>>

\* stream.Send on a live transport: the kubelet receives the list.
SendDelivers(s) ==
    /\ pcS[s] = "send"
    /\ conn[s] = "up"
    /\ view' = [view EXCEPT ![s] = list[s]]
    /\ pcS' = [pcS EXCEPT ![s] = "watch"]
    /\ UNCHANGED <<devices, current, updateCh, stopCh, server, pcM, list, conn>>

\* stream.Send on a transport the kubelet left: accepted, and lost.
SendLost(s) ==
    /\ pcS[s] = "send"
    /\ conn[s] = "cut"
    /\ pcS' = [pcS EXCEPT ![s] = "watch"]
    /\ UNCHANGED <<devices, current, updateCh, stopCh, server, pcM, list, conn, view>>

\* stream.Send fails and the handler returns the error.
SendFails(s) ==
    /\ pcS[s] = "send"
    /\ conn[s] \in {"cut", "done"}
    /\ pcS' = [pcS EXCEPT ![s] = "done"]
    /\ conn' = [conn EXCEPT ![s] = "done"]
    /\ UNCHANGED <<devices, current, updateCh, stopCh, server, pcM, list, view>>

Send(s) == SendDelivers(s) \/ SendLost(s) \/ SendFails(s)

\* case devices := <-p.updateCh
WatchUpdate(s) ==
    /\ pcS[s] = "watch"
    /\ updateCh # <<>>
    /\ list' = [list EXCEPT ![s] = Head(updateCh)]
    /\ updateCh' = Tail(updateCh)
    /\ pcS' = [pcS EXCEPT ![s] = "send"]
    /\ UNCHANGED <<devices, current, stopCh, server, pcM, conn, view>>

\* Mutant of WatchReturn: the loop only ranges over updateCh.
WatchForever(s) == FALSE /\ UNCHANGED vars

\* case <-p.stopCh, case <-stream.Context().Done(): the handler returns, which
\* ends the stream.
WatchReturn(s) ==
    /\ pcS[s] = "watch"
    /\ stopCh \/ conn[s] = "done"
    /\ pcS' = [pcS EXCEPT ![s] = "done"]
    /\ conn' = [conn EXCEPT ![s] = "done"]
    /\ UNCHANGED <<devices, current, updateCh, stopCh, server, pcM, list, view>>

\* The kubelet abandons the stream: it crashes, or drops the connection.
Disconnect(s) ==
    /\ conn[s] = "up"
    /\ conn' = [conn EXCEPT ![s] = "cut"]
    /\ UNCHANGED <<devices, current, updateCh, stopCh, server, pcM, pcS, list, view>>

\* The server's transport notices and cancels the stream's context.
NoticeDisconnect(s) ==
    /\ conn[s] = "cut"
    /\ conn' = [conn EXCEPT ![s] = "done"]
    /\ UNCHANGED <<devices, current, updateCh, stopCh, server, pcM, pcS, list, view>>

-----------------------------------------------------------------------------
Push == TrySend \/ Drain \/ Resend

Handler(s) == Snapshot(s) \/ Send(s) \/ WatchUpdate(s) \/ WatchReturn(s)

Next ==
    \/ Scan \/ Push \/ Stop \/ StopServer
    \/ \E s \in Streams : Connect(s) \/ Handler(s) \/ Disconnect(s) \/ NoticeDisconnect(s)

(***************************************************************************)
(* The scan ticker visits the plugin until it is stopped, and the          *)
(* scheduler runs every goroutine that can run.  A receive from updateCh   *)
(* is strongly fair: a goroutine parked in the select is handed the next   *)
(* list directly, so the manager cannot take every list back before a      *)
(* receiver that keeps waiting gets one.                                   *)
(***************************************************************************)
Fairness ==
    /\ WF_vars(~stopCh /\ Scan)
    /\ WF_vars(Push)
    /\ WF_vars(StopServer)
    /\ \A s \in Streams :
        /\ WF_vars(Snapshot(s) \/ Send(s) \/ WatchReturn(s))
        /\ SF_vars(WatchUpdate(s))
        /\ WF_vars(NoticeDisconnect(s))

Spec == Init /\ [][Next]_vars

FairSpec == Spec /\ Fairness

-----------------------------------------------------------------------------
(* Properties *)

\* Every variable has its type; updateCh never holds more than one list.
TypeOK ==
    /\ devices \in Version
    /\ current \in Version
    /\ updateCh \in {<<>>} \cup {<<v>> : v \in Version}
    /\ stopCh \in BOOLEAN
    /\ server \in BOOLEAN
    /\ pcM \in {"idle", "send", "drain", "resend", "stopping"}
    /\ pcS \in [Streams -> {"none", "begin", "send", "watch", "done"}]
    /\ list \in [Streams -> Version]
    /\ conn \in [Streams -> {"none", "up", "cut", "done"}]
    /\ view \in [Streams -> Version]

\* The second, blocking send of UpdateDevices always finds room.  The manager
\* makes it holding Manager.mu, with no stream that need be receiving: were it
\* to block, no scan, no kubelet restart and no shutdown would be handled again.
SendNeverBlocks == pcM = "resend" => updateCh = <<>>

\* Between two scans the newest inventory is never the one that was thrown
\* away: it is queued, or some stream took it, or it is the one the plugin was
\* built with, which every stream sends first.
FreshestNotDropped ==
    pcM = "idle" =>
        \/ devices = 0
        \/ updateCh = <<devices>>
        \/ \E s \in Streams : pcS[s] # "none" /\ list[s] = devices

\* Whoever the kubelet's stream has shared the channel with.
Alone(s) == \A t \in Streams \ {s} : pcS[t] = "none"

\* With a single stream, the kubelet is never left with an old list between
\* two scans: it has the newest, or the newest is still on its way to it.  A
\* stream may start with a snapshot newer than the list queued for it, and
\* so show the kubelet an old list after a new one; the newest always follows.
NoLostUpdate ==
    \A s \in Streams :
        pcM = "idle" /\ conn[s] = "up" /\ Alone(s) =>
            \/ pcS[s] = "begin"
            \/ updateCh = <<devices>>
            \/ pcS[s] = "send" /\ list[s] = devices
            \/ pcS[s] = "watch" /\ view[s] = devices

Abstract == INSTANCE Feed WITH held <- list

\* Whatever the channel, the abandoned streams and Stop do, the kubelet is shown
\* inventories of the scans, each at most one scan behind when it was taken.
ImplementsFeed == Abstract!Spec

\* A stream the kubelet keeps reading ends up with the newest list for good,
\* even when a stream it abandoned swallowed an update first: the next scan
\* pushes the list again although nothing changed.
Converges ==
    \A s \in Streams : <>[](conn[s] = "up") => <>[](view[s] = devices)

\* Stop ends every ListAndWatch goroutine although it waits for none.
StopEndsHandlers ==
    stopCh ~> (\A s \in Streams : pcS[s] \in {"none", "done"})
=============================================================================
