-------------------------- MODULE DeviceFeedProofs --------------------------
(***************************************************************************)
(* Proofs, for any set of streams and any number of inventory changes,     *)
(* that UpdateDevices never blocks the manager and never leaves the        *)
(* kubelet with an old device list.                                        *)
(***************************************************************************)
EXTENDS DeviceFeed, TLAPS

-----------------------------------------------------------------------------
(* The type invariant *)

\* updateCh holds no list or one.
LEMMA OneSlot ==
    ASSUME TypeOK
    PROVE  /\ Full <=> updateCh # <<>>
           /\ ~Full => Append(updateCh, current) = <<current>>
           /\ Full => Tail(updateCh) = <<>> /\ Head(updateCh) \in Version
                     /\ updateCh = <<Head(updateCh)>>
<1>1. CASE updateCh = <<>>
    <2>1. Len(updateCh) = 0
        BY <1>1
    <2>2. Append(<<>>, current) = <<current>>
        OBVIOUS
    <2> QED
        BY <1>1, <2>1, <2>2 DEF Full
<1>2. ASSUME NEW v \in Version, updateCh = <<v>>
      PROVE  /\ Full
             /\ Tail(updateCh) = <<>>
             /\ Head(updateCh) = v
             /\ updateCh # <<>>
    BY <1>2 DEF Full
<1> QED
    BY <1>1, <1>2 DEF TypeOK

LEMMA UpdateDevicesType ==
    ASSUME TypeOK, NEW v \in Version, UpdateDevices(v)
    PROVE  TypeOK'
BY DEF TypeOK, UpdateDevices

LEMMA HandlerType ==
    ASSUME TypeOK, NEW s \in Streams, Handler(s)
    PROVE  TypeOK'
<1>1. CASE Snapshot(s)
    BY <1>1 DEF TypeOK, Snapshot
<1>2. CASE SendDelivers(s)
    BY <1>2 DEF TypeOK, SendDelivers
<1>3. CASE SendLost(s)
    BY <1>3 DEF TypeOK, SendLost
<1>4. CASE SendFails(s)
    BY <1>4 DEF TypeOK, SendFails
<1>5. CASE WatchUpdate(s)
    BY <1>5, OneSlot DEF TypeOK, WatchUpdate
<1>6. CASE WatchReturn(s)
    BY <1>6 DEF TypeOK, WatchReturn
<1> QED
    BY <1>1, <1>2, <1>3, <1>4, <1>5, <1>6 DEF Handler, Send

LEMMA NextType ==
    ASSUME TypeOK, [Next]_vars
    PROVE  TypeOK'
<1>1. CASE Scan
    <2>1. devices < MaxChanges => devices + 1 \in Version
        BY MaxChangesAssumption DEF TypeOK, Version
    <2>2. devices \in Version
        BY DEF TypeOK
    <2> QED
        BY <1>1, <2>1, <2>2, UpdateDevicesType DEF Scan
<1>2. CASE TrySend
    BY <1>2, OneSlot DEF TypeOK, TrySend
<1>3. CASE Drain
    BY <1>3 DEF TypeOK, Drain
<1>4. CASE Resend
    BY <1>4, OneSlot DEF TypeOK, Resend
<1>5. CASE Stop
    BY <1>5 DEF TypeOK, Stop
<1>6. CASE StopServer
    BY <1>6 DEF TypeOK, StopServer
<1>7. ASSUME NEW s \in Streams, Connect(s)
      PROVE  TypeOK'
    BY <1>7 DEF TypeOK, Connect
<1>8. ASSUME NEW s \in Streams, Disconnect(s)
      PROVE  TypeOK'
    BY <1>8 DEF TypeOK, Disconnect
<1>9. ASSUME NEW s \in Streams, NoticeDisconnect(s)
      PROVE  TypeOK'
    BY <1>9 DEF TypeOK, NoticeDisconnect
<1>10. CASE UNCHANGED vars
    BY <1>10 DEF TypeOK, vars
<1> QED
    BY <1>1, <1>2, <1>3, <1>4, <1>5, <1>6, <1>7, <1>8, <1>9, <1>10, HandlerType
    DEF Next, Push

\* Every reachable state is well typed; in particular updateCh never holds
\* more lists than the buffer NewResourcePlugin gave it.
THEOREM TypeCorrect == Spec => []TypeOK
<1>1. Init => TypeOK
    <2>1. 0 \in Version
        BY MaxChangesAssumption DEF Version
    <2> QED
        BY <2>1 DEF Init, TypeOK
<1>2. TypeOK /\ [Next]_vars => TypeOK'
    BY NextType
<1> QED
    BY <1>1, <1>2, PTL DEF Spec

-----------------------------------------------------------------------------
(***************************************************************************)
(* The inductive invariant.  SendNeverBlocks, FreshestNotDropped and       *)
(* NoLostUpdate do not follow from themselves: one has to know which list  *)
(* UpdateDevices is pushing while it runs (Pushing), and that between two  *)
(* calls the channel holds nothing older than p.devices (NothingStale).    *)
(***************************************************************************)
Pushing == pcM \in {"send", "drain", "resend"} => current = devices

Resting == pcM \in {"idle", "stopping"}

NothingStale == Resting => updateCh \in {<<>>, <<devices>>}

\* FreshestNotDropped, in the middle of Stop as well.
FreshestKept ==
    Resting =>
        \/ devices = 0
        \/ updateCh = <<devices>>
        \/ \E s \in Streams : pcS[s] # "none" /\ list[s] = devices

FeedInv ==
    /\ TypeOK
    /\ Pushing
    /\ SendNeverBlocks
    /\ NothingStale
    /\ FreshestKept
    /\ NoLostUpdate

LEMMA UpdateDevicesInv ==
    ASSUME FeedInv, NEW v \in Version, UpdateDevices(v)
    PROVE  FeedInv'
<1>1. TypeOK'
    BY UpdateDevicesType DEF FeedInv
<1> QED
    BY <1>1 DEF FeedInv, UpdateDevices, Pushing, SendNeverBlocks, NothingStale,
       FreshestKept, Resting, NoLostUpdate

LEMMA PushInv ==
    ASSUME FeedInv, Push, TypeOK'
    PROVE  FeedInv'
<1> USE DEF FeedInv, Pushing, SendNeverBlocks, NothingStale, FreshestKept,
            Resting, NoLostUpdate
<1>1. CASE TrySend
    BY <1>1, OneSlot DEF TrySend
<1>2. CASE Drain
    BY <1>2 DEF Drain
<1>3. CASE Resend
    BY <1>3, OneSlot DEF Resend
<1> QED
    BY <1>1, <1>2, <1>3 DEF Push

LEMMA StopInv ==
    ASSUME FeedInv, Stop \/ StopServer, TypeOK'
    PROVE  FeedInv'
<1> USE DEF FeedInv, Pushing, SendNeverBlocks, NothingStale, FreshestKept,
            Resting, NoLostUpdate
<1>1. CASE Stop
    BY <1>1 DEF Stop
<1>2. CASE StopServer
    \* No stream is up any more: NoLostUpdate asks for nothing.
    <2>1. \A s \in Streams : conn'[s] # "up"
        BY <1>2 DEF StopServer
    <2> QED
        BY <1>2, <2>1 DEF StopServer
<1> QED
    BY <1>1, <1>2

LEMMA ConnectionInv ==
    ASSUME FeedInv, NEW s \in Streams, TypeOK',
           Connect(s) \/ Disconnect(s) \/ NoticeDisconnect(s)
    PROVE  FeedInv'
<1> USE DEF FeedInv, Pushing, SendNeverBlocks, NothingStale, FreshestKept, Resting
<1>1. CASE Connect(s)
    <2>1. \A t \in Streams : conn'[t] = "up" => t = s /\ pcS'[t] = "begin"
        BY <1>1 DEF Connect, TypeOK
    <2>2. NoLostUpdate'
        BY <2>1 DEF NoLostUpdate
    <2>3. \A t \in Streams : pcS[t] # "none" => pcS'[t] # "none"
        BY <1>1 DEF Connect, TypeOK
    <2> QED
        BY <1>1, <2>2, <2>3 DEF Connect
<1>2. CASE Disconnect(s) \/ NoticeDisconnect(s)
    <2>1. \A t \in Streams : conn'[t] = "up" => conn[t] = "up"
        BY <1>2 DEF Disconnect, NoticeDisconnect, TypeOK
    <2>2. NoLostUpdate'
        BY <1>2, <2>1 DEF Disconnect, NoticeDisconnect, NoLostUpdate, Alone
    <2> QED
        BY <1>2, <2>2 DEF Disconnect, NoticeDisconnect
<1> QED
    BY <1>1, <1>2

LEMMA HandlerInv ==
    ASSUME FeedInv, NEW s \in Streams, TypeOK', Handler(s)
    PROVE  FeedInv'
<1> USE DEF FeedInv, Pushing, SendNeverBlocks, NothingStale, FreshestKept, Resting
\* A handler's step changes no other stream, and is no other stream's first.
<1>1. /\ pcS[s] # "none" /\ pcS'[s] # "none"
      /\ \A t \in Streams \ {s} : /\ pcS'[t] = pcS[t] /\ list'[t] = list[t]
                                  /\ conn'[t] = conn[t] /\ view'[t] = view[t]
      /\ UNCHANGED <<devices, current, pcM>>
    BY DEF Handler, Snapshot, Send, SendDelivers, SendLost, SendFails, WatchUpdate,
       WatchReturn, TypeOK
<1>2. \A t \in Streams \ {s} : ~Alone(t)
    BY <1>1 DEF Alone
<1>3. \A t \in Streams \ {s} : ~Alone(t)'
    BY <1>1 DEF Alone
<1>4. Alone(s)' => Alone(s)
    BY <1>1 DEF Alone
<1>5. CASE Snapshot(s)
    BY <1>5, <1>3, <1>4 DEF Snapshot, TypeOK, NoLostUpdate
<1>6. CASE SendDelivers(s)
    BY <1>6, <1>1, <1>3, <1>4 DEF SendDelivers, TypeOK, NoLostUpdate
<1>7. CASE SendLost(s)
    BY <1>7, <1>1, <1>3, <1>4 DEF SendLost, TypeOK, NoLostUpdate
<1>8. CASE SendFails(s)
    BY <1>8, <1>1, <1>3, <1>4 DEF SendFails, TypeOK, NoLostUpdate
<1>9. CASE WatchUpdate(s)
    <2>1. updateCh' = <<>> /\ (Resting => Head(updateCh) = devices)
        BY <1>9, OneSlot DEF WatchUpdate
    <2>2. Resting => list'[s] = devices
        BY <1>9, <2>1 DEF WatchUpdate, TypeOK
    <2>3. FreshestKept'
        BY <1>1, <2>2
    <2>4. NoLostUpdate'
        BY <1>9, <1>1, <1>3, <2>2 DEF WatchUpdate, TypeOK, NoLostUpdate
    <2> QED
        BY <1>9, <2>1, <2>3, <2>4 DEF WatchUpdate
<1>10. CASE WatchReturn(s)
    BY <1>10, <1>1, <1>3, <1>4 DEF WatchReturn, TypeOK, NoLostUpdate
<1> QED
    BY <1>5, <1>6, <1>7, <1>8, <1>9, <1>10 DEF Handler, Send

\* FeedInv holds in every reachable state.
THEOREM FeedInvariance == Spec => []FeedInv
<1>1. Init => FeedInv
    <2>1. 0 \in Version
        BY MaxChangesAssumption DEF Version
    <2> QED
        BY <2>1 DEF Init, FeedInv, TypeOK, Pushing, SendNeverBlocks, NothingStale,
           FreshestKept, Resting, NoLostUpdate
<1>2. FeedInv /\ [Next]_vars => FeedInv'
    <2> SUFFICES ASSUME FeedInv, [Next]_vars
                 PROVE  FeedInv'
        OBVIOUS
    <2>1. TypeOK'
        BY NextType DEF FeedInv
    <2>2. CASE Scan
        <3>1. devices \in Version /\ (devices < MaxChanges => devices + 1 \in Version)
            BY MaxChangesAssumption DEF FeedInv, TypeOK, Version
        <3> QED
            BY <2>2, <3>1, UpdateDevicesInv DEF Scan
    <2>3. CASE UNCHANGED vars
        BY <2>3, <2>1 DEF vars, FeedInv, Pushing, SendNeverBlocks, NothingStale,
           FreshestKept, Resting, NoLostUpdate, Alone
    <2> QED
        BY <2>1, <2>2, <2>3, PushInv, StopInv, ConnectionInv, HandlerInv DEF Next
<1> QED
    BY <1>1, <1>2, PTL DEF Spec

\* UpdateDevices never blocks on the channel while it holds Manager.mu.
THEOREM UpdateNeverBlocks == Spec => []SendNeverBlocks
<1>1. FeedInv => SendNeverBlocks
    BY DEF FeedInv
<1> QED
    BY <1>1, FeedInvariance, PTL

\* Between two scans the newest inventory is queued or was taken by a stream.
THEOREM FreshestSurvives == Spec => []FreshestNotDropped
<1>1. FeedInv => FreshestNotDropped
    BY DEF FeedInv, FreshestKept, Resting, FreshestNotDropped
<1> QED
    BY <1>1, FeedInvariance, PTL

\* A single reader is never left with an old device list between two scans.
THEOREM SingleReaderUpToDate == Spec => []NoLostUpdate
<1>1. FeedInv => NoLostUpdate
    BY DEF FeedInv
<1> QED
    BY <1>1, FeedInvariance, PTL

-----------------------------------------------------------------------------
(***************************************************************************)
(* The refinement.  What a stream receives is queued by the scan that runs *)
(* or by the one before it (Recent): NothingStale says so between two      *)
(* calls of UpdateDevices, and a call replaces at most one inventory.      *)
(***************************************************************************)
Recent == \A v \in Version : updateCh = <<v>> => v \in {devices, devices - 1}

LEMMA RecentInit == Init => Recent
BY DEF Init, Recent

LEMMA RecentStep ==
    ASSUME FeedInv, Recent, [Next]_vars
    PROVE  Recent'
<1>1. TypeOK /\ devices \in Nat /\ current \in Version
    BY MaxChangesAssumption DEF FeedInv, TypeOK, Version
<1>2. CASE Scan
    <2>1. PICK w \in {devices, devices + 1} : UpdateDevices(w)
        BY <1>2 DEF Scan
    <2>2. updateCh \in {<<>>, <<devices>>}
        BY <2>1 DEF UpdateDevices, FeedInv, NothingStale, Resting
    <2>3. \A v \in Version : updateCh' = <<v>> => v = devices
        BY <2>1, <2>2 DEF UpdateDevices
    <2> QED
        BY <1>1, <2>1, <2>3 DEF UpdateDevices, Recent
<1>3. CASE Push
    <2>1. updateCh' \in {updateCh, <<>>, <<current>>} /\ devices' = devices
        BY <1>1, <1>3, OneSlot DEF Push, TrySend, Drain, Resend
    <2>2. current = devices
        BY <1>3 DEF Push, TrySend, Drain, Resend, FeedInv, Pushing
    <2> QED
        BY <2>1, <2>2 DEF Recent
<1>4. ASSUME NEW s \in Streams, WatchUpdate(s)
      PROVE  Recent'
    BY <1>1, <1>4, OneSlot DEF WatchUpdate, Recent
<1>5. CASE UNCHANGED <<updateCh, devices>>
    BY <1>5 DEF Recent
<1> QED
    BY <1>2, <1>3, <1>4, <1>5 DEF Next, Stop, StopServer, Connect, Handler, Snapshot, Send,
       SendDelivers, SendLost, SendFails, WatchReturn, Disconnect, NoticeDisconnect, vars

\* Every step is one of Feed, or Feed does not see it.
LEMMA StepImplementsFeed ==
    ASSUME FeedInv, Recent, [Next]_vars
    PROVE  [Abstract!Next]_(Abstract!vars)
<1> USE DEF Abstract!Next, Abstract!vars
<1>1. TypeOK /\ devices \in Nat
    BY MaxChangesAssumption DEF FeedInv, TypeOK, Version
<1>2. CASE Scan
    BY <1>2 DEF Scan, UpdateDevices, Abstract!Change
<1>3. ASSUME NEW s \in Streams, Snapshot(s)
      PROVE  Abstract!Take(s)
    BY <1>1, <1>3 DEF Snapshot, Abstract!Take
<1>4. ASSUME NEW s \in Streams, WatchUpdate(s)
      PROVE  Abstract!Take(s)
    <2>1. Head(updateCh) \in Version /\ updateCh = <<Head(updateCh)>>
        BY <1>1, <1>4, OneSlot DEF WatchUpdate
    <2>2. Head(updateCh) \in {devices, devices - 1} \cap Nat
        BY <2>1, MaxChangesAssumption DEF Recent, Version
    <2> QED
        BY <1>4, <2>2 DEF WatchUpdate, Abstract!Take
<1>5. ASSUME NEW s \in Streams, SendDelivers(s)
      PROVE  Abstract!Show(s)
    BY <1>5 DEF SendDelivers, Abstract!Show
<1>6. CASE UNCHANGED <<devices, list, view>>
    BY <1>6
<1> QED
    BY <1>2, <1>3, <1>4, <1>5, <1>6 DEF Next, Push, TrySend, Drain, Resend, Stop, StopServer,
       Connect, Handler, Send, SendLost, SendFails, WatchReturn, Disconnect, NoticeDisconnect, vars

\* The feed with its channel, locks, transports and Stop implements Feed: a
\* stream shows inventories that were the newest, or replaced by the running
\* scan, when it took them.
THEOREM FeedImplemented == Spec => ImplementsFeed
<1>1. Init => Abstract!Init
    BY DEF Init, Abstract!Init
<1>2. FeedInv /\ Recent /\ [Next]_vars => Recent' /\ [Abstract!Next]_(Abstract!vars)
    BY RecentStep, StepImplementsFeed
<1> QED
    BY <1>1, <1>2, RecentInit, FeedInvariance, PTL DEF Spec, ImplementsFeed, Abstract!Spec
=============================================================================
