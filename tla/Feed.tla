-------------------------------- MODULE Feed --------------------------------
(***************************************************************************)
(* What UpdateDevices and ListAndWatch (plugin.go) promise of the device   *)
(* lists that reach the kubelet, without channel, locks and transports: a  *)
(* stream shows the inventories of the scans, each taken when it was the   *)
(* newest one or the one just before it.  DeviceFeed implements it.        *)
(***************************************************************************)
EXTENDS Integers

CONSTANT Streams   \* the ListAndWatch calls

VARIABLES
    devices,  \* how often the inventory has changed
    held,     \* the inventory each stream has taken to send
    view      \* the last inventory the kubelet was shown on each stream

vars == <<devices, held, view>>

Init ==
    /\ devices = 0
    /\ held = [s \in Streams |-> 0]
    /\ view = [s \in Streams |-> 0]

\* A scan finds another inventory.
Change == devices' = devices + 1 /\ UNCHANGED <<held, view>>

\* A stream takes the newest inventory, or the one a scan is about to replace.
\* So it may follow the newest, which a new stream starts with, by an older one,
\* but never by one that a complete UpdateDevices has replaced.
Take(s) ==
    /\ \E v \in {devices, devices - 1} \cap Nat : held' = [held EXCEPT ![s] = v]
    /\ UNCHANGED <<devices, view>>

\* The kubelet receives it.
Show(s) ==
    /\ view' = [view EXCEPT ![s] = held[s]]
    /\ UNCHANGED <<devices, held>>

Next == Change \/ \E s \in Streams : Take(s) \/ Show(s)

Spec == Init /\ [][Next]_vars
=============================================================================
