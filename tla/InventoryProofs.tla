--------------------------- MODULE InventoryProofs ---------------------------
(***************************************************************************)
(* Proofs, for any physical functions, any partition modes and any number  *)
(* of hardware changes and failing reads, that a scan of steady hardware   *)
(* advertises what is there: exactly if no read failed, and nothing that   *)
(* is wrong if some did.                                                   *)
(***************************************************************************)
EXTENDS Inventory, TLAPS

(***************************************************************************)
(* The inductive invariant.  Position: the label of the scan says which    *)
(* device it looks at.  Pending: a device the scan is not done with has    *)
(* nothing recorded for it.  On steady hardware, Sound: the listed devices *)
(* are still there, the label says what was learnt of the device at hand,  *)
(* and what was recorded is right.  Complete: without a failing read, all  *)
(* that the scan is done with is recorded.                                 *)
(***************************************************************************)
Position ==
    /\ pc \in {"idle", "next"} => dev = {}
    /\ \A d \in dev : d \notin todo
    /\ pc \in {"readlink", "parent"} => \A d \in dev : IsVF(d)

Pending ==
    pc # "idle" => \A d \in todo \cup dev : groups[d] = Nothing /\ health[d] = "Healthy"

Sound ==
    pc # "idle" /\ steady =>
        /\ todo \cup dev \subseteq Present
        /\ pc = "numvfs" => \A d \in dev : ~IsVF(d)
        /\ pc = "health" => \A d \in dev : resource = Expected(d)
        /\ \A d \in Device : /\ groups[d] \in {Nothing, Expected(d)}
                             /\ health[d] = "Unhealthy" => d \notin ready

Complete ==
    pc # "idle" /\ steady /\ clean =>
        \A d \in Device \ (todo \cup dev) :
            /\ groups[d] = Expected(d)
            /\ groups[d] # Nothing => (health[d] = "Healthy" <=> d \in ready)

Published == UndisturbedScanExact /\ ErrorsNeverMisfile /\ ErrorsNeverDrain

ScanInv == TypeOK /\ Position /\ Pending /\ Sound /\ Complete /\ Published

-----------------------------------------------------------------------------
(* What the probe of a device on the bus should come to *)

\* A virtual function belongs under its mode's resource.
LEMMA ExpectedVF ==
    ASSUME NEW d \in Present, IsVF(d)
    PROVE  Expected(d) = vfResourceName(numVFs[d[1]])
BY DEF Expected, vfResourceName

\* A physical function belongs under npu unless it hosts VFs.
LEMMA ExpectedPF ==
    ASSUME TypeOK, NEW d \in Present, ~IsVF(d)
    PROVE  Expected(d) = IF HostsVFs(d[1]) THEN Nothing ELSE Generic
<1>1. d \in Device /\ d[1] \in PFs
    BY DEF Present, Device
<1>2. numVFs[d[1]] \in Nat
    <2>1. numVFs[d[1]] \in Modes
        BY <1>1 DEF TypeOK
    <2>2. Modes \subseteq Nat
        BY ModesAssumption
    <2> QED
        BY <2>1, <2>2
<1> QED
    BY <1>2 DEF Expected, HostsVFs

\* What is expected depends on the hardware alone.
LEMMA HardwareDecides ==
    ASSUME UNCHANGED hardware
    PROVE  /\ Present' = Present
           /\ \A d : Expected(d)' = Expected(d)
           /\ UNCHANGED <<plugged, numVFs, ready, changes>>
<1>1. UNCHANGED <<plugged, numVFs, ready, changes>>
    BY DEF hardware
<1>2. Present' = Present
    BY <1>1 DEF Present
<1> QED
    BY <1>1, <1>2 DEF Expected

LEMMA ResourceTypes ==
    /\ Nothing \in Resource /\ Generic \in Resource
    /\ \A n : vfResourceName(n) \in Resource
    /\ Generic # Nothing
BY DEF Resource, Nothing, Generic, VFResource, vfResourceName

-----------------------------------------------------------------------------
(* The types *)

LEMMA InitType == Init => TypeOK
<1> SUFFICES ASSUME Init
             PROVE  TypeOK
    OBVIOUS
<1>1. 0 \in 0 .. MaxChanges /\ 0 \in 0 .. MaxErrors
    BY BoundsAssumption
<1> QED
    BY <1>1, ResourceTypes DEF Init, TypeOK, Health

\* The counters and the history of one read.
LEMMA ReadType ==
    ASSUME TypeOK, ReadOK \/ ReadError
    PROVE  errors' \in 0 .. MaxErrors /\ clean' \in BOOLEAN
<1>1. errors' \in 0 .. MaxErrors
    <2>1. errors \in 0 .. MaxErrors
        BY DEF TypeOK
    <2> QED
        BY <2>1, BoundsAssumption DEF ReadOK, ReadError, CountError
<1>2. clean' \in BOOLEAN
    <2>1. clean \in BOOLEAN
        BY DEF TypeOK
    <2>2. clean' = clean \/ clean' = FALSE
        BY DEF ReadOK, ReadError
    <2> QED
        BY <2>1, <2>2
<1> QED
    BY <1>1, <1>2

\* What one read of probeSRIOV can do to the scan's local state.
LEMMA ReadOutcome ==
    ASSUME TypeOK, NEW d \in Device,
           \/ LstatPhysfn(d) \/ ReadlinkPhysfn(d) \/ ReadParentNumVFs(d) \/ ReadOwnNumVFs(d)
    PROVE  /\ d \in dev
           /\ pc \in {"physfn", "readlink", "parent", "numvfs"}
           /\ pc' \in {"next", "readlink", "parent", "numvfs", "health"}
           /\ pc' = "next" <=> dev' = {}
           /\ pc' # "next" => dev' = dev
           /\ resource' \in Resource
           /\ ReadOK \/ ReadError
           /\ UNCHANGED <<hardware, result, todo, groups, health, steady>>
<1> USE ResourceTypes DEF Read, Goto, Skip, Advertise, Unreadable, TypeOK
<1>1. CASE LstatPhysfn(d)
    BY <1>1 DEF LstatPhysfn
<1>2. CASE ReadlinkPhysfn(d)
    BY <1>2 DEF ReadlinkPhysfn
<1>3. CASE ReadParentNumVFs(d)
    BY <1>3 DEF ReadParentNumVFs
<1>4. CASE ReadOwnNumVFs(d)
    BY <1>4 DEF ReadOwnNumVFs
<1> QED
    BY <1>1, <1>2, <1>3, <1>4

LEMMA HealthType == \A d, readable : healthForDevice(d, readable) \in Health
BY DEF healthForDevice, Health

LEMMA ScanType ==
    ASSUME TypeOK, Scan
    PROVE  TypeOK'
<1> USE DEF hardware, result
<1>1. CASE List
    <2>1. todo' \subseteq Device
        BY <1>1 DEF List, Present
    <2>2. errors' \in 0 .. MaxErrors /\ clean' \in BOOLEAN
        BY <1>1, ReadType DEF List, ReadOK, TypeOK
    <2>3. groups' \in [Device -> Resource] /\ health' \in [Device -> Health]
        BY <1>1, ResourceTypes DEF List, Health
    <2> QED
        BY <1>1, <2>1, <2>2, <2>3 DEF List, TypeOK
<1>2. CASE Publish
    BY <1>2, ReadType DEF Publish, NewInventory, TypeOK
<1>3. ASSUME NEW d \in Device, NextDevice(d)
      PROVE  TypeOK'
    BY <1>3, ReadType DEF NextDevice, TypeOK
<1>4. ASSUME NEW d \in Device,
             LstatPhysfn(d) \/ ReadlinkPhysfn(d) \/ ReadParentNumVFs(d) \/ ReadOwnNumVFs(d)
      PROVE  TypeOK'
    <2>1. errors' \in 0 .. MaxErrors /\ clean' \in BOOLEAN
        BY <1>4, ReadOutcome, ReadType
    <2>2. dev' \in {{}} \cup {{e} : e \in Device}
        BY <1>4, ReadOutcome DEF TypeOK
    <2> QED
        BY <1>4, <2>1, <2>2, ReadOutcome DEF TypeOK
<1>5. ASSUME NEW d \in Device, ReadHealth(d)
      PROVE  TypeOK'
    <2>1. errors' \in 0 .. MaxErrors /\ clean' \in BOOLEAN
        BY <1>5, ReadType DEF ReadHealth
    <2>2. groups' \in [Device -> Resource]
        BY <1>5 DEF ReadHealth, TypeOK
    <2>3. PICK h \in Health : health' = [health EXCEPT ![d] = h]
        BY <1>5, HealthType DEF ReadHealth
    <2>4. health' \in [Device -> Health]
        BY <2>3 DEF TypeOK
    <2> QED
        BY <1>5, <2>1, <2>2, <2>4 DEF ReadHealth, TypeOK
<1> QED
    BY <1>1, <1>2, <1>3, <1>4, <1>5 DEF Scan, Discover

LEMMA EnvironmentType ==
    ASSUME TypeOK, Environment
    PROVE  TypeOK'
<1> USE DEF scan, result
<1>1. ASSUME HardwareChange
      PROVE  changes' \in 0 .. MaxChanges /\ steady' = FALSE
    BY <1>1, BoundsAssumption DEF HardwareChange, TypeOK
<1>2. ASSUME NEW p \in PFs, Repartition(p)
      PROVE  TypeOK'
    BY <1>2, <1>1 DEF Repartition, HardwareChange, TypeOK
<1>3. ASSUME NEW p \in PFs, Hotplug(p)
      PROVE  TypeOK'
    BY <1>3, <1>1, ModesAssumption DEF Hotplug, HardwareChange, TypeOK
<1>4. ASSUME NEW d \in Device, StatusChange(d)
      PROVE  TypeOK'
    BY <1>4, <1>1 DEF StatusChange, HardwareChange, TypeOK
<1> QED
    BY <1>2, <1>3, <1>4 DEF Environment

\* Every reachable state is well typed.
THEOREM TypeCorrect == Spec => []TypeOK
<1>1. TypeOK /\ [Next]_vars => TypeOK'
    <2>1. ASSUME TypeOK, UNCHANGED vars
          PROVE  TypeOK'
        BY <2>1 DEF vars, hardware, scan, result, TypeOK
    <2> QED
        BY <2>1, ScanType, EnvironmentType DEF Next
<1> QED
    BY <1>1, InitType, PTL DEF Spec

-----------------------------------------------------------------------------
(* The scan, one step at a time *)

LEMMA InitScan == Init => ScanInv
<1> SUFFICES ASSUME Init
             PROVE  Position /\ Pending /\ Sound /\ Complete /\ Published
    BY InitType DEF ScanInv
<1> QED
    BY DEF Init, Position, Pending, Sound, Complete, Published,
       UndisturbedScanExact, ErrorsNeverMisfile, ErrorsNeverDrain

\* The list is taken of what is there, or is empty and the scan not clean.
LEMMA ListScan ==
    ASSUME ScanInv, List
    PROVE  ScanInv'
<1>1. /\ Present' = Present
      /\ \A d : Expected(d)' = Expected(d)
      /\ UNCHANGED <<plugged, numVFs, ready, changes>>
    BY HardwareDecides DEF List
<1>2. pc' = "next" /\ dev' = {} /\ todo' \subseteq Present
    BY DEF List, ScanInv, Position
<1>3. /\ groups' = [d \in Device |-> Nothing]
      /\ health' = [d \in Device |-> "Healthy"]
    BY DEF List
<1>4. todo' \subseteq Device
    BY <1>2 DEF Present
<1>5. clean' => todo' = Present
    BY DEF List, ReadError
<1>6. \A d \in Device : d \notin Present => Expected(d) = Nothing
    BY DEF Expected
<1>7. TypeOK'
    BY ScanType DEF ScanInv, Scan, Discover
<1>8. Position' /\ Pending' /\ Published'
    BY <1>2, <1>3, <1>4 DEF Position, Pending, Published,
       UndisturbedScanExact, ErrorsNeverMisfile, ErrorsNeverDrain
<1>9. Sound'
    BY <1>1, <1>2, <1>3 DEF Sound
<1>10. Complete'
    BY <1>1, <1>2, <1>3, <1>5, <1>6 DEF Complete
<1> QED
    BY <1>7, <1>8, <1>9, <1>10 DEF ScanInv

LEMMA NextDeviceScan ==
    ASSUME ScanInv, NEW d \in Device, NextDevice(d)
    PROVE  ScanInv'
<1>1. /\ Present' = Present
      /\ \A e : Expected(e)' = Expected(e)
      /\ UNCHANGED <<plugged, numVFs, ready, changes>>
    BY HardwareDecides DEF NextDevice
<1>2. /\ pc = "next" /\ pc' = "physfn"
      /\ dev = {} /\ dev' = {d}
      /\ d \in todo /\ todo' = todo \ {d}
      /\ UNCHANGED <<groups, health, clean, steady>>
    BY DEF NextDevice, ReadOK, ScanInv, Position
<1>3. todo' \cup dev' = todo \cup dev
    BY <1>2
<1>4. TypeOK'
    BY ScanType DEF ScanInv, Scan, Discover
<1>5. Position' /\ Published'
    BY <1>2 DEF Position, Published, UndisturbedScanExact, ErrorsNeverMisfile, ErrorsNeverDrain
<1>6. Pending'
    BY <1>2, <1>3 DEF ScanInv, Pending
<1>7. Sound'
    BY <1>1, <1>2, <1>3 DEF ScanInv, Sound
<1>8. Complete'
    BY <1>1, <1>2, <1>3 DEF ScanInv, Complete
<1> QED
    BY <1>4, <1>5, <1>6, <1>7, <1>8 DEF ScanInv

(***************************************************************************)
(* What a read of probeSRIOV learns on steady hardware: the device is left *)
(* out only when nothing is expected of it or the read failed, and it is   *)
(* given only the resource it belongs under.                               *)
(***************************************************************************)
LEMMA ProbeRight ==
    ASSUME ScanInv, NEW d \in Device,
           LstatPhysfn(d) \/ ReadlinkPhysfn(d) \/ ReadParentNumVFs(d) \/ ReadOwnNumVFs(d)
    PROVE  /\ pc' \in {"readlink", "parent"} => IsVF(d)
           /\ steady /\ pc' = "numvfs" => ~IsVF(d)
           /\ steady /\ pc' = "health" => resource' = Expected(d)
           /\ steady /\ pc' = "next" => ReadError \/ Expected(d) = Nothing
<1>1. d \in dev
    BY ReadOutcome DEF ScanInv
<1>2. /\ pc \in {"readlink", "parent"} => IsVF(d)
      /\ pc # "idle" /\ steady => d \in Present /\ (pc = "numvfs" => ~IsVF(d))
    BY <1>1 DEF ScanInv, Position, Sound
<1> USE DEF Read, Goto, Skip, Advertise, Unreadable
<1>3. CASE LstatPhysfn(d)
    BY <1>2, <1>3 DEF LstatPhysfn
<1>4. CASE ReadlinkPhysfn(d)
    BY <1>2, <1>4 DEF ReadlinkPhysfn
<1>5. CASE ReadParentNumVFs(d)
    <2>1. steady => Expected(d) = vfResourceName(numVFs[d[1]])
        BY <1>2, <1>5, ExpectedVF DEF ReadParentNumVFs
    <2> QED
        BY <1>5, <2>1 DEF ReadParentNumVFs
<1>6. CASE ReadOwnNumVFs(d)
    <2>1. steady => ~IsVF(d) /\ Expected(d) = IF HostsVFs(d[1]) THEN Nothing ELSE Generic
        BY <1>2, <1>6, ExpectedPF DEF ReadOwnNumVFs, ScanInv
    <2> QED
        BY <1>6, <2>1 DEF ReadOwnNumVFs
<1> QED
    BY <1>3, <1>4, <1>5, <1>6

LEMMA ProbeScan ==
    ASSUME ScanInv, NEW d \in Device,
           LstatPhysfn(d) \/ ReadlinkPhysfn(d) \/ ReadParentNumVFs(d) \/ ReadOwnNumVFs(d)
    PROVE  ScanInv'
<1>1. /\ d \in dev
      /\ pc # "idle" /\ pc' \in {"next", "readlink", "parent", "numvfs", "health"}
      /\ pc' = "next" <=> dev' = {}
      /\ pc' # "next" => dev' = dev
      /\ ReadOK \/ ReadError
      /\ UNCHANGED <<hardware, todo, groups, health, steady>>
    BY ReadOutcome DEF ScanInv
<1>2. /\ Present' = Present
      /\ \A e : Expected(e)' = Expected(e)
      /\ UNCHANGED <<plugged, numVFs, ready, changes>>
    BY <1>1, HardwareDecides
<1>3. dev = {d}
    BY <1>1 DEF ScanInv, TypeOK
<1>4. clean' => clean /\ ~ReadError
    BY <1>1 DEF ReadOK, ReadError
<1>5. TypeOK'
    BY ScanType DEF ScanInv, Scan, Discover
<1>6. Position'
    BY <1>1, <1>3, ProbeRight DEF ScanInv, Position
<1>7. Pending'
    BY <1>1, <1>3 DEF ScanInv, Pending
<1>8. Sound'
    BY <1>1, <1>2, <1>3, ProbeRight DEF ScanInv, Sound
<1>9. Complete'
    <2> SUFFICES ASSUME steady, clean', NEW e \in Device, e \notin todo' \cup dev'
                 PROVE  /\ groups[e] = Expected(e)
                        /\ groups[e] # Nothing => (health[e] = "Healthy" <=> e \in ready)
        BY <1>1, <1>2 DEF Complete
    <2>1. CASE e # d
        BY <1>1, <1>3, <1>4, <2>1 DEF ScanInv, Complete
    <2>2. CASE e = d
        <3>1. pc' = "next" /\ Expected(d) = Nothing
            BY <1>1, <1>3, <1>4, <2>2, ProbeRight
        <3>2. groups[d] = Nothing
            BY <1>1 DEF ScanInv, Pending
        <3> QED
            BY <2>2, <3>1, <3>2
    <2> QED
        BY <2>1, <2>2
<1>10. Published'
    BY <1>1 DEF Published, UndisturbedScanExact, ErrorsNeverMisfile, ErrorsNeverDrain
<1> QED
    BY <1>5, <1>6, <1>7, <1>8, <1>9, <1>10 DEF ScanInv

LEMMA HealthScan ==
    ASSUME ScanInv, NEW d \in Device, ReadHealth(d)
    PROVE  ScanInv'
<1>1. /\ pc = "health" /\ pc' = "next"
      /\ d \in dev /\ dev' = {}
      /\ groups' = [groups EXCEPT ![d] = resource]
      /\ UNCHANGED <<hardware, todo, steady>>
    BY DEF ReadHealth
<1>2. /\ Present' = Present
      /\ \A e : Expected(e)' = Expected(e)
      /\ UNCHANGED <<plugged, numVFs, ready, changes>>
    BY <1>1, HardwareDecides
<1>3. dev = {d}
    BY <1>1 DEF ScanInv, TypeOK
<1>4. steady => d \in Present /\ resource = Expected(d)
    BY <1>1 DEF ScanInv, Sound
<1>5. PICK h \in Health :
        /\ health' = [health EXCEPT ![d] = h]
        /\ h = "Unhealthy" => d \notin ready
        /\ steady /\ clean' => clean /\ (h = "Healthy" <=> d \in ready)
    BY <1>4, HealthType DEF ReadHealth, healthForDevice, ReadOK, ReadError
<1>6. TypeOK'
    BY ScanType DEF ScanInv, Scan, Discover
<1>7. Position' /\ Published'
    BY <1>1 DEF Position, Published, UndisturbedScanExact, ErrorsNeverMisfile, ErrorsNeverDrain
<1>8. /\ groups \in [Device -> Resource] /\ health \in [Device -> Health]
      /\ d \notin todo
    BY <1>1 DEF ScanInv, TypeOK, Position
<1>9. \A e \in Device : /\ groups'[e] = IF e = d THEN resource ELSE groups[e]
                        /\ health'[e] = IF e = d THEN h ELSE health[e]
    BY <1>1, <1>5, <1>8
<1>10. Pending'
    <2>1. todo \subseteq Device
        BY DEF ScanInv, TypeOK
    <2> QED
        <3> SUFFICES ASSUME NEW e \in todo
                     PROVE  groups'[e] = Nothing /\ health'[e] = "Healthy"
            BY <1>1 DEF Pending
        <3>1. e \in Device /\ e # d
            BY <1>8, <2>1
        <3>2. groups[e] = Nothing /\ health[e] = "Healthy"
            BY <1>1 DEF ScanInv, Pending
        <3> QED
            BY <1>9, <3>1, <3>2
<1>11. Sound'
    BY <1>1, <1>2, <1>4, <1>5, <1>9 DEF ScanInv, Sound
<1>12. Complete'
    <2> SUFFICES ASSUME steady, clean', NEW e \in Device, e \notin todo
                 PROVE  /\ groups'[e] = Expected(e)
                        /\ groups'[e] # Nothing => (health'[e] = "Healthy" <=> e \in ready)
        BY <1>1, <1>2 DEF Complete
    <2>1. CASE e = d
        BY <1>4, <1>5, <1>9, <2>1
    <2>2. CASE e # d
        <3>1. clean /\ e \notin todo \cup dev
            BY <1>3, <1>5, <2>2
        <3>2. /\ groups[e] = Expected(e)
              /\ groups[e] # Nothing => (health[e] = "Healthy" <=> e \in ready)
            BY <1>1, <3>1 DEF ScanInv, Complete
        <3> QED
            BY <1>9, <2>2, <3>2
    <2> QED
        BY <2>1, <2>2
<1> QED
    BY <1>6, <1>7, <1>10, <1>11, <1>12 DEF ScanInv

\* At the end of the loop nothing is left to look at: what is published is
\* what Sound and Complete say.
LEMMA PublishScan ==
    ASSUME ScanInv, Publish
    PROVE  ScanInv'
<1>1. /\ pc = "next" /\ pc' = "idle" /\ todo = {}
      /\ advertised' = groups /\ advHealth' = health
      /\ UNCHANGED <<hardware, todo, dev, steady, clean>>
    BY DEF Publish, NewInventory, ReadOK
<1>2. /\ Present' = Present
      /\ \A e : Expected(e)' = Expected(e)
      /\ UNCHANGED <<plugged, numVFs, ready, changes>>
    BY <1>1, HardwareDecides
<1>3. dev = {}
    BY <1>1 DEF ScanInv, Position
<1>4. TypeOK'
    BY ScanType DEF ScanInv, Scan
<1>5. Position' /\ Pending' /\ Sound' /\ Complete'
    BY <1>1, <1>3 DEF Position, Pending, Sound, Complete
<1>6. UndisturbedScanExact'
    BY <1>1, <1>2, <1>3 DEF UndisturbedScanExact, ScanInv, Complete
<1>7. ErrorsNeverMisfile' /\ ErrorsNeverDrain'
    BY <1>1, <1>2 DEF ErrorsNeverMisfile, ErrorsNeverDrain, ScanInv, Sound
<1> QED
    BY <1>4, <1>5, <1>6, <1>7 DEF ScanInv, Published

\* After a change of the hardware nothing is claimed of it until the next list.
LEMMA EnvironmentScan ==
    ASSUME ScanInv, Environment
    PROVE  ScanInv'
<1>1. HardwareChange
    BY DEF Environment, Repartition, Hotplug, StatusChange
<1>2. steady' = FALSE /\ UNCHANGED <<pc, todo, dev, groups, health>>
    BY <1>1 DEF HardwareChange, scan
<1>3. TypeOK'
    BY EnvironmentType DEF ScanInv
<1> QED
    BY <1>2, <1>3 DEF ScanInv, Position, Pending, Sound, Complete, Published,
       UndisturbedScanExact, ErrorsNeverMisfile, ErrorsNeverDrain

LEMMA ScanStep ==
    ASSUME ScanInv, [Next]_vars
    PROVE  ScanInv'
<1>1. CASE UNCHANGED vars
    <2>1. /\ UNCHANGED <<pc, todo, dev, resource, groups, health>>
          /\ UNCHANGED <<advertised, advHealth, errors, steady, clean>>
          /\ UNCHANGED hardware
        BY <1>1 DEF vars, scan, result
    <2>2. /\ Present' = Present
          /\ \A e : Expected(e)' = Expected(e)
          /\ UNCHANGED <<plugged, numVFs, ready, changes>>
        BY <2>1, HardwareDecides
    <2>3. TypeOK' /\ Position' /\ Pending'
        BY <2>1, <2>2 DEF ScanInv, TypeOK, Position, Pending
    <2>4. Sound' /\ Complete'
        BY <2>1, <2>2 DEF ScanInv, Sound, Complete
    <2>5. Published'
        BY <2>1, <2>2 DEF ScanInv, Published,
           UndisturbedScanExact, ErrorsNeverMisfile, ErrorsNeverDrain
    <2> QED
        BY <2>3, <2>4, <2>5 DEF ScanInv
<1>2. CASE Scan
    BY <1>2, ListScan, NextDeviceScan, ProbeScan, HealthScan, PublishScan DEF Scan, Discover
<1> QED
    BY <1>1, <1>2, EnvironmentScan DEF Next

\* ScanInv holds in every reachable state.
THEOREM ScanInvariance == Spec => []ScanInv
<1>1. ScanInv /\ [Next]_vars => ScanInv'
    BY ScanStep
<1> QED
    BY <1>1, InitScan, PTL DEF Spec

\* A scan that no change and no failing read disturbed advertises exactly the
\* devices on the bus, each under the resource and with the health it has.
THEOREM ScansAreExact == Spec => []UndisturbedScanExact
<1>1. ScanInv => UndisturbedScanExact
    BY DEF ScanInv, Published
<1> QED
    BY <1>1, ScanInvariance, PTL

\* Whichever reads of probeSRIOV failed, no device of steady hardware is
\* advertised under a resource it does not belong to.
THEOREM ErrorsLeaveOut == Spec => []ErrorsNeverMisfile
<1>1. ScanInv => ErrorsNeverMisfile
    BY DEF ScanInv, Published
<1> QED
    BY <1>1, ScanInvariance, PTL

\* An unreadable status never takes a READY device from the scheduler.
THEOREM ErrorsFailOpen == Spec => []ErrorsNeverDrain
<1>1. ScanInv => ErrorsNeverDrain
    BY DEF ScanInv, Published
<1> QED
    BY <1>1, ScanInvariance, PTL
=============================================================================
